------------------------------ MODULE FsxWatcher ------------------------------
(***************************************************************************)
(* PollingFileWatcher over a tree that other programs change while it is   *)
(* captured. A path's stamp stands for the type, time, size and content    *)
(* hash of its snapshot; every change gives a new one. The root exists for *)
(* a directory watch; a single path is watched when it does not.           *)
(***************************************************************************)
EXTENDS FsxTree

CONSTANTS
    Paths,          \* the paths programs use
    Order,          \* the same in the order of their spelling
    Root,           \* the watched path, when it is not a directory
    MaxChanges      \* changes made by others

VARIABLES disk,
          watching,     \* initialized_ and watching_directory_: "new", "path", "directory"
          last,         \* last_ or tree_last_
          pending,
          scan,         \* the capture in progress
          changes,
          view,         \* what the caller knows from the events it was given
          calm          \* no change since the capture began

watchVars == <<disk, watching, last, pending, scan, changes, view, calm>>

Idle == [at |-> "idle", listed |-> {}, found |-> <<>>]

\* Poll; the kind of watch is decided by what is there at the first one.
Poll ==
    /\ scan.at = "idle"
    /\ \E kind \in IF watching = "new" THEN {"path", "directory"} ELSE {watching} :
           scan' = [at |-> kind, found |-> <<>>,
                    listed |-> IF kind = "path" THEN {Root} ELSE Children(disk, <<>>)]
    /\ calm' = TRUE
    /\ UNCHANGED <<disk, watching, last, pending, changes, view>>

\* CapturePollingSnapshot of an entry of a directory that was read before: a
\* path that is gone by then is kept in the tree as one that does not exist.
Capture ==
    /\ scan.at \in {"path", "directory"}
    /\ \E p \in scan.listed :
           LET kept == p \in DOMAIN disk \/ scan.at = "directory"
               inside == IF scan.at = "directory" /\ p \in DOMAIN disk /\ IsFolder(disk[p]) THEN Children(disk, p) ELSE {}
           IN  scan' = [scan EXCEPT !.listed = (@ \ {p}) \cup inside,
                                    !.found = IF kept THEN With(@, p, Value(disk, p)) ELSE @]
    /\ UNCHANGED <<disk, watching, last, pending, changes, view, calm>>

\* The iterator's ++ throws when it cannot open a directory that vanished
\* after its own snapshot: Poll throws and nothing of the watcher changes.
Throw ==
    /\ scan.at = "directory"
    /\ \E p \in DOMAIN scan.found : IsFolder(scan.found[p]) /\ p \notin DOMAIN disk
    /\ scan' = Idle
    /\ UNCHANGED <<disk, watching, last, pending, changes, view, calm>>

\* SnapshotChanged, and its mutant that leaves the time out.
ChangedType(before, after) == IsFolder(before) # IsFolder(after)
SnapshotChanged(before, after) == before # after

KindOf(p, now) ==
    CASE p \notin DOMAIN last -> "Created"
      [] p \notin DOMAIN now -> "Removed"
      [] SnapshotChanged(last[p], now[p]) -> "Modified"
      [] OTHER -> "None"

Events(now) ==
    LET paths == SelectSeq(Order, LAMBDA p : p \in DOMAIN last \cup DOMAIN now /\ KindOf(p, now) # "None")
    IN  [i \in DOMAIN paths |-> [kind |-> KindOf(paths[i], now), path |-> paths[i], value |-> Value(now, paths[i])]]

\* Initialize, or RefreshEvents: the whole comparison is made at once.
Compare ==
    /\ scan.at \in {"path", "directory"} /\ scan.listed = {}
    /\ watching' = scan.at
    /\ pending' = IF watching = "new" THEN pending ELSE pending \o Events(scan.found)
    /\ view' = IF watching = "new" THEN scan.found ELSE view
    /\ last' = scan.found
    /\ scan' = [scan EXCEPT !.at = IF watching = "new" THEN "first" ELSE "compared"]
    /\ UNCHANGED <<disk, changes, calm>>

Heard(known, e) == IF e.kind = "Removed" THEN [p \in DOMAIN known \ {e.path} |-> known[p]] ELSE With(known, e.path, e.value)

Deliver ==
    /\ scan.at = "compared" /\ pending # <<>>
    /\ view' = Heard(view, Head(pending))
    /\ pending' = Tail(pending)
    /\ scan' = Idle
    /\ UNCHANGED <<disk, watching, last, changes, calm>>

\* Nothing new: another round before the deadline, or no event.
TimeOut ==
    /\ scan.at = "first" \/ (scan.at = "compared" /\ pending = <<>>)
    /\ scan' = Idle
    /\ UNCHANGED <<disk, watching, last, pending, changes, view, calm>>

--------------------------------------------------------------------------------
\* Other programs. Making or removing an entry changes its directory too.
Touched(t, p, v) == IF Front(p) \in DOMAIN t THEN With(t, Front(p), [folder |-> TRUE, stamp |-> v]) ELSE t

ChangeDisk ==
    /\ changes < MaxChanges /\ changes' = changes + 1 /\ calm' = FALSE
    /\ \E p \in Paths :
           \/ /\ p \in DOMAIN disk
              /\ disk' = Touched(Without(disk, p), p, changes')
           \/ /\ p \notin DOMAIN disk /\ Reachable(disk, p)
              /\ \E folder \in BOOLEAN : disk' = Touched(With(disk, p, [folder |-> folder, stamp |-> changes']), p, changes')
           \/ IsFile(disk, p) /\ disk' = With(disk, p, [folder |-> FALSE, stamp |-> changes'])
    /\ UNCHANGED <<watching, last, pending, scan, view>>

Init ==
    /\ \E f \in SUBSET {p \in Paths : Len(p) = 1} : disk = [p \in f |-> [folder |-> FALSE, stamp |-> 0]]
    /\ watching = "new" /\ last = <<>> /\ pending = <<>> /\ scan = Idle
    /\ changes = 0 /\ view = <<>> /\ calm = TRUE

Next == Poll \/ Capture \/ Throw \/ Compare \/ Deliver \/ TimeOut \/ ChangeDisk

Spec == Init /\ [][Next]_watchVars

--------------------------------------------------------------------------------
Fits(known, e) == (e.kind = "Created") = (e.path \notin DOMAIN known)

\* The events a caller has been given and those still queued make sense one
\* after the other (nothing is created twice, or removed or modified when it
\* is not known) and lead from the first capture to the last; and when a poll
\* finds nothing while nothing changes, the caller knows what is on the disk
\* (RefreshDirectoryEvents, RefreshSinglePathEvents, Poll).
EventsTellAll ==
    /\ watching # "new" =>
          LET steps == [i \in 0..Len(pending) |-> FoldLeft(Heard, view, SubSeq(pending, 1, i))] IN
              /\ steps[Len(pending)] = last
              /\ \A i \in DOMAIN pending : Fits(steps[i - 1], pending[i])
    /\ scan.at = "compared" /\ pending = <<>> /\ calm =>
          view = IF watching = "directory" THEN disk ELSE [p \in {Root} \cap DOMAIN disk |-> disk[p]]
================================================================================
