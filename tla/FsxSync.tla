-------------------------------- MODULE FsxSync --------------------------------
(***************************************************************************)
(* BuildSyncPlan and the batch that carries it out, and the CopyTree step, *)
(* while other programs change the source. The destination is the run's    *)
(* own, as the documentation asks; crashes are FsxTransaction's subject.   *)
(* fail_fast is set.                                                       *)
(*                                                                         *)
(* A tree is a function from the paths below its root, sequences of names, *)
(* to a content or Folder. Links and other kinds of files, which every     *)
(* walk refuses, are left out.                                             *)
(***************************************************************************)
EXTENDS FsxTree

CONSTANTS
    Order,          \* the paths programs use, in the order of their spelling
    Contents, Folder,
    SizeOf,         \* the size of each content
    Trees,          \* what the two roots may hold at first
    Calls,          \* records: mode, separate, remove, policy
    MaxChanges,     \* changes of the source by others
    MaxFaults       \* filesystem calls that fail

VARIABLES src, dst,         \* the trees
          call,             \* the arguments
          job,              \* the call's progress
          changes, faults,
          first, past       \* the destination at first; what each source path was since

syncVars == <<src, dst, call, job, changes, faults, first, past>>

UserPaths == ToSet(Order)

Temp(p, tag) == Front(p) \o <<[tag |-> tag, of |-> Last(p)]>>      \* make_temp_path
Sorted(S) == SelectSeq(Order, LAMBDA p : p \in S)

NoJob == [at |-> "call", listed |-> {}, from |-> <<>>, into |-> <<>>, todo |-> {}, differ |-> {},
          plan |-> <<>>, prims |-> <<>>, undo |-> <<>>, tidy |-> {}]

--------------------------------------------------------------------------------
(* The walks: only files become entries. An entry is looked at some time   *)
(* after its directory was read, and may be gone by then.                  *)

Visited(t, found, p) == IF IsFile(t, p) THEN With(found, p, SizeOf[t[p]]) ELSE found
Listed(t, p) == (job.listed \ {p}) \cup (IF t[p] = Folder THEN Children(t, p) ELSE {})

WalkSource ==
    /\ job.at = "source"
    /\ \E p \in job.listed \cap DOMAIN src :
           job' = [job EXCEPT !.listed = Listed(src, p), !.from = Visited(src, @, p)]
    /\ UNCHANGED <<src, dst, call, changes, faults, first, past>>

WalkDestination ==
    /\ job.at = "destination"
    /\ \E p \in job.listed \cap DOMAIN dst :
           job' = [job EXCEPT !.listed = Listed(dst, p), !.into = Visited(dst, @, p)]
    /\ UNCHANGED <<src, dst, call, changes, faults, first, past>>

\* A file in the place of a parent is an inspection error.
SafeChildPath(p) == \A q \in Parents(p) : ~IsFile(src, q) /\ ~IsFile(dst, q)

--------------------------------------------------------------------------------
(* BuildSyncPlan.                                                          *)

Begin ==
    /\ job.at = "call" /\ call.separate
    /\ job' = [job EXCEPT !.at = "source", !.listed = Children(src, <<>>)]
    /\ UNCHANGED <<src, dst, call, changes, faults, first, past>>

WalkedSource ==
    /\ job.at = "source" /\ job.listed = {}
    /\ job' = IF call.mode = "sync" THEN [job EXCEPT !.at = "destination", !.listed = Children(dst, <<>>)]
              ELSE [job EXCEPT !.at = "run", !.plan = [i \in DOMAIN Sorted(DOMAIN job.from) |->
                                                        [kind |-> "Copy", path |-> Sorted(DOMAIN job.from)[i]]]]
    /\ UNCHANGED <<src, dst, call, changes, faults, first, past>>

WalkedDestination ==
    /\ job.at = "destination" /\ job.listed = {}
    /\ job' = [job EXCEPT !.at = "compare", !.todo = DOMAIN job.from]
    /\ UNCHANGED <<src, dst, call, changes, faults, first, past>>

\* The sizes are those of the walks; the contents are read now.
Same(p) ==
    /\ p \in DOMAIN job.into /\ job.into[p] = job.from[p]
    /\ IsFile(src, p) /\ src[p] = dst[p]

Compare ==
    /\ job.at = "compare"
    /\ \E p \in job.todo :
           /\ SafeChildPath(p)
           /\ job' = [job EXCEPT !.todo = @ \ {p}, !.differ = IF Same(p) THEN @ ELSE @ \cup {p}]
    /\ UNCHANGED <<src, dst, call, changes, faults, first, past>>

\* Sorted by path: what a removed directory held is still there when a file
\* has taken the directory's place, and is then skipped as missing.
Compared ==
    /\ job.at = "compare" /\ job.todo = {}
    /\ LET extra == IF call.remove THEN DOMAIN job.into \ DOMAIN job.from ELSE {}
           steps == Sorted(job.differ \cup extra)
       IN  job' = [job EXCEPT !.at = "run",
                              !.plan = [i \in DOMAIN steps |->
                                          [kind |-> IF steps[i] \in extra THEN "Remove" ELSE "Copy", path |-> steps[i]]]]
    /\ UNCHANGED <<src, dst, call, changes, faults, first, past>>

\* MarkInvalid: Run refuses the plan.
Refuse ==
    /\ \/ job.at = "call" /\ ~call.separate
       \/ job.at = "source" /\ call.mode = "sync" /\ ~(job.listed \subseteq DOMAIN src)
       \/ job.at = "compare" /\ \E p \in job.todo : ~SafeChildPath(p)
    /\ job' = [job EXCEPT !.at = "refused"]
    /\ UNCHANGED <<src, dst, call, changes, faults, first, past>>

--------------------------------------------------------------------------------
(* Run: each step becomes the filesystem calls that are left of it.        *)

Move(p, q) == [kind |-> "Move", from |-> p, to |-> q]

MissingParents(p) == Sorted({q \in Parents(p) : q \notin DOMAIN dst})

\* ensure_copy_parent_tracked: a directory is made beside its name and moved there.
MakeParents(p) ==
    FlattenSeq([i \in DOMAIN MissingParents(p) |->
                  LET q == MissingParents(p)[i] IN <<[kind |-> "Make", to |-> Temp(q, "mkdir")], Move(Temp(q, "mkdir"), q)>>])

MoveAside(p, tag) == <<Move(p, Temp(p, tag))>>

CopyFileTracked(p) ==
    MakeParents(p) \o <<[kind |-> "Copy", of |-> p, to |-> Temp(p, "copy")]>>
    \o (IF p \in DOMAIN dst THEN MoveAside(p, "old") ELSE <<>>) \o <<Move(Temp(p, "copy"), p)>>

Conflicts(step) == step.kind = "Copy" /\ step.path \in DOMAIN dst /\ call.policy = "Fail"
Fails(step) ==
    \/ step.kind = "Copy" /\ step.path \notin DOMAIN src
    \/ Conflicts(step)
    \/ call.mode = "tree" /\ ~SafeChildPath(step.path)
Skips(step) ==
    IF step.kind = "Copy" THEN step.path \in DOMAIN dst /\ call.policy = "Skip"
    ELSE step.path \notin DOMAIN dst \/ call.policy = "Skip"

BeginStep ==
    /\ job.at = "run" /\ job.prims = <<>> /\ job.plan # <<>>
    /\ LET step == Head(job.plan)
           p == step.path
       IN  /\ ~Fails(step)
           /\ job' = [job EXCEPT
                 !.plan = Tail(@),
                 !.prims = IF Skips(step) THEN <<>>
                           ELSE IF step.kind = "Copy" THEN CopyFileTracked(p) ELSE MoveAside(p, "removed"),
                 !.tidy = IF Skips(step) \/ p \notin DOMAIN dst THEN @
                          ELSE @ \cup {Temp(p, IF step.kind = "Copy" THEN "old" ELSE "removed")}]
    /\ UNCHANGED <<src, dst, call, changes, faults, first, past>>

\* What the call does, and whether it can.
Possible(c) ==
    /\ Reachable(dst, c.to)
    /\ CASE c.kind = "Copy" -> IsFile(src, c.of)
         [] c.kind = "Move" -> c.from \in DOMAIN dst /\ c.to \notin DOMAIN dst
         [] OTHER -> TRUE
Effect(c) ==
    CASE c.kind = "Copy" -> With(dst, c.to, src[c.of])
      [] c.kind = "Make" -> With(dst, c.to, Folder)
      [] OTHER -> Moved(dst, c.from, c.to)

\* record_undo comes before the call, but for a copy, which is removed by hand
\* when its record cannot be written.
UndoOf(c) == IF c.kind = "Move" THEN Move(c.to, c.from) ELSE [kind |-> "Remove", from |-> c.to]
Recorded(c) == IF c.kind = "Copy" THEN job.undo ELSE Append(job.undo, UndoOf(c))

Perform ==
    /\ job.at = "run" /\ job.prims # <<>>
    /\ LET c == Head(job.prims) IN
           /\ Possible(c)
           /\ dst' = Effect(c)
           /\ job' = [job EXCEPT !.prims = Tail(@), !.undo = Append(@, UndoOf(c))]
    /\ UNCHANGED <<src, call, changes, faults, first, past>>

\* rollback, then the whole run has failed.
Undone(t, u) ==
    IF u.from \notin DOMAIN t THEN t
    ELSE IF u.kind = "Remove" THEN Without(t, u.from)
    ELSE IF u.to \in DOMAIN t THEN t ELSE Moved(t, u.from, u.to)

\* A mutant of Rollback: the oldest record first.
RollbackForward(undo) == FoldLeft(Undone, dst, undo)

Rollback(undo) == FoldRight(LAMBDA u, t : Undone(t, u), undo, dst)

FailStep ==
    /\ job.at = "run" /\ job.prims = <<>> /\ job.plan # <<>> /\ Fails(Head(job.plan))
    /\ dst' = Rollback(job.undo)
    /\ job' = [job EXCEPT !.at = "failed"]
    /\ UNCHANGED <<src, call, changes, faults, first, past>>

FailWalk ==
    /\ job.at = "source" /\ call.mode = "tree" /\ ~(job.listed \subseteq DOMAIN src)
    /\ job' = [job EXCEPT !.at = "failed"]
    /\ UNCHANGED <<src, dst, call, changes, faults, first, past>>

FailCall ==
    /\ job.at = "run" /\ job.prims # <<>>
    /\ LET c == Head(job.prims) IN
           /\ \/ ~Possible(c) /\ UNCHANGED faults
              \/ Possible(c) /\ faults < MaxFaults /\ faults' = faults + 1
           /\ dst' = Rollback(Recorded(c))
    /\ job' = [job EXCEPT !.at = "failed"]
    /\ UNCHANGED <<src, call, changes, first, past>>

\* cleanup_after_success.
Finish ==
    /\ job.at = "run" /\ job.prims = <<>> /\ job.plan = <<>>
    /\ dst' = [p \in DOMAIN dst \ UNION {Below(dst, q) : q \in job.tidy} |-> dst[p]]
    /\ job' = [job EXCEPT !.at = "ok"]
    /\ UNCHANGED <<src, call, changes, faults, first, past>>

--------------------------------------------------------------------------------
(* Other programs.                                                         *)

ChangeSource ==
    /\ changes < MaxChanges /\ job.at \in {"source", "destination", "compare", "run"}
    /\ changes' = changes + 1
    /\ \E p \in UserPaths : \E v \in Contents \cup {Folder, Absent} :
           /\ IF v = Absent THEN p \in DOMAIN src ELSE Reachable(src, p) /\ Value(src, p) # v
           /\ src' = IF v = Absent THEN Without(src, p) ELSE With(Without(src, p), p, v)
    /\ past' = [p \in UserPaths |-> past[p] \cup {Value(src', p)}]
    /\ UNCHANGED <<dst, call, job, faults, first>>

Init ==
    /\ src \in Trees /\ dst \in Trees /\ call \in Calls
    /\ job = NoJob /\ changes = 0 /\ faults = 0 /\ first = dst
    /\ past = [p \in UserPaths |-> {Value(src, p)}]

Next ==
    \/ Begin \/ WalkSource \/ WalkedSource \/ WalkDestination \/ WalkedDestination \/ Compare \/ Compared
    \/ Refuse \/ BeginStep \/ Perform \/ FailStep \/ FailWalk \/ FailCall \/ Finish \/ ChangeSource

Spec == Init /\ [][Next]_syncVars

--------------------------------------------------------------------------------
\* A run that reports success has made every path of the destination what
\* that path of the source was at some moment of the call: a file with its
\* content, or no file; where nothing is to be removed, or files that exist
\* are to be kept, it may have kept its own. No temporary is left
\* (BuildSyncPlan, CopyTree, Run).
MirrorsSource ==
    job.at = "ok" =>
        /\ DOMAIN dst \subseteq UserPaths
        /\ \A p \in UserPaths :
              LET copied == IF IsFile(dst, p) THEN dst[p] \in past[p] ELSE past[p] \ Contents # {}
                  kept == Value(dst, p) = Value(first, p)
              IN  CASE call.policy = "Skip" -> IF p \in DOMAIN first THEN kept ELSE copied
                    [] call.remove -> copied
                    [] OTHER -> copied \/ (kept /\ past[p] \ Contents # {})

\* A run that fails or refuses leaves the destination as it was, whichever
\* call failed, after which of them, and whatever happened to the source
\* meanwhile (rollback).
FailureRestores == job.at \in {"failed", "refused"} => dst = first
================================================================================
