------------------------------ MODULE FsxArchive ------------------------------
(***************************************************************************)
(* CreateArchive of a directory that other programs change meanwhile, and  *)
(* ExtractArchive of what became of it, a cut file too. An archive is a    *)
(* sequence of header blocks, data blocks and an end block; a content of   *)
(* size n has n data blocks. Names that no archive may hold and links are  *)
(* left out, as is include_root_directory.                                 *)
(***************************************************************************)
EXTENDS FiniteSets, FsxTree

CONSTANTS
    Order,          \* the paths programs use, in the order of their spelling
    Contents, Folder, SizeOf,
    Empty,          \* the content of size 0
    Tar,            \* the content that stands for the archive itself
    Trees,          \* what the two directories may hold at first
    Calls,          \* records: overlaps, policy, place
    MaxChanges, MaxCuts

VARIABLES src, dst, call, job, tar, changes, cuts, first, past

archiveVars == <<src, dst, call, job, tar, changes, cuts, first, past>>

UserPaths == ToSet(Order)
NoJob == [at |-> "call", listed |-> {}, entries |-> <<>>, members |-> <<>>, read |-> 0, skipped |-> {}, open |-> <<>>]

\* A file as it is in the archive: the first blocks of a content.
File(c, size) == [of |-> IF size = 0 THEN Empty ELSE c, blocks |-> size]
Whole(c) == File(c, SizeOf[c])

Header(p, folder, size) == [kind |-> "header", path |-> p, folder |-> folder, size |-> size]
Data(c) == [kind |-> "data", of |-> c]
End == [kind |-> "end"]
Payload(c, size) == [i \in 1..size |-> Data(c)]
Members == {b \in ToSet(tar) : b.kind = "header"}

--------------------------------------------------------------------------------
(* CreateArchive.                                                          *)

Refuse ==
    /\ \/ job.at = "call" /\ call.overlaps
       \/ job.at = "walk" /\ ~(job.listed \subseteq DOMAIN src)
    /\ job' = [job EXCEPT !.at = "refused"]
    /\ UNCHANGED <<src, dst, call, tar, changes, cuts, first, past>>

Begin ==
    /\ job.at = "call" /\ ~call.overlaps
    /\ job' = [job EXCEPT !.at = "walk", !.listed = Children(src, <<>>)]
    /\ UNCHANGED <<src, dst, call, tar, changes, cuts, first, past>>

\* WalkDirectory with directories: a file's size is the one at this moment.
Walk ==
    /\ job.at = "walk"
    /\ \E p \in job.listed \cap DOMAIN src :
           job' = [job EXCEPT !.listed = (@ \ {p}) \cup (IF src[p] = Folder THEN Children(src, p) ELSE {}),
                              !.entries = With(@, p, Header(p, src[p] = Folder,
                                                            IF src[p] = Folder THEN 0 ELSE SizeOf[src[p].of]))]
    /\ UNCHANGED <<src, dst, call, tar, changes, cuts, first, past>>

Walked ==
    /\ job.at = "walk" /\ job.listed = {}
    /\ LET paths == SelectSeq(Order, LAMBDA p : p \in DOMAIN job.entries) IN
           job' = [job EXCEPT !.at = "write", !.members = [i \in DOMAIN paths |-> job.entries[paths[i]]]]
    /\ UNCHANGED <<src, dst, call, tar, changes, cuts, first, past>>

Inspectable(t, p) == \A q \in Parents(p) : ~IsFile(t, q)     \* SafeChildPath: ENOTDIR is an error
Written(b) == IF b.folder \/ b.size = 0 THEN <<>> ELSE Payload(src[b.path].of, b.size)
Readable(b) ==
    \/ b.folder
    \/ b.path \in DOMAIN src /\ (b.size = 0 \/ (IsFile(src, b.path) /\ SizeOf[src[b.path].of] >= b.size))

\* write_tar_header, write_tar_file_payload: as many bytes as the header says.
WriteMember ==
    /\ job.at = "write" /\ job.members # <<>>
    /\ LET b == Head(job.members) IN
           /\ Inspectable(src, b.path) /\ Readable(b)
           /\ tar' = tar \o <<b>> \o Written(b)
    /\ job' = [job EXCEPT !.members = Tail(@)]
    /\ UNCHANGED <<src, dst, call, changes, cuts, first, past>>

\* The call fails and leaves the archive as far as it got.
FailMember ==
    /\ job.at = "write" /\ job.members # <<>>
    /\ LET b == Head(job.members) IN
           /\ ~(Inspectable(src, b.path) /\ Readable(b))
           /\ IF ~Inspectable(src, b.path) THEN UNCHANGED tar
              ELSE IF ~IsFile(src, b.path) THEN tar' = Append(tar, b)
              ELSE \E n \in 0..SizeOf[src[b.path].of] : tar' = tar \o <<b>> \o Payload(src[b.path].of, n)
    /\ job' = [job EXCEPT !.at = "cut"]
    /\ UNCHANGED <<src, dst, call, changes, cuts, first, past>>

FinishArchive ==
    /\ job.at = "write" /\ job.members = <<>>
    /\ tar' = Append(tar, End)
    /\ job' = [job EXCEPT !.at = "archived"]
    /\ UNCHANGED <<src, dst, call, changes, cuts, first, past>>

\* The disk is full, the process dies, or the file is cut on its way.
CutArchive ==
    /\ job.at \in {"write", "archived"} /\ cuts < MaxCuts
    /\ cuts' = cuts + 1
    /\ \E n \in 0..(Len(tar) - 1) : tar' = SubSeq(tar, 1, n)
    /\ job' = [job EXCEPT !.at = "cut"]
    /\ UNCHANGED <<src, dst, call, changes, first, past>>

--------------------------------------------------------------------------------
(* ExtractArchive.                                                         *)

Skipped(p) == \E q \in job.skipped : IsPrefix(q, p)

\* A mutant of HitsArchive: only the entry of that very name.
NamesArchive(b) == b.path = call.place

\* The archive must not be what the entry replaces or removes.
HitsArchive(b) ==
    /\ call.place # Absent
    /\ b.path = call.place \/ (~b.folder /\ Value(dst, b.path) = Folder /\ IsPrefix(b.path, call.place))

Merges(b) == b.folder /\ Value(dst, b.path) = Folder
Rejected(b) ==
    \/ ~Skipped(b.path) /\ ~Inspectable(dst, b.path)
    \/ /\ ~Skipped(b.path) /\ ~(call.policy = "Skip" /\ b.path \in DOMAIN dst)
       /\ HitsArchive(b) \/ (call.policy = "Fail" /\ b.path \in DOMAIN dst /\ ~Merges(b))

Opened == {"archived", "cut", "extract"}
\* No more bytes where a header would start are taken for the end.
NextBlock == IF job.read < Len(tar) THEN tar[job.read + 1] ELSE End

\* Directories the entry needs are made on the way (ensure_parent).
WithParents(t, p) == [q \in DOMAIN t \cup Parents(p) |-> IF q \in DOMAIN t THEN t[q] ELSE Folder]
Placed(b) ==
    LET cleared == IF b.folder \/ Value(dst, b.path) = Folder THEN Without(dst, b.path) ELSE dst
    IN  IF Merges(b) THEN dst
        ELSE With(WithParents(cleared, b.path), b.path, IF b.folder THEN Folder ELSE Whole(Empty))

Consumes(b, skip) == b.size

ReadHeader ==
    /\ job.at \in Opened /\ job.open = <<>> /\ NextBlock.kind = "header"
    /\ LET b == NextBlock
           skip == Skipped(b.path) \/ (call.policy = "Skip" /\ b.path \in DOMAIN dst)
       IN  /\ ~Rejected(b)
           /\ dst' = IF skip THEN dst ELSE Placed(b)
           /\ job' = [job EXCEPT !.at = "extract", !.read = @ + 1,
                         !.skipped = IF skip /\ b.folder /\ IsFile(dst, b.path) THEN @ \cup {b.path} ELSE @,
                         !.open = IF Consumes(b, skip) = 0 THEN <<>>
                                  ELSE <<[path |-> b.path, left |-> b.size, skip |-> skip]>>]
    /\ UNCHANGED <<src, call, tar, changes, cuts, first, past>>

ReadData ==
    /\ job.at = "extract" /\ job.open # <<>> /\ job.read < Len(tar)
    /\ LET f == Head(job.open) IN
           /\ dst' = IF f.skip THEN dst ELSE [dst EXCEPT ![f.path] = File(NextBlock.of, @.blocks + 1)]
           /\ job' = [job EXCEPT !.read = @ + 1,
                                 !.open = IF f.left = 1 THEN <<>> ELSE <<[f EXCEPT !.left = @ - 1]>>]
    /\ UNCHANGED <<src, call, tar, changes, cuts, first, past>>

FinishExtract ==
    /\ job.at \in Opened /\ job.open = <<>> /\ NextBlock = End
    /\ job' = [job EXCEPT !.at = "ok"]
    /\ UNCHANGED <<src, dst, call, tar, changes, cuts, first, past>>

FailExtract ==
    /\ job.at \in Opened
    /\ \/ job.open # <<>> /\ job.read = Len(tar)
       \/ job.open = <<>> /\ NextBlock # End /\ (NextBlock.kind = "data" \/ Rejected(NextBlock))
    /\ job' = [job EXCEPT !.at = "failed"]
    /\ UNCHANGED <<src, dst, call, tar, changes, cuts, first, past>>

--------------------------------------------------------------------------------
ChangeSource ==
    /\ changes < MaxChanges /\ job.at \in {"walk", "write"}
    /\ changes' = changes + 1
    /\ \E p \in UserPaths : \E v \in {Whole(c) : c \in Contents} \cup {Folder, Absent} :
           /\ IF v = Absent THEN p \in DOMAIN src ELSE Reachable(src, p) /\ Value(src, p) # v
           /\ src' = IF v = Absent THEN Without(src, p) ELSE With(Without(src, p), p, v)
    /\ past' = [p \in UserPaths |-> past[p] \cup {Value(src', p)}]
    /\ UNCHANGED <<dst, call, job, tar, cuts, first>>

Init ==
    /\ src \in Trees /\ call \in Calls
    /\ \E t \in Trees : IF call.place = Absent THEN dst = t
                        ELSE Reachable(t, call.place) /\ dst = With(Without(t, call.place), call.place, Tar)
    /\ job = NoJob /\ tar = <<>> /\ changes = 0 /\ cuts = 0 /\ first = dst
    /\ past = [p \in UserPaths |-> {Value(src, p)}]

Next ==
    \/ Refuse \/ Begin \/ Walk \/ Walked \/ WriteMember \/ FailMember \/ FinishArchive \/ CutArchive
    \/ ReadHeader \/ ReadData \/ FinishExtract \/ FailExtract \/ ChangeSource

Spec == Init /\ [][Next]_archiveVars

--------------------------------------------------------------------------------
Starts(values) == {File(v.of, n) : v \in values \ {Folder, Absent}, n \in 0..2}
Ended == Len(tar) > 0 /\ Last(tar) = End

\* An archive that was finished and extracted without an error brings back
\* every path that did not change, entry by entry, and of a file that did
\* what it held at some moment, or the start of it; nothing else appears.
\* Blocks of data are never taken for entries, whatever was skipped
\* (CreateArchive, ExtractArchive).
RoundTrip ==
    /\ job.at = "failed" /\ Ended => NextBlock.kind = "header"
    /\ job.at = "ok" /\ Ended =>
          \A p \in UserPaths :
              LET kept == Value(dst, p) = Value(first, p) IN
              CASE p \in DOMAIN first /\ call.policy # "Overwrite" -> kept
                [] Cardinality(past[p]) > 1 -> kept \/ p \notin DOMAIN dst \/ dst[p] = Folder \/ dst[p] \in Starts(past[p])
                [] p \in DOMAIN src ->
                      \/ Value(dst, p) = src[p]
                      \/ \E q \in Parents(p) : IsFile(first, q) /\ call.policy = "Skip" /\ kept
                [] OTHER -> kept \/ p \notin DOMAIN dst

\* Extraction touches nothing it was not asked to, at no moment: not the
\* archive it reads, no existing path under Skip or Fail, and under Overwrite
\* only the entries of the archive and what is below one that is a file
\* (ExtractArchive).
KeepsOthers ==
    \A p \in DOMAIN first :
        \/ Value(dst, p) = first[p]
        \/ /\ call.policy = "Overwrite" /\ p # call.place
           /\ \E b \in Members : b.path = p \/ (~b.folder /\ IsPrefix(b.path, p))
================================================================================
