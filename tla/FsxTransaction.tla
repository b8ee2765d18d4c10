---------------------------- MODULE FsxTransaction ----------------------------
(***************************************************************************)
(* fsx::Run and fsx::RecoverFromJournal with a configured journal: a batch *)
(* of file operations made of primitive filesystem mutations, each one     *)
(* preceded by an undo record that is synchronized to the journal; COMMIT; *)
(* removal of what the batch set aside; rollback in the process; recovery  *)
(* from the journal after a crash.                                         *)
(*                                                                         *)
(* One action is one filesystem call or one journal append. fs and journal *)
(* survive a crash; call, the stack of the function that runs, does not.   *)
(* move_path_without_overwrite and the undo of a MOVE check and rename in  *)
(* one action: fsx asks its caller for exclusive control of the paths, and *)
(* another program is only let in between two primitives.                  *)
(***************************************************************************)
EXTENDS FsxFiles, FiniteSets

CONSTANTS
    Plans,          \* the plans given to Run
    Policies,       \* the conflict policies used: a subset of Fail, Overwrite, Skip
    FailFast,       \* the values of RunOptions::fail_fast used
    Modes,          \* the rollback modes used: a subset of BestEffort, Strict
    NoJournal,      \* the journal file does not exist
    NoPath,
    TornWrites,     \* may a failed append leave part of a record?
    Retried,        \* bound: the plans whose undo may be interrupted and tried again
    MaxRuns, MaxFaults, MaxCrashes, MaxForeign    \* bounds

ASSUME OptionAssumption ==
    /\ Policies \subseteq {"Fail", "Overwrite", "Skip"}
    /\ Modes \subseteq {"BestEffort", "Strict"}
    /\ FailFast \subseteq BOOLEAN
    /\ TornWrites \in BOOLEAN /\ Retried \subseteq Plans
ASSUME BoundAssumption ==
    MaxRuns \in Nat /\ MaxFaults \in Nat /\ MaxCrashes \in Nat /\ MaxForeign \in Nat

VARIABLES
    fs,         \* the directory
    journal,    \* the records of the journal file after its header
    call,       \* the call in progress and its ExecuteState
    planned,    \* history: the plan the journal was begun for
    original,   \* history: the user's files at that time
    undone,     \* history: somebody has begun to undo this journal
    result,     \* what the last call reported
    spent       \* how much of each bound is used

vars == <<fs, journal, call, planned, original, undone, result, spent>>

\* make_temp_path: a name nobody else has, for one step of one run.
Temp(run, step, tag) == [run |-> run, step |-> step, tag |-> tag]
Tags == {"new", "old", "witness", "restore", "copy", "prior", "removed"}
Temps == [run : Nat, step : Nat, tag : Tags]
Paths == UserPaths \cup Temps

\* What a path reads as when its record was cut short: a name with or without
\* ".tmp.", which no file has.
CutPaths == {[cut |-> "staging"], [cut |-> "plain"]}

ASSUME PathAssumption ==
    /\ Files \cap ({Backup(f) : f \in Files} \cup Temps \cup CutPaths) = {}
    /\ NoPath \notin Paths \cup CutPaths
    /\ \A plan \in Plans : plan \in Seq(Actions)
ASSUME JournalAssumption ==
    LET P == Paths \cup CutPaths \cup {NoPath}
    IN  NoJournal \notin Seq([kind : {"REMOVE", "MOVE", "REPLACE", "RESTORED", "COMMIT", "TORN"},
                             from : P, to : P, witness : P, staging : P, ended : BOOLEAN])

------------------------------------------------------------------------------
(* The journal. *)

Record(kind, from, to, witness, staging) ==
    [kind |-> kind, from |-> from, to |-> to, witness |-> witness, staging |-> staging,
     ended |-> TRUE]
RemoveRecord(p) == Record("REMOVE", p, NoPath, NoPath, NoPath)
MoveRecord(from, to) == Record("MOVE", from, to, NoPath, NoPath)
ReplaceRecord(old, target, witness, staging) == Record("REPLACE", old, target, witness, staging)
RestoredRecord(u) == Record("RESTORED", u.from, NoPath, NoPath, NoPath)
CommitRecord == Record("COMMIT", NoPath, NoPath, NoPath, NoPath)
TornRecord == Record("TORN", NoPath, NoPath, NoPath, NoPath)     \* a line nobody can read

Kinds(j) == {j[i].kind : i \in DOMAIN j}
IsUndo(r) == r.kind \in {"REMOVE", "MOVE", "REPLACE"}
PathsOf(r) == {r.from, r.to, r.witness, r.staging} \ {NoPath}

\* read_journal: a missing or empty file, a malformed one, a committed one, or
\* a list of undo records, some REPLACE records marked as restored.
Missing == journal = NoJournal
Malformed == ~Missing /\ "TORN" \in Kinds(journal)
Committed == ~Missing /\ ~Malformed /\ "COMMIT" \in Kinds(journal)
Unfinished == ~Missing /\ ~Malformed /\ ~Committed
\* The undo records in their order.
Undos ==
    LET S == {i \in DOMAIN journal : IsUndo(journal[i])}
    IN  [k \in 1..Cardinality(S) |-> journal[CHOOSE i \in S : Cardinality(S \cap 1..i) = k]]
IsRestored(u) ==
    \E i \in DOMAIN journal : journal[i].kind = "RESTORED" /\ journal[i].from = u.from

JournalCanStart == Missing \/ Committed

\* A record is appended as one line, to what an earlier append may have left of
\* a line without its end.
Appended(r) ==
    IF journal # <<>> /\ ~Last(journal).ended THEN Append(Front(journal), TornRecord)
    ELSE Append(journal, r)

\* What is left of a record cut short: the whole of it but for the end of line, a
\* REMOVE or MOVE record with half a last path, or nothing that can be read.
Cuts(r) ==
    LET open == [r EXCEPT !.ended = FALSE]
    IN  {open, [TornRecord EXCEPT !.ended = FALSE]}
        \cup (CASE r.kind = "REMOVE" -> {[open EXCEPT !.from = p] : p \in CutPaths}
               [] r.kind = "MOVE" -> {[open EXCEPT !.to = p] : p \in CutPaths}
               [] OTHER -> {})

\* What a failed append may leave: nothing, the whole record (fsync or close
\* failed) or a part of it.
AfterFailedAppend(r) ==
    {journal, Appended(r)} \cup (IF TornWrites THEN {Appended(c) : c \in Cuts(r)} ELSE {})

------------------------------------------------------------------------------
(* The handlers, as the sequences of primitives they go through. T gives the   *)
(* temporary names of the step.                                                *)

Log(r) == [do |-> "log", record |-> r]
Write(p, data) == [do |-> "write", to |-> p, data |-> data]
Copy(p, q) == [do |-> "copy", from |-> p, to |-> q]
MoveTo(p, q, later) == [do |-> "move", from |-> p, to |-> q, later |-> later]
Publish(p, q, later) == [do |-> "replace", from |-> p, to |-> q, later |-> later]
Fail == [do |-> "fail"]

\* mutant: the target is published before its undo record
PublishThenLog(op, f, T) ==
    <<Write(T["new"], op.data), Log(RemoveRecord(T["new"]))>> \o
    IF Has(f, op.dst)
    THEN <<Log(RemoveRecord(T["old"])), Copy(op.dst, T["old"]),
           Log(RemoveRecord(T["witness"])), Copy(T["new"], T["witness"]),
           Log(RemoveRecord(T["restore"])),
           Publish(T["new"], op.dst, <<T["old"], T["witness"]>>),
           Log(ReplaceRecord(T["old"], op.dst, T["witness"], T["restore"]))>>
    ELSE <<Log(MoveRecord(op.dst, T["new"])), MoveTo(T["new"], op.dst, <<>>)>>

\* mutant: the target is renamed away before the new file is renamed to it
WriteByTwoRenames(op, f, T) ==
    <<Write(T["new"], op.data), Log(RemoveRecord(T["new"]))>> \o
    (IF Has(f, op.dst)
     THEN <<Log(MoveRecord(T["old"], op.dst)), MoveTo(op.dst, T["old"], <<T["old"]>>)>> ELSE <<>>)
    \o <<Log(MoveRecord(op.dst, T["new"])), MoveTo(T["new"], op.dst, <<>>)>>

WriteFileAtomic(op, f, T) ==
    <<Write(T["new"], op.data), Log(RemoveRecord(T["new"]))>> \o
    IF Has(f, op.dst)
    THEN <<Log(RemoveRecord(T["old"])), Copy(op.dst, T["old"]),
           Log(RemoveRecord(T["witness"])), Copy(T["new"], T["witness"]),
           Log(RemoveRecord(T["restore"])),
           Log(ReplaceRecord(T["old"], op.dst, T["witness"], T["restore"])),
           Publish(T["new"], op.dst, <<T["old"], T["witness"]>>)>>
    ELSE <<Log(MoveRecord(op.dst, T["new"])), MoveTo(T["new"], op.dst, <<>>)>>

\* move_existing_destination_to_backup
MoveExistingDestinationToBackup(op, f, T) ==
    LET backup == IF op.backup THEN Backup(op.dst) ELSE T["old"]
        prior == IF Has(f, backup)
                 THEN <<Log(MoveRecord(T["prior"], backup)), MoveTo(backup, T["prior"], <<T["prior"]>>)>>
                 ELSE <<>>
    IN  IF Has(f, op.dst)
        THEN prior \o <<Log(MoveRecord(backup, op.dst)),
                        MoveTo(op.dst, backup, IF op.backup THEN <<>> ELSE <<backup>>)>>
        ELSE <<>>

\* mutant: the move to the destination has no undo record
MoveFileUnlogged(op, f, T) ==
    MoveExistingDestinationToBackup(op, f, T) \o <<MoveTo(op.src, op.dst, <<>>)>>

\* safe_replace_file and rename_file
MoveFile(op, f, T) ==
    MoveExistingDestinationToBackup(op, f, T) \o
    <<Log(MoveRecord(op.dst, op.src)), MoveTo(op.src, op.dst, <<>>)>>

\* mutant: the temporary copy has no REMOVE record
CopyFileUntracked(op, f, T) ==
    <<Copy(op.src, T["copy"])>> \o MoveExistingDestinationToBackup(op, f, T) \o
    <<Log(MoveRecord(op.dst, T["copy"])), MoveTo(T["copy"], op.dst, <<>>)>>

CopyFileTracked(op, f, T) ==
    <<Copy(op.src, T["copy"]), Log(RemoveRecord(T["copy"]))>> \o
    MoveExistingDestinationToBackup(op, f, T) \o
    <<Log(MoveRecord(op.dst, T["copy"])), MoveTo(T["copy"], op.dst, <<>>)>>

\* mutant: the file is moved away before its undo record is written
RemoveThenLog(op, T) ==
    <<MoveTo(op.dst, T["removed"], <<T["removed"]>>), Log(MoveRecord(T["removed"], op.dst))>>

RemovePathTracked(op, T) ==
    <<Log(MoveRecord(T["removed"], op.dst)), MoveTo(op.dst, T["removed"], <<T["removed"]>>)>>

Handler(op, policy, f, T) ==
    IF Fails(op, policy, f) THEN <<Fail>>
    ELSE IF Skips(op, policy, f) THEN <<>>
    ELSE CASE op.kind = "AtomicWrite" -> WriteFileAtomic(op, f, T)
           [] op.kind = "CopyFile" -> CopyFileTracked(op, f, T)
           [] op.kind = "RemovePath" -> RemovePathTracked(op, T)
           [] OTHER -> MoveFile(op, f, T)
------------------------------------------------------------------------------
(* The call in progress. *)

Idle == [phase |-> "idle"]
InPhase(ph) == call.phase = ph

SpentOne(what) == [spent EXCEPT ![what] = @ + 1]
MayFault == spent.faults < MaxFaults

Return(r) == call' = Idle /\ result' = r

RunCall(plan, policy, failFast, mode) ==
    [phase |-> "run", plan |-> plan, policy |-> policy, failFast |-> failFast, mode |-> mode,
     step |-> 0, todo |-> <<>>, undo |-> <<>>, later |-> <<>>, failed |-> FALSE]

\* The undo loop of rollback (over state->undo_stack) and of RecoverFromJournal
\* (over the journal), which always stops at the first failure. again is history:
\* has somebody begun to undo this journal before?
UndoCall(ph, todo, mode, again) ==
    [phase |-> ph, todo |-> todo, mode |-> mode, at |-> "check", blocked |-> {}, ok |-> TRUE,
     again |-> again]

\* Run: the journal is begun, or the call fails.
Begin(plan, policy, failFast, mode) ==
    /\ InPhase("idle") /\ JournalCanStart /\ spent.runs < MaxRuns
    /\ journal' = <<>>
    /\ call' = RunCall(plan, policy, failFast, mode)
    /\ planned' = plan /\ original' = UserFiles(fs) /\ undone' = FALSE
    /\ result' = "none"
    /\ spent' = SpentOne("runs")
    /\ UNCHANGED fs

BeginFails ==
    /\ InPhase("idle") /\ JournalCanStart /\ spent.runs < MaxRuns /\ MayFault
    /\ journal' \in {journal, NoJournal, <<>>} \cup (IF TornWrites THEN {<<TornRecord>>} ELSE {})
    /\ planned' = <<>> /\ original' = UserFiles(fs) /\ undone' = FALSE
    /\ result' = "failed"
    /\ spent' = [spent EXCEPT !.runs = @ + 1, !.faults = @ + 1]
    /\ UNCHANGED <<fs, call>>

\* The next step of the plan: its handler looks at the files once, here.
BeginStep ==
    /\ InPhase("run") /\ call.todo = <<>> /\ call.step < Len(call.plan)
    /\ LET step == call.step + 1
           T == [tag \in Tags |-> Temp(spent.runs, step, tag)]
       IN  call' = [call EXCEPT !.step = step,
                                !.todo = Handler(call.plan[step], call.policy, fs, T)]
    /\ UNCHANGED <<fs, journal, planned, original, undone, result, spent>>

Doing(what) == InPhase("run") /\ call.todo # <<>> /\ Head(call.todo).do = what
Done == [call EXCEPT !.todo = Tail(@)]

AppendUndo ==
    /\ Doing("log")
    /\ LET r == Head(call.todo).record
       IN  /\ journal' = Appended(r)
           /\ call' = [Done EXCEPT !.undo = Append(@, r)]
    /\ UNCHANGED <<fs, planned, original, undone, result, spent>>

WriteTemporary ==
    /\ \/ /\ Doing("write")
          /\ fs' = With(fs, Head(call.todo).to, Head(call.todo).data)
       \/ /\ Doing("copy")
          /\ Has(fs, Head(call.todo).from)
          /\ fs' = With(fs, Head(call.todo).to, fs[Head(call.todo).from])
    /\ call' = Done
    /\ UNCHANGED <<journal, planned, original, undone, result, spent>>

\* move_path_without_overwrite, replace_existing_file
MayMove(i) == Has(fs, i.from) /\ (i.do = "move" => ~Has(fs, i.to))

MoveOrReplace ==
    /\ Doing("move") \/ Doing("replace")
    /\ LET i == Head(call.todo)
       IN  /\ MayMove(i)
           /\ fs' = Renamed(fs, i.from, i.to)
           /\ call' = [Done EXCEPT !.later = @ \o i.later]
    /\ UNCHANGED <<journal, planned, original, undone, result, spent>>

\* The primitive cannot be done, or the filesystem refuses it. With fail_fast
\* the batch is rolled back; without, Run goes on with the next step.
StepFails ==
    /\ InPhase("run") /\ call.todo # <<>>
    /\ LET i == Head(call.todo)
           impossible == \/ i.do = "fail"
                         \/ i.do = "copy" /\ ~Has(fs, i.from)
                         \/ i.do \in {"move", "replace"} /\ ~MayMove(i)
       IN  /\ impossible \/ MayFault
           /\ spent' = IF impossible THEN spent ELSE SpentOne("faults")
           /\ journal' \in IF i.do = "log" THEN AfterFailedAppend(i.record) ELSE {journal}
           /\ fs' = IF i.do = "log" /\ i.record.kind = "REMOVE"
                    THEN Without(fs, i.record.from) ELSE fs
    /\ IF call.failFast
       THEN /\ call' = UndoCall("rollback", call.undo, call.mode, FALSE)
            /\ undone' = TRUE
       ELSE /\ call' = [call EXCEPT !.todo = <<>>, !.failed = TRUE]
            /\ UNCHANGED undone
    /\ UNCHANGED <<planned, original, result>>

StepsDone == InPhase("run") /\ call.todo = <<>> /\ call.step = Len(call.plan)

\* Without fail_fast a failed step leaves the journal unfinished.
EndFailed ==
    /\ StepsDone /\ call.failed
    /\ Return("failed")
    /\ UNCHANGED <<fs, journal, planned, original, undone, spent>>

Commit ==
    /\ StepsDone /\ ~call.failed
    /\ journal' = Appended(CommitRecord)
    /\ call' = [phase |-> "cleanup", later |-> call.later]
    /\ UNCHANGED <<fs, planned, original, undone, result, spent>>

\* The steps are done but not rolled back: the journal decides.
CommitFails ==
    /\ StepsDone /\ ~call.failed /\ MayFault
    /\ journal' \in AfterFailedAppend(CommitRecord)
    /\ Return("failed")
    /\ spent' = SpentOne("faults")
    /\ UNCHANGED <<fs, planned, original, undone>>

\* cleanup_after_success ignores what cannot be removed.
Cleanup ==
    /\ InPhase("cleanup") /\ call.later # <<>>
    /\ \/ fs' = Without(fs, Head(call.later)) /\ UNCHANGED spent
       \/ MayFault /\ spent' = SpentOne("faults") /\ UNCHANGED fs
    /\ call' = [call EXCEPT !.later = Tail(@)]
    /\ UNCHANGED <<journal, planned, original, undone, result>>

\* The journal is removed, unless keep_journal_on_success or the removal fails.
EndCommitted ==
    /\ InPhase("cleanup") /\ call.later = <<>>
    /\ journal' \in {journal, NoJournal}
    /\ Return("ok")
    /\ UNCHANGED <<fs, planned, original, undone, spent>>

Forward ==
    \/ \E plan \in Plans, policy \in Policies, failFast \in FailFast, mode \in Modes :
           Begin(plan, policy, failFast, mode)
    \/ BeginFails \/ BeginStep \/ AppendUndo \/ WriteTemporary \/ MoveOrReplace
    \/ StepFails \/ EndFailed \/ Commit \/ CommitFails \/ Cleanup \/ EndCommitted

------------------------------------------------------------------------------
(* The undo loop of rollback and of RecoverFromJournal, last record first. *)

Undoing == call.phase \in {"rollback", "recover"}
Current == Last(call.todo)
Blocked == PathsOf(Current) \cap call.blocked # {}
At(kind, place) ==
    /\ Undoing /\ call.todo # <<>> /\ ~Blocked
    /\ Current.kind = kind /\ call.at = place
Undid == [call EXCEPT !.todo = Front(@), !.at = "check"]

\* The file a REPLACE record is about: restored already, to be restored, or
\* neither its old nor its new contents.
Changed(u, f) == {u.from, u.to, u.witness} \subseteq DOMAIN f /\ f[u.to] = f[u.witness]
                 /\ f[u.to] # f[u.from]
Unchanged(u, f) == {u.from, u.to, u.witness} \subseteq DOMAIN f /\ f[u.to] = f[u.from]

\* What undoing one record does, where nothing forbids it.
Undone(u, f) ==
    CASE u.kind = "REMOVE" -> Without(f, u.from)
      [] u.kind = "MOVE" -> IF Has(f, u.from) THEN Renamed(f, u.from, u.to) ELSE f
      [] u.kind = "REPLACE" -> IF Changed(u, f) THEN With(f, u.to, f[u.from]) ELSE f

\* recovery only removes what make_temp_path has named
NotStaging(u) == u.kind = "REMOVE" /\ u.from = [cut |-> "plain"]

\* mutant: a path that appeared meanwhile is not looked at
ConflictUnseen(u) ==
    u.kind = "REPLACE" /\ call.at = "check" /\ ~IsRestored(u)
    /\ ~Changed(u, fs) /\ ~Unchanged(u, fs)

\* mutant: a move that was never made, or was undone before, is a conflict
ConflictIfGone(u) ==
    \/ u.kind = "MOVE" /\ (~Has(fs, u.from) \/ Has(fs, u.to))
    \/ u.kind = "REPLACE" /\ call.at = "check" /\ ~IsRestored(u)
       /\ ~Changed(u, fs) /\ ~Unchanged(u, fs)

Conflict(u) ==
    \/ NotStaging(u)
    \/ u.kind = "MOVE" /\ Has(fs, u.from) /\ Has(fs, u.to)
    \/ u.kind = "REPLACE" /\ call.at = "check" /\ ~IsRestored(u)
       /\ ~Changed(u, fs) /\ ~Unchanged(u, fs)

RecoverFromJournal ==
    /\ InPhase("idle") /\ Unfinished
    /\ undone => planned \in Retried
    /\ call' = UndoCall("recover", Undos, "Strict", undone)
    /\ undone' = TRUE
    /\ UNCHANGED <<fs, journal, planned, original, result, spent>>

UndoRemoveOrMove ==
    /\ At("REMOVE", "check") \/ At("MOVE", "check")
    /\ ~Conflict(Current)
    /\ fs' = Undone(Current, fs)
    /\ call' = Undid
    /\ UNCHANGED <<journal, planned, original, undone, result, spent>>

\* restore_replacement: nothing to do, or the old contents are staged.
UndoReplace ==
    /\ At("REPLACE", "check")
    /\ \/ IsRestored(Current) /\ call' = Undid /\ UNCHANGED fs
       \/ /\ ~IsRestored(Current) /\ Unchanged(Current, fs)
          /\ call' = [call EXCEPT !.at = "mark"] /\ UNCHANGED fs
       \/ /\ ~IsRestored(Current) /\ Changed(Current, fs)
          /\ fs' = With(fs, Current.staging, fs[Current.from])
          /\ call' = [call EXCEPT !.at = "swap"]
    /\ UNCHANGED <<journal, planned, original, undone, result, spent>>

SwapStaging ==
    /\ At("REPLACE", "swap")
    /\ fs' = Renamed(fs, Current.staging, Current.to)
    /\ call' = [call EXCEPT !.at = "mark"]
    /\ UNCHANGED <<journal, planned, original, undone, result, spent>>

MarkRestored ==
    /\ At("REPLACE", "mark")
    /\ journal' = Appended(RestoredRecord(Current))
    /\ call' = Undid
    /\ UNCHANGED <<fs, planned, original, undone, result, spent>>

\* A record that conflicts, that needs a path whose undo failed, or whose undo
\* the filesystem refuses. Best effort goes on with independent paths.
UndoFails ==
    /\ Undoing /\ call.todo # <<>>
    /\ LET blocked == Blocked \/ Conflict(Current)
       IN  /\ blocked \/ MayFault
           /\ spent' = IF blocked THEN spent ELSE SpentOne("faults")
           /\ journal' \in IF ~blocked /\ call.at = "mark"
                           THEN AfterFailedAppend(RestoredRecord(Current)) ELSE {journal}
    /\ IF call.mode = "BestEffort"
       THEN /\ call' = [Undid EXCEPT !.blocked = @ \cup PathsOf(Current), !.ok = FALSE]
            /\ UNCHANGED result
       ELSE Return("stuck")
    /\ UNCHANGED <<fs, planned, original, undone>>

\* The journal goes when everything was undone, unless the caller keeps it or
\* its removal fails.
EndUndo ==
    /\ Undoing /\ call.todo = <<>>
    /\ IF call.ok
       THEN /\ journal' \in {journal, NoJournal}
            /\ Return(IF InPhase("rollback") THEN "rolledBack" ELSE "recovered")
       ELSE /\ UNCHANGED journal
            /\ Return("stuck")
    /\ UNCHANGED <<fs, planned, original, undone, spent>>

Backward ==
    \/ RecoverFromJournal \/ UndoRemoveOrMove \/ UndoReplace \/ SwapStaging
    \/ MarkRestored \/ UndoFails \/ EndUndo

------------------------------------------------------------------------------
(* The surroundings. *)

Crash ==
    /\ ~InPhase("idle") /\ spent.crashes < MaxCrashes
    /\ Undoing => planned \in Retried
    /\ Return("crashed")
    /\ spent' = SpentOne("crashes")
    /\ UNCHANGED <<fs, journal, planned, original, undone>>

\* Another program creates a file where there is none.
Appears(f) ==
    /\ ~Has(fs, f) /\ spent.foreign < MaxForeign
    /\ fs' = With(fs, f, Foreign)
    /\ spent' = SpentOne("foreign")
    /\ UNCHANGED <<journal, call, planned, original, undone, result>>

Init ==
    /\ \E S \in SUBSET Files : fs = [f \in S |-> f]
    /\ journal = NoJournal
    /\ call = Idle
    /\ planned = <<>>
    /\ original = UserFiles(fs)
    /\ undone = FALSE
    /\ result = "none"
    /\ spent = [runs |-> 0, faults |-> 0, crashes |-> 0, foreign |-> 0]

Next ==
    \/ Forward \/ Backward \/ Crash
    \/ \E f \in Files : Appears(f)

Spec == Init /\ [][Next]_vars
------------------------------------------------------------------------------
TypeOK ==
    /\ DOMAIN fs \subseteq Paths \cup CutPaths /\ \A p \in DOMAIN fs : fs[p] \in Contents
    /\ Missing \/ \A i \in DOMAIN journal : PathsOf(journal[i]) \subseteq Paths \cup CutPaths
    /\ call.phase \in {"idle", "run", "cleanup", "rollback", "recover"}
    /\ (Undoing /\ call.at # "check") => (call.todo # <<>> /\ Current.kind = "REPLACE")
    /\ planned \in Plans \cup {<<>>}
    /\ original = UserFiles(original)
    /\ undone \in BOOLEAN
    /\ result \in {"none", "ok", "failed", "rolledBack", "recovered", "stuck", "crashed"}

\* Whatever was retried, read_journal accepts what Run and RecoverFromJournal
\* have written: nothing follows COMMIT, a REPLACE record comes after REMOVE
\* records for its private files and is the only one for them, and a RESTORED
\* record follows its REPLACE record and is not repeated.
JournalReadable ==
    Missing \/ \A i \in DOMAIN journal :
        LET r == journal[i]
            earlier == {journal[k] : k \in 1..(i - 1)}
            replaced == {q \in earlier : q.kind = "REPLACE" /\ q.from = r.from}
        IN  /\ r.kind = "COMMIT" => i = Len(journal)
            /\ r.kind = "REPLACE" =>
                  /\ \A p \in {r.from, r.witness, r.staging} : RemoveRecord(p) \in earlier
                  /\ replaced = {}
            /\ r.kind = "RESTORED" => replaced # {} /\ r \notin earlier

\* The directory holds exactly the user's files as they were when the journal
\* was begun, but for files another program has put where there were none.
Restored ==
    /\ \A p \in DOMAIN original : Has(fs, p) /\ fs[p] = original[p]
    /\ \A p \in (DOMAIN fs \cap UserPaths) \ DOMAIN original : fs[p] = Foreign

\* A rollback that Run reports as complete has restored every file
\* (RunResult::rollback_complete).
RolledBackRestores == (InPhase("idle") /\ result = "rolledBack") => Restored

\* A recovery that reports success has restored every file, whatever primitive
\* the batch had reached when it stopped.
RecoveredRestores == (InPhase("idle") /\ result = "recovered") => Restored

\* Whatever fails and wherever the process stops, no contents the user had when
\* the batch began are lost before COMMIT is in the journal.
NothingLost ==
    (~Committed /\ result # "ok") => \A p \in DOMAIN original : Holds(fs, original[p])

\* Undoing needs nobody's help: if no other program interferes and no primitive
\* of the undo itself is refused, read_journal accepts the journal (JournalReadable),
\* and the undo never meets a conflict and never stops half way.
UndoNeverStuck == (spent.foreign = 0 /\ spent.faults = 0) => JournalReadable /\ result # "stuck"

\* A batch that was rolled back leaves none of its temporary files behind, and a
\* recovered one at most the file it had just written when it stopped, before
\* the REMOVE record for it (write_file_atomic, copy_file_tracked).
NoStagingLeft ==
    LET left == {t \in DOMAIN fs \ (UserPaths \cup CutPaths) : t.run = spent.runs}
    IN  /\ (InPhase("idle") /\ result = "rolledBack") => left = {}
        /\ (InPhase("idle") /\ result = "recovered") =>
              Cardinality(left) <= 1 /\ \A t \in left : t.tag \in {"new", "copy"}

\* Neither rollback nor recovery destroys what another program has written: what a
\* file that appeared contains is still there after every step of a first undo,
\* wherever the batch or its undo has taken it. (An undo that is tried again takes a
\* file that has appeared meanwhile for the one that a MOVE record is about.)
ForeignSurvives ==
    [][(Undoing /\ ~call.again /\ Holds(fs, Foreign)) => Holds(fs', Foreign)]_vars

\* AtomicWrite never takes its target away: whatever happens, it holds its old or
\* its new contents ("The public target stays available").
TargetAlwaysThere ==
    (\A i \in DOMAIN planned : planned[i].kind = "AtomicWrite") =>
    \A f \in DOMAIN original \cap Files : Has(fs, f) /\ fs[f] \in {original[f]} \cup Payloads

\* No contents the user had are lost before the batch is committed, and a plan of atomic writes never takes a target
\* away (Run, RecoverFromJournal, WriteFileAtomic).
ContentsSurvive == NothingLost /\ TargetAlwaysThere

\* The user's files as they are once the journal has been undone, as far as that
\* has still to happen.
LogicalFiles ==
    UserFiles(FoldRight(Undone,
                        IF Undoing THEN call.todo
                        ELSE IF Unfinished /\ ~undone THEN Undos ELSE <<>>,
                        fs))

\* The batch takes effect as a whole when COMMIT is written and not at all
\* otherwise, crash or no crash (ImplementsAtomicBatch in MCFsxTransaction).
Atomic == INSTANCE AtomicBatch WITH files <- LogicalFiles
==============================================================================
