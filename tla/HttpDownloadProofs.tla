-------------------------- MODULE HttpDownloadProofs --------------------------
(***************************************************************************)
(* Client::DownloadFile, for every number of calls that download to one    *)
(* target, any arguments, chunks and attempts, and however many file       *)
(* operations fail: what is published is whole, and nothing is lost.       *)
(***************************************************************************)
EXTENDS HttpDownload, WellFoundedInduction, TLAPS

------------------------------------------------------------------------------
(* Names of files. *)

\* A temporary name is neither the target's nor a backup's.
LEMMA PublicNames ==
    /\ Target \in PublicPaths /\ PublicPaths \subseteq Paths
    /\ \A i \in Backups : Backup(i) \in PublicPaths /\ Backup(i) # Target
    /\ \A a \in Arguments : <<"temp", a.suffix>> \in Paths \ PublicPaths
<1>1. \A x : Target # <<"temp", x>> /\ Target # <<"bak", x>>
    BY DEF Target
<1>2. \A x, y : <<"temp", x>> # <<"bak", y>>
    OBVIOUS
<1> QED
    BY <1>1, <1>2 DEF PublicPaths, Paths, Backup, Suffixes

\* There is a temporary name for every call.
LEMMA TempNames ==
    ASSUME DownloadTypeOK, NEW k \in Calls
    PROVE  Temp(k) \in Paths /\ Temp(k) \notin PublicPaths
<1>1. call[k].arg \in Arguments
    BY DEF DownloadTypeOK, CallRecords
<1> QED
    BY <1>1, PublicNames DEF Temp

\* MakeDownloadBackupPath finds a free name where there is one.
LEMMA FreeBackup ==
    ASSUME FreeBackups # {}
    PROVE  MakeDownloadBackupPath \in FreeBackups
<1>1. FreeBackups \subseteq Nat
    BY DownloadAssumption DEF FreeBackups
<1>2. PICK i \in FreeBackups : \A j \in FreeBackups : ~(<<j, i>> \in OpToRel(<, Nat))
    BY <1>1, NatLessThanWellFounded, WFMin
<1>3. \A j \in FreeBackups : i <= j
  <2> SUFFICES ASSUME NEW j \in FreeBackups PROVE i <= j
      OBVIOUS
  <2>1. i \in Nat /\ j \in Nat /\ <<j, i>> \in Nat \X Nat
      BY <1>1
  <2>2. ~(j < i)
      BY <1>2, <2>1 DEF OpToRel
  <2> QED
      BY <2>1, <2>2
<1> QED
    BY <1>3 DEF MakeDownloadBackupPath

------------------------------------------------------------------------------
(* Types. *)

\* The types at the start.
LEMMA DownloadTypeInit ==
    Init => DownloadTypeOK
<1> SUFFICES ASSUME Init PROVE DownloadTypeOK
    OBVIOUS
<1>1. PICK f \in {Old, Nothing, Folder}, b \in {Theirs, Nothing} :
        /\ dir = [p \in Paths |-> IF p = Target THEN f ELSE IF p = Backup(1) THEN b ELSE Nothing]
        /\ kept = {f, b} \ {Nothing, Folder}
    BY DEF Init
<1>2. (CHOOSE a \in Arguments : TRUE) \in Arguments
    BY DownloadAssumption
<1>3. call \in [Calls -> CallRecords]
    BY <1>2 DEF Init, CallRecords, CallPlaces, Working
<1>4. dir \in [Paths -> Calls \cup {Old, Theirs, Nothing, Folder}]
    BY <1>1
<1>5. kept \subseteq Calls \cup {Old, Theirs}
    BY <1>1
<1>6. <<>> \in Seq(Nat \X Nat)
    OBVIOUS
<1> QED
    BY <1>3, <1>4, <1>5, <1>6 DEF Init, DownloadTypeOK

\* The places a call goes to.
LEMMA Places ==
    /\ {"idle", "open", "attempt", "receive", "finish"} \subseteq CallPlaces
    /\ {"inspect", "back_up", "publish", "restore", "clean"} \subseteq CallPlaces
    /\ {"remove", "returned", "dead"} \subseteq CallPlaces
    BY DEF CallPlaces, Working, Replacing

\* A call goes on, or fails.
LEMMA CallGoes ==
    ASSUME NEW k \in Calls, call \in [Calls -> CallRecords]
    PROVE  /\ \A at \in CallPlaces : Go(k, at) => call' \in [Calls -> CallRecords]
           /\ Fail(k) => call' \in [Calls -> CallRecords]
<1>1. call[k] \in CallRecords
    OBVIOUS
<1>2. ASSUME NEW at \in CallPlaces, Go(k, at) PROVE call' \in [Calls -> CallRecords]
  <2>1. [call[k] EXCEPT !.at = at] \in CallRecords
      BY <1>1 DEF CallRecords
  <2> QED
      BY <1>2, <2>1 DEF Go
<1>3. ASSUME Fail(k) PROVE call' \in [Calls -> CallRecords]
  <2>1. [call[k] EXCEPT !.at = "remove", !.result = "error"] \in CallRecords
      BY <1>1, Places DEF CallRecords
  <2> QED
      BY <1>3, <2>1 DEF Fail
<1> QED
    BY <1>2, <1>3

\* A call begins, begins an attempt, has found a name for the backup, or returns.
LEMMA CallBegins ==
    ASSUME NEW k \in Calls, call \in [Calls -> CallRecords],
           Start(k) \/ Open(k) \/ OpenFails(k) \/ StartAttempt(k) \/ Inspect(k) \/ CleanUp(k)
    PROVE  call' \in [Calls -> CallRecords]
<1>1. call[k] \in CallRecords /\ \A at \in {"open", "receive", "back_up", "returned"} : at \in CallPlaces
    BY Places
<1>2. CASE Start(k)
  <2>1. PICK a \in Arguments :
           \/ call' = [call EXCEPT ![k].at = "open", ![k].arg = a]
           \/ call' = [call EXCEPT ![k].at = "returned", ![k].arg = a, ![k].result = "error"]
      BY <1>2 DEF Start
  <2>2. /\ [call[k] EXCEPT !.at = "open", !.arg = a] \in CallRecords
        /\ [call[k] EXCEPT !.at = "returned", !.arg = a, !.result = "error"] \in CallRecords
      BY <1>1 DEF CallRecords
  <2> QED
      BY <2>1, <2>2
<1>3. CASE Open(k) \/ OpenFails(k) \/ CleanUp(k)
  <2>1. /\ [call[k] EXCEPT !.at = "returned", !.result = "error"] \in CallRecords
        /\ [call[k] EXCEPT !.at = "returned", !.result = "ok"] \in CallRecords
      BY <1>1 DEF CallRecords
  <2>2. \/ call' = [call EXCEPT ![k].at = "returned", ![k].result = "error"]
        \/ call' = [call EXCEPT ![k].at = "returned", ![k].result = "ok"]
        \/ Go(k, "attempt")
      BY <1>3 DEF Open, OpenFails, CleanUp
  <2> QED
      BY <2>1, <2>2, CallGoes, Places
<1>4. CASE StartAttempt(k)
  <2>1. call[k].attempt + 1 \in Nat
      BY <1>1 DEF CallRecords
  <2>2. [call[k] EXCEPT !.at = "receive", !.attempt = @ + 1] \in CallRecords
      BY <1>1, <2>1 DEF CallRecords
  <2> QED
      BY <1>4, <2>2 DEF StartAttempt
<1>5. CASE Inspect(k)
  <2>1. FreeBackups # {} => MakeDownloadBackupPath \in Backups
      BY FreeBackup DEF FreeBackups
  <2>2. FreeBackups # {} => [call[k] EXCEPT !.at = "back_up", !.backup = MakeDownloadBackupPath] \in CallRecords
      BY <1>1, <2>1 DEF CallRecords
  <2>3. \/ Go(k, "publish") \/ Fail(k)
        \/ FreeBackups # {} /\ call' = [call EXCEPT ![k].at = "back_up", ![k].backup = MakeDownloadBackupPath]
      BY <1>5 DEF Inspect
  <2> QED
      BY <2>2, <2>3, CallGoes, Places
<1> QED
    BY <1>2, <1>3, <1>4, <1>5

\* Every step keeps the types.
LEMMA DownloadTypeStep ==
    ASSUME DownloadTypeOK, FilesOfCalls, [Next]_vars
    PROVE  DownloadTypeOK'
<1>1. /\ dir \in [Paths -> Calls \cup {Old, Theirs, Nothing, Folder}]
      /\ call \in [Calls -> CallRecords]
      /\ written \in [Calls -> Seq(Nat \X Nat)] /\ given \in [Calls -> Seq(Nat \X Nat)]
      /\ clash \in BOOLEAN /\ kept \subseteq Calls \cup {Old, Theirs}
    BY DEF DownloadTypeOK
<1>2. CASE UNCHANGED vars
    BY <1>1, <1>2 DEF vars, DownloadTypeOK
<1>3. ASSUME NEW k \in Calls, DownloadFile(k) \/ Sweep(k) PROVE DownloadTypeOK'
  <2>1. Temp(k) \in Paths /\ Target \in Paths /\ \A i \in Backups : Backup(i) \in Paths
      BY PublicNames, TempNames
  <2>2. call' \in [Calls -> CallRecords]
    <3>1. CASE UNCHANGED call
        BY <1>1, <3>1
    <3>2. CASE \E at \in CallPlaces : Go(k, at)
        BY <1>1, <3>2, CallGoes
    <3>3. CASE Fail(k)
        BY <1>1, <3>3, CallGoes
    <3>4. CASE Start(k) \/ Open(k) \/ OpenFails(k) \/ StartAttempt(k) \/ Inspect(k) \/ CleanUp(k)
        BY <1>1, <3>4, CallBegins
    <3> QED
        BY <1>3, <3>1, <3>2, <3>3, <3>4, Places DEF DownloadFile, ResetFails, Chunk, ChunkFails, EndAttempt, Finish,
            FinishFails, BackUp, BackUpFails, Publish, PublishFails, Restore, RestoreFails, Remove, Sweep
  <2>3. written' \in [Calls -> Seq(Nat \X Nat)] /\ given' \in [Calls -> Seq(Nat \X Nat)]
    <3>1. CASE UNCHANGED <<written, given>>
        BY <1>1, <3>1
    <3>2. CASE StartAttempt(k)
        BY <1>1, <3>2 DEF StartAttempt, Reset
    <3>3. CASE Chunk(k)
      <4>1. CASE call[k].attempt \in Nat /\ Len(given[k]) \in Nat
        <5>1. NextChunk(k) \in Nat \X Nat
            BY <4>1 DEF NextChunk
        <5>2. Append(given[k], NextChunk(k)) \in Seq(Nat \X Nat) /\ Append(written[k], NextChunk(k)) \in Seq(Nat \X Nat)
            BY <1>1, <5>1
        <5> QED
            BY <1>1, <3>3, <5>2 DEF Chunk
      <4>2. call[k].attempt \in Nat /\ Len(given[k]) \in Nat
          BY <1>1 DEF CallRecords
      <4> QED
          BY <4>1, <4>2
    <3>4. CASE Finish(k)
        BY <1>1, <3>4 DEF Finish, WholeBody
    <3> QED
        BY <1>3, <3>1, <3>2, <3>3, <3>4 DEF DownloadFile, Start, Open, OpenFails, ResetFails, ChunkFails,
            EndAttempt, FinishFails, Inspect, BackUp, BackUpFails, Publish, PublishFails, Restore, RestoreFails,
            CleanUp, Remove, Sweep
  <2>4. dir' \in [Paths -> Calls \cup {Old, Theirs, Nothing, Folder}]
    <3>1. ASSUME NEW x \in Calls \cup {Old, Theirs, Nothing, Folder}, NEW p \in Paths
          PROVE  [dir EXCEPT ![p] = x] \in [Paths -> Calls \cup {Old, Theirs, Nothing, Folder}]
        BY <1>1
    <3>2. ASSUME NEW p \in Paths, NEW q \in Paths
          PROVE  Moved(p, q) \in [Paths -> Calls \cup {Old, Theirs, Nothing, Folder}]
        BY <1>1 DEF Moved
    <3>3. call[k].backup \in Backups \cup {0}
        BY <1>1 DEF CallRecords
    <3>4. CASE UNCHANGED dir
        BY <1>1, <3>4
    <3>5. CASE Open(k) \/ Remove(k) \/ Sweep(k)
        BY <1>1, <2>1, <3>1, <3>5 DEF Open, Remove, Sweep
    <3>6. CASE BackUp(k)
      <4>1. HasBackup(k) \/ ~HasBackup(k)
          OBVIOUS
      <4> QED
          BY <1>1, <2>1, <3>2, <3>3, <3>6 DEF BackUp, Moved
    <3>7. CASE Publish(k) \/ Restore(k)
        BY <1>1, <2>1, <3>2, <3>3, <3>7 DEF Publish, Restore, HasBackup
    <3>8. CASE CleanUp(k)
        BY <1>1, <2>1, <3>1, <3>3, <3>8 DEF CleanUp, HasBackup
    <3> QED
        BY <1>3, <3>4, <3>5, <3>6, <3>7, <3>8 DEF DownloadFile, Start, OpenFails, StartAttempt, ResetFails, Chunk,
            ChunkFails, EndAttempt, Finish, FinishFails, Inspect, BackUpFails, PublishFails, RestoreFails
  <2>5. clash' \in BOOLEAN /\ kept' \subseteq Calls \cup {Old, Theirs}
    <3>1. CASE UNCHANGED <<clash, kept>>
        BY <1>1, <3>1
    <3>2. CASE Finish(k)
        BY <1>1, <3>2 DEF Finish
    <3>3. CASE Publish(k)
      <4>1. dir[Temp(k)] = k
          BY <3>3 DEF FilesOfCalls, OwnsPath, Publish, At, Replacing
      <4> QED
          BY <1>1, <3>3, <4>1 DEF Publish
    <3> QED
        BY <1>3, <3>1, <3>2, <3>3 DEF DownloadFile, Start, Open, OpenFails, StartAttempt, ResetFails, Chunk, ChunkFails,
            EndAttempt, FinishFails, Inspect, BackUp, BackUpFails, PublishFails, Restore, RestoreFails, CleanUp, Remove,
            Sweep
  <2> QED
      BY <2>2, <2>3, <2>4, <2>5 DEF DownloadTypeOK
<1>4. CASE Crash
  <2>1. \A k \in Calls : [call[k] EXCEPT !.at = "dead"] \in CallRecords
    <3>1. \A k \in Calls : call[k] \in CallRecords
        BY <1>1
    <3> QED
        BY <3>1, Places DEF CallRecords
  <2>2. call' \in [Calls -> CallRecords]
      BY <1>1, <1>4, <2>1 DEF Crash
  <2> QED
      BY <1>1, <1>4, <2>2 DEF Crash, DownloadTypeOK
<1> QED
    BY <1>2, <1>3, <1>4 DEF Next

------------------------------------------------------------------------------
(* The files of the calls. *)

\* The files at the start are nobody's.
LEMMA FilesInit ==
    Init => FilesOfCalls
<1> SUFFICES ASSUME Init PROVE FilesOfCalls
    OBVIOUS
<1>1. \A k \in Calls : call[k].at = "idle" /\ \A p \in Paths : dir[p] # k
    BY DownloadAssumption DEF Init
<1> QED
    BY <1>1, PublicNames DEF FilesOfCalls, Replacing

\* A step of a call leaves the others where they are.
LEMMA OthersStay ==
    ASSUME DownloadTypeOK, NEW k \in Calls, DownloadFile(k) \/ Sweep(k)
    PROVE  \A o \in Calls \ {k} : call'[o] = call[o]
<1>1. call \in [Calls -> CallRecords]
    BY DEF DownloadTypeOK
<1> QED
    BY <1>1 DEF DownloadFile, Start, Open, OpenFails, StartAttempt, ResetFails, Chunk, ChunkFails,
        EndAttempt, Finish, FinishFails, Inspect, BackUp, BackUpFails, Publish, PublishFails, Restore, RestoreFails,
        CleanUp, Remove, Sweep, Go, Fail

\* Where a step of a call leaves it.
LEMMA CallMoves ==
    ASSUME DownloadTypeOK, NEW k \in Calls
    PROVE  /\ Start(k) => At(k, "idle") /\ (call'[k].at = "open" \/ (call'[k].at = "returned" /\ call'[k].result = "error"))
           /\ Open(k) \/ OpenFails(k) =>
                 /\ At(k, "open") /\ call'[k].arg = call[k].arg
                 /\ \/ call'[k].at = "returned" /\ call'[k].result = "error" /\ dir' = dir
                    \/ call'[k].at = "attempt" /\ ~Exists(Temp(k)) /\ dir' = [dir EXCEPT ![Temp(k)] = k]
           /\ StartAttempt(k) \/ Chunk(k) \/ EndAttempt(k) \/ ResetFails(k) \/ ChunkFails(k) =>
                 /\ call[k].at \in {"attempt", "receive"} /\ call'[k].arg = call[k].arg
                 /\ call'[k].at \in {"attempt", "receive", "finish", "remove"}
                 /\ call'[k].backup = call[k].backup
           /\ Finish(k) \/ FinishFails(k) =>
                 /\ At(k, "finish") /\ call'[k].arg = call[k].arg /\ call'[k].backup = call[k].backup
                 /\ call'[k].at = "remove" \/ (call'[k].at = "inspect" /\ OwnsPath(k) /\ Finish(k))
           /\ Inspect(k) =>
                 /\ At(k, "inspect") /\ call'[k].arg = call[k].arg
                 /\ \/ call'[k].at = "remove"
                    \/ call'[k].at = "publish" /\ ~Exists(Target) /\ call'[k].backup = call[k].backup
                    \/ call'[k].at = "back_up" /\ FreeBackups # {} /\ call'[k].backup = MakeDownloadBackupPath
           /\ BackUp(k) \/ BackUpFails(k) =>
                 /\ At(k, "back_up") /\ call'[k].arg = call[k].arg /\ call'[k].backup = call[k].backup
                 /\ \/ call'[k].at = "remove" /\ dir' = dir
                    \/ call'[k].at = "publish" /\ Exists(Target) /\ dir' = Moved(Target, Backup(call[k].backup))
           /\ Publish(k) \/ PublishFails(k) =>
                 /\ At(k, "publish") /\ call'[k].arg = call[k].arg /\ call'[k].backup = call[k].backup
                 /\ \/ call'[k].at = "restore" /\ dir' = dir /\ kept' = kept
                    \/ /\ call'[k].at = "clean" /\ Exists(Temp(k)) /\ dir' = Moved(Temp(k), Target)
                       /\ kept' = (kept \cap {Theirs}) \cup {dir[Temp(k)]}
           /\ Restore(k) \/ RestoreFails(k) =>
                 /\ At(k, "restore") /\ call'[k].at = "remove" /\ call'[k].arg = call[k].arg
                 /\ call'[k].backup = call[k].backup
                 /\ \/ dir' = dir
                    \/ /\ HasBackup(k) /\ Exists(Backup(call[k].backup))
                       /\ dir' = Moved(Backup(call[k].backup), Target)
           /\ CleanUp(k) =>
                 /\ At(k, "clean") /\ call'[k].at = "returned" /\ call'[k].result = "ok" /\ call'[k].arg = call[k].arg
                 /\ call'[k].backup = call[k].backup
                 /\ dir' = dir \/ (HasBackup(k) /\ dir' = [dir EXCEPT ![Backup(call[k].backup)] = Nothing])
           /\ Remove(k) =>
                 /\ At(k, "remove") /\ call'[k].at = "returned" /\ call'[k].result = call[k].result
                 /\ call'[k].arg = call[k].arg /\ call'[k].backup = call[k].backup
                 /\ dir' = IF OwnsPath(k) THEN [dir EXCEPT ![Temp(k)] = Nothing] ELSE dir
<1>1. call[k] \in CallRecords /\ call \in [Calls -> CallRecords]
    BY DEF DownloadTypeOK
<1>2. \A at \in CallPlaces : Go(k, at) => call'[k] = [call[k] EXCEPT !.at = at]
    BY <1>1 DEF Go
<1>3. Fail(k) => call'[k] = [call[k] EXCEPT !.at = "remove", !.result = "error"]
    BY <1>1 DEF Fail
<1>4. /\ \A at \in CallPlaces : Go(k, at) =>
           /\ call'[k].at = at /\ call'[k].arg = call[k].arg /\ call'[k].backup = call[k].backup
           /\ call'[k].result = call[k].result
      /\ Fail(k) => /\ call'[k].at = "remove" /\ call'[k].arg = call[k].arg /\ call'[k].backup = call[k].backup
                    /\ call'[k].result = "error"
    BY <1>1, <1>2, <1>3 DEF CallRecords
<1>5. Start(k) => At(k, "idle") /\ (call'[k].at = "open" \/ (call'[k].at = "returned" /\ call'[k].result = "error"))
    BY <1>1, <1>4, Places DEF Start, At, CallRecords
<1>6. Open(k) \/ OpenFails(k) =>
           /\ At(k, "open") /\ call'[k].arg = call[k].arg
           /\ \/ call'[k].at = "returned" /\ call'[k].result = "error" /\ dir' = dir
              \/ call'[k].at = "attempt" /\ ~Exists(Temp(k)) /\ dir' = [dir EXCEPT ![Temp(k)] = k]
    BY <1>1, <1>4, Places DEF Open, OpenFails, At, CallRecords
<1>7. StartAttempt(k) \/ Chunk(k) \/ EndAttempt(k) \/ ResetFails(k) \/ ChunkFails(k) =>
           /\ call[k].at \in {"attempt", "receive"} /\ call'[k].arg = call[k].arg
           /\ call'[k].at \in {"attempt", "receive", "finish", "remove"}
           /\ call'[k].backup = call[k].backup
    BY <1>1, <1>4, Places DEF StartAttempt, Chunk, EndAttempt, ResetFails, ChunkFails, At, CallRecords
<1>8. Finish(k) \/ FinishFails(k) =>
           /\ At(k, "finish") /\ call'[k].arg = call[k].arg /\ call'[k].backup = call[k].backup
           /\ call'[k].at = "remove" \/ (call'[k].at = "inspect" /\ OwnsPath(k) /\ Finish(k))
    BY <1>1, <1>4, Places DEF Finish, FinishFails, At
<1>9. Inspect(k) =>
           /\ At(k, "inspect") /\ call'[k].arg = call[k].arg
           /\ \/ call'[k].at = "remove"
              \/ call'[k].at = "publish" /\ ~Exists(Target) /\ call'[k].backup = call[k].backup
              \/ call'[k].at = "back_up" /\ FreeBackups # {} /\ call'[k].backup = MakeDownloadBackupPath
    BY <1>1, <1>4, Places DEF Inspect, At, CallRecords
<1>10. BackUp(k) \/ BackUpFails(k) =>
           /\ At(k, "back_up") /\ call'[k].arg = call[k].arg /\ call'[k].backup = call[k].backup
           /\ \/ call'[k].at = "remove" /\ dir' = dir
              \/ call'[k].at = "publish" /\ Exists(Target) /\ dir' = Moved(Target, Backup(call[k].backup))
    BY <1>1, <1>4, Places DEF BackUp, BackUpFails, At
<1>11. Publish(k) \/ PublishFails(k) =>
           /\ At(k, "publish") /\ call'[k].arg = call[k].arg /\ call'[k].backup = call[k].backup
           /\ \/ call'[k].at = "restore" /\ dir' = dir /\ kept' = kept
              \/ /\ call'[k].at = "clean" /\ Exists(Temp(k)) /\ dir' = Moved(Temp(k), Target)
                 /\ kept' = (kept \cap {Theirs}) \cup {dir[Temp(k)]}
    BY <1>1, <1>4, Places DEF Publish, PublishFails, At
<1>12. Restore(k) \/ RestoreFails(k) =>
           /\ At(k, "restore") /\ call'[k].at = "remove" /\ call'[k].arg = call[k].arg
           /\ call'[k].backup = call[k].backup
           /\ \/ dir' = dir
              \/ /\ HasBackup(k) /\ Exists(Backup(call[k].backup))
                 /\ dir' = Moved(Backup(call[k].backup), Target)
    BY <1>1, <1>4, Places DEF Restore, RestoreFails, At
<1>13. CleanUp(k) =>
           /\ At(k, "clean") /\ call'[k].at = "returned" /\ call'[k].result = "ok" /\ call'[k].arg = call[k].arg
           /\ call'[k].backup = call[k].backup
           /\ dir' = dir \/ (HasBackup(k) /\ dir' = [dir EXCEPT ![Backup(call[k].backup)] = Nothing])
    BY <1>1, <1>4, Places DEF CleanUp, At, CallRecords
<1>14. Remove(k) =>
           /\ At(k, "remove") /\ call'[k].at = "returned" /\ call'[k].result = call[k].result
           /\ call'[k].arg = call[k].arg /\ call'[k].backup = call[k].backup
           /\ dir' = IF OwnsPath(k) THEN [dir EXCEPT ![Temp(k)] = Nothing] ELSE dir
    BY <1>1, <1>4, Places DEF Remove, At, Unlinks
<1> QED
    BY <1>5, <1>6, <1>7, <1>8, <1>9, <1>10, <1>11, <1>12, <1>13, <1>14

\* What a step of a call does to the files of the others: some move between public names.
LEMMA OthersFiles ==
    ASSUME DownloadTypeOK, FilesOfCalls, BackupChosen, NEW k \in Calls, DownloadFile(k) \/ Sweep(k),
           NEW o \in Calls \ {k}
    PROVE  /\ \A p \in Paths \ PublicPaths : dir'[p] = o <=> dir[p] = o
           /\ \A p \in PublicPaths : dir'[p] = o => \E q \in PublicPaths : dir[q] = o
           /\ \A p, q \in Paths : dir'[p] = o /\ dir'[q] = o => p = q
<1>1. /\ dir \in [Paths -> Calls \cup {Old, Theirs, Nothing, Folder}]
      /\ call[k].backup \in Backups \cup {0} /\ Nothing \notin Calls
    BY DownloadAssumption DEF DownloadTypeOK, CallRecords
<1>2. Temp(k) \in Paths \ PublicPaths /\ Target \in PublicPaths /\ PublicPaths \subseteq Paths
      /\ \A i \in Backups : Backup(i) \in PublicPaths /\ Backup(i) # Target
    BY TempNames, PublicNames
<1>3. \A p, q \in Paths : dir[p] = o /\ dir[q] = o => p = q
    BY DEF FilesOfCalls
<1>4. CASE UNCHANGED dir
    BY <1>3, <1>4
<1>5. ASSUME NEW p \in Paths, dir[p] # o, NEW x, x # o, dir' = [dir EXCEPT ![p] = x]
      PROVE  \A q \in Paths : dir'[q] = o <=> dir[q] = o
    BY <1>1, <1>5
<1>6. ASSUME NEW p \in PublicPaths, NEW q \in PublicPaths, p # q, dir' = Moved(p, q)
      PROVE  /\ \A r \in Paths \ PublicPaths : dir'[r] = dir[r]
             /\ \A r \in PublicPaths : dir'[r] = o => (r = q /\ dir[p] = o) \/ (r \notin {p, q} /\ dir[r] = o)
    BY <1>1, <1>2, <1>6 DEF Moved
<1>7. CASE Open(k)
  <2>1. CASE ~Exists(Temp(k)) /\ dir' = [dir EXCEPT ![Temp(k)] = k]
    <3>1. dir[Temp(k)] # o
        BY <1>1, <2>1 DEF Exists
    <3> QED
        BY <1>2, <1>3, <1>5, <2>1, <3>1
  <2> QED
      BY <1>4, <1>7, <2>1 DEF Open
<1>8. CASE Remove(k) \/ Sweep(k)
  <2>1. CASE OwnsPath(k) /\ dir' = [dir EXCEPT ![Temp(k)] = Nothing]
    <3>1. dir[Temp(k)] # o
        BY <2>1 DEF OwnsPath
    <3> QED
        BY <1>1, <1>2, <1>3, <1>5, <2>1, <3>1
  <2> QED
      BY <1>4, <1>8, <2>1 DEF Remove, Sweep, Unlinks
<1>9. CASE BackUp(k)
  <2>1. CASE dir' = Moved(Target, Backup(call[k].backup))
    <3>1. call[k].backup \in Backups
        BY <1>1, <1>9 DEF BackUp, BackupChosen, HasBackup
    <3> QED
        BY <1>2, <1>3, <1>6, <2>1, <3>1
  <2> QED
      BY <1>4, <1>9, <2>1 DEF BackUp
<1>10. CASE Restore(k)
  <2>1. CASE HasBackup(k) /\ dir' = Moved(Backup(call[k].backup), Target)
    <3>1. call[k].backup \in Backups
        BY <1>1, <2>1 DEF HasBackup
    <3> QED
        BY <1>2, <1>3, <1>6, <2>1, <3>1
  <2> QED
      BY <1>4, <1>10, <2>1 DEF Restore
<1>11. CASE Publish(k)
  <2>1. CASE dir' = Moved(Temp(k), Target)
    <3>1. dir[Temp(k)] = k
        BY <1>11 DEF FilesOfCalls, OwnsPath, Publish, At, Replacing
    <3>2. /\ \A r \in Paths \ {Temp(k), Target} : dir'[r] = dir[r]
          /\ dir'[Target] = k /\ dir'[Temp(k)] = Nothing
        BY <1>1, <1>2, <2>1, <3>1 DEF Moved
    <3> QED
        BY <1>1, <1>2, <1>3, <3>1, <3>2
  <2> QED
      BY <1>4, <1>11, <2>1 DEF Publish
<1>12. CASE CleanUp(k)
  <2>1. CASE HasBackup(k) /\ dir' = [dir EXCEPT ![Backup(call[k].backup)] = Nothing]
    <3>1. Backup(call[k].backup) \in PublicPaths
        BY <1>1, <1>2, <2>1 DEF HasBackup
    <3>2. \A r \in Paths : dir'[r] = IF r = Backup(call[k].backup) THEN Nothing ELSE dir[r]
        BY <1>1, <1>2, <2>1, <3>1
    <3> QED
        BY <1>1, <1>2, <1>3, <3>1, <3>2
  <2> QED
      BY <1>4, <1>12, <2>1 DEF CleanUp
<1> QED
    BY <1>4, <1>7, <1>8, <1>9, <1>10, <1>11, <1>12 DEF DownloadFile, Start, OpenFails, StartAttempt, ResetFails, Chunk,
        ChunkFails, EndAttempt, Finish, FinishFails, Inspect, BackUpFails, PublishFails, RestoreFails

\* Every step keeps the files of the calls in place.
LEMMA FilesStep ==
    ASSUME DownloadTypeOK, FilesOfCalls, BackupChosen, [Next]_vars
    PROVE  FilesOfCalls'
<1>1. CASE UNCHANGED vars
    BY <1>1 DEF vars, FilesOfCalls, OwnsPath, Temp, At
<1>2. ASSUME NEW k \in Calls, DownloadFile(k) \/ Sweep(k), NEW o \in Calls \ {k}
      PROVE  /\ \A p, q \in Paths : dir'[p] = o /\ dir'[q] = o => p = q
             /\ \A p \in PublicPaths : dir'[p] = o =>
                   call'[o].at \in {"clean", "dead"} \/ (call'[o].at = "returned" /\ call'[o].result = "ok")
             /\ \A p \in Paths \ PublicPaths : dir'[p] = o =>
                   p = Temp(o)' /\ call'[o].at \notin {"idle", "open", "clean", "returned"}
             /\ call'[o].at \in {"attempt", "receive", "finish"} => OwnsPath(o)' \/ o \in swept'
             /\ call'[o].at \in Replacing \ {"clean"} => OwnsPath(o)'
  <2>1. call'[o] = call[o] /\ Temp(o)' = Temp(o) /\ Temp(o) \in Paths \ PublicPaths
      BY <1>2, OthersStay, TempNames DEF Temp
  <2>2. swept \subseteq swept'
      BY <1>2 DEF DownloadFile, Start, Open, OpenFails, StartAttempt, ResetFails, Chunk, ChunkFails,
        EndAttempt, Finish, FinishFails, Inspect, BackUp, BackUpFails, Publish, PublishFails, Restore, RestoreFails,
        CleanUp, Remove, Sweep
  <2>3. OwnsPath(o)' <=> OwnsPath(o)
      BY <1>2, <2>1, OthersFiles DEF OwnsPath
  <2> QED
      BY <1>2, <2>1, <2>2, <2>3, OthersFiles DEF FilesOfCalls, At
<1>3. ASSUME NEW k \in Calls, DownloadFile(k) \/ Sweep(k)
      PROVE  /\ \A p, q \in Paths : dir'[p] = k /\ dir'[q] = k => p = q
             /\ \A p \in PublicPaths : dir'[p] = k =>
                   call'[k].at \in {"clean", "dead"} \/ (call'[k].at = "returned" /\ call'[k].result = "ok")
             /\ \A p \in Paths \ PublicPaths : dir'[p] = k =>
                   p = Temp(k)' /\ call'[k].at \notin {"idle", "open", "clean", "returned"}
             /\ call'[k].at \in {"attempt", "receive", "finish"} => OwnsPath(k)' \/ k \in swept'
             /\ call'[k].at \in Replacing \ {"clean"} => OwnsPath(k)'
  <2>1. /\ dir \in [Paths -> Calls \cup {Old, Theirs, Nothing, Folder}]
        /\ call[k].backup \in Backups \cup {0} /\ Nothing \notin Calls
        /\ \A p, q \in Paths : dir[p] = k /\ dir[q] = k => p = q
        /\ \A p \in PublicPaths : dir[p] = k =>
              call[k].at \in {"clean", "dead"} \/ (call[k].at = "returned" /\ call[k].result = "ok")
        /\ \A p \in Paths \ PublicPaths : dir[p] = k =>
              p = Temp(k) /\ call[k].at \notin {"idle", "open", "clean", "returned"}
        /\ call[k].at \in {"attempt", "receive", "finish"} => OwnsPath(k) \/ k \in swept
        /\ call[k].at \in Replacing \ {"clean"} => OwnsPath(k)
      BY DownloadAssumption DEF DownloadTypeOK, CallRecords, FilesOfCalls, At
  <2>2. Temp(k) \in Paths \ PublicPaths /\ Target \in PublicPaths /\ PublicPaths \subseteq Paths
        /\ \A i \in Backups : Backup(i) \in PublicPaths /\ Backup(i) # Target
      BY TempNames, PublicNames
  <2>3. call'[k].arg = call[k].arg => (OwnsPath(k)' <=> dir'[Temp(k)] = k) /\ Temp(k)' = Temp(k)
      BY DEF OwnsPath, Temp
  <2>4. CASE Start(k)
    <3>1. dir' = dir /\ \A p \in Paths : dir[p] # k
        BY <2>1, <2>4, CallMoves DEF Start, At
    <3> QED
        BY <2>2, <2>4, <3>1, CallMoves DEF Replacing
  <2>5. CASE Open(k) \/ OpenFails(k)
    <3>1. \A p \in Paths : dir[p] # k
        BY <2>1, <2>5, CallMoves DEF At
    <3>2. CASE call'[k].at = "returned" /\ call'[k].result = "error" /\ dir' = dir
        BY <3>1, <3>2, <2>2 DEF Replacing
    <3>3. CASE call'[k].at = "attempt" /\ ~Exists(Temp(k)) /\ dir' = [dir EXCEPT ![Temp(k)] = k]
      <4>1. \A p \in Paths : dir'[p] = k <=> p = Temp(k)
          BY <2>1, <2>2, <3>1, <3>3
      <4>2. call'[k].arg = call[k].arg
          BY <2>5, CallMoves
      <4> QED
          BY <2>2, <2>3, <3>3, <4>1, <4>2 DEF Replacing
    <3> QED
        BY <2>5, <3>2, <3>3, CallMoves
  <2>6. CASE StartAttempt(k) \/ Chunk(k) \/ EndAttempt(k) \/ ResetFails(k) \/ ChunkFails(k)
    <3>1. dir' = dir /\ swept' = swept
        BY <2>6 DEF StartAttempt, Chunk, EndAttempt, ResetFails, ChunkFails
    <3>2. /\ call[k].at \in {"attempt", "receive"} /\ call'[k].arg = call[k].arg
          /\ call'[k].at \in {"attempt", "receive", "finish", "remove"}
        BY <2>6, CallMoves
    <3> QED
        BY <2>1, <2>2, <2>3, <3>1, <3>2 DEF Replacing, OwnsPath
  <2>7. CASE Finish(k) \/ FinishFails(k) \/ Inspect(k)
    <3>1. dir' = dir
        BY <2>7 DEF Finish, FinishFails, Inspect
    <3>2. /\ call[k].at \in {"finish", "inspect"} /\ call'[k].arg = call[k].arg
          /\ call'[k].at \in {"remove", "inspect", "publish", "back_up"}
          /\ call'[k].at # "remove" => OwnsPath(k)
        BY <2>1, <2>7, CallMoves DEF At, Replacing
    <3> QED
        BY <2>1, <2>2, <2>3, <3>1, <3>2 DEF Replacing, OwnsPath
  <2>8. CASE BackUp(k) \/ BackUpFails(k) \/ Restore(k) \/ RestoreFails(k)
    <3>1. /\ call[k].at \in {"back_up", "restore"} /\ call'[k].arg = call[k].arg
          /\ call'[k].at \in {"remove", "publish"} /\ OwnsPath(k)
        BY <2>1, <2>8, CallMoves DEF At, Replacing
    <3>2. \A p \in PublicPaths : dir[p] # k
        BY <2>1, <3>1
    <3>3. dir' = dir \/ \E p, q \in PublicPaths : p # q /\ dir' = Moved(p, q)
      <4>1. HasBackup(k) => Backup(call[k].backup) \in PublicPaths /\ Backup(call[k].backup) # Target
          BY <2>1, <2>2 DEF HasBackup
      <4>2. At(k, "back_up") => HasBackup(k)
          BY DEF BackupChosen
      <4> QED
          BY <2>2, <2>8, <4>1, <4>2, CallMoves
    <3>4. \A p \in Paths : dir'[p] = k <=> dir[p] = k
      <4>1. ASSUME NEW p \in PublicPaths, NEW q \in PublicPaths, p # q, dir' = Moved(p, q)
            PROVE  \A r \in Paths : dir'[r] = k <=> dir[r] = k
          BY <2>1, <2>2, <3>2, <4>1 DEF Moved
      <4> QED
          BY <3>3, <4>1
    <3> QED
        BY <2>1, <2>2, <2>3, <3>1, <3>2, <3>4 DEF Replacing, OwnsPath
  <2>9. CASE Publish(k) \/ PublishFails(k)
    <3>1. At(k, "publish") /\ call'[k].arg = call[k].arg /\ dir[Temp(k)] = k
        BY <2>1, <2>9, CallMoves DEF At, Replacing, OwnsPath
    <3>2. CASE call'[k].at = "restore" /\ dir' = dir
        BY <2>1, <2>2, <2>3, <3>1, <3>2 DEF Replacing, At
    <3>3. CASE call'[k].at = "clean" /\ dir' = Moved(Temp(k), Target)
      <4>1. \A p \in Paths : dir'[p] = k <=> p = Target
          BY <2>1, <2>2, <3>1, <3>3 DEF Moved
      <4> QED
          BY <2>2, <3>3, <4>1 DEF Replacing
    <3> QED
        BY <2>9, <3>2, <3>3, CallMoves
  <2>10. CASE CleanUp(k)
    <3>1. /\ At(k, "clean") /\ call'[k].at = "returned" /\ call'[k].result = "ok"
        BY <2>10, CallMoves
    <3>2. \A p \in Paths \ PublicPaths : dir[p] # k
        BY <2>1, <3>1 DEF At
    <3>3. \A p \in Paths : dir'[p] = k => dir[p] = k
      <4>1. HasBackup(k) => Backup(call[k].backup) \in Paths
          BY <2>1, <2>2 DEF HasBackup
      <4> QED
          BY <2>1, <2>10, <4>1, CallMoves
    <3> QED
        BY <2>1, <2>2, <3>1, <3>2, <3>3 DEF Replacing
  <2>11. CASE Remove(k)
    <3>1. /\ At(k, "remove") /\ call'[k].at = "returned"
          /\ dir' = IF OwnsPath(k) THEN [dir EXCEPT ![Temp(k)] = Nothing] ELSE dir
        BY <2>11, CallMoves
    <3>2. \A p \in Paths : dir'[p] # k
        BY <2>1, <2>2, <3>1 DEF OwnsPath, At
    <3> QED
        BY <2>2, <3>1, <3>2 DEF Replacing
  <2>12. CASE Sweep(k)
    <3>1. At(k, "receive") /\ dir[Temp(k)] = k /\ dir' = [dir EXCEPT ![Temp(k)] = Nothing] /\ call' = call /\ k \in swept'
        BY <2>12 DEF Sweep, OwnsPath
    <3>2. \A p \in Paths : dir'[p] # k
        BY <2>1, <2>2, <3>1 DEF At
    <3> QED
        BY <2>2, <3>1, <3>2 DEF Replacing, At
  <2> QED
      BY <1>3, <2>4, <2>5, <2>6, <2>7, <2>8, <2>9, <2>10, <2>11, <2>12 DEF DownloadFile
<1>4. CASE Crash
  <2>1. \A k \in Calls : /\ call'[k].arg = call[k].arg /\ call'[k].result = call[k].result
                         /\ call'[k].at = IF call[k].at \in {"idle", "returned"} THEN call[k].at ELSE "dead"
      BY <1>4 DEF Crash, DownloadTypeOK, CallRecords
  <2>2. dir' = dir /\ swept' = swept
      BY <1>4 DEF Crash
  <2> QED
      BY <2>1, <2>2 DEF FilesOfCalls, Replacing, Temp, At
<1> QED
  <2>1. ASSUME NEW k \in Calls, DownloadFile(k) \/ Sweep(k) PROVE FilesOfCalls'
      BY <1>2, <1>3, <2>1 DEF FilesOfCalls, At
  <2> QED
      BY <1>1, <1>4, <2>1 DEF Next

------------------------------------------------------------------------------
(* The bodies. *)

\* Every step keeps the choice of a backup.
LEMMA ChosenStep ==
    ASSUME DownloadTypeOK, BackupChosen, [Next]_vars
    PROVE  BackupChosen'
<1>1. CASE UNCHANGED vars
    BY <1>1 DEF vars, BackupChosen, HasBackup, At
<1>2. ASSUME NEW k \in Calls, DownloadFile(k) \/ Sweep(k), NEW o \in Calls
      PROVE  /\ call'[o].at \in Working \cup {"inspect"} => call'[o].backup = 0
             /\ call'[o].at = "back_up" => call'[o].backup # 0
  <2>1. CASE o # k
      BY <1>2, <2>1, OthersStay DEF BackupChosen, HasBackup, At
  <2>2. call[k].at \in Working \cup {"inspect"} => call[k].backup = 0
      BY DEF BackupChosen, HasBackup
  <2>3. CASE Start(k)
    <3>1. call[k].at = "idle" /\ call'[k].backup = call[k].backup
        BY <2>3 DEF Start, At, DownloadTypeOK, CallRecords
    <3> QED
        BY <2>1, <2>2, <2>3, <3>1, CallMoves DEF Working
  <2>4. CASE Open(k) \/ OpenFails(k)
    <3>1. call[k].at = "open" /\ call'[k].backup = call[k].backup
        BY <2>4 DEF Open, OpenFails, At, Go, DownloadTypeOK, CallRecords
    <3> QED
        BY <2>1, <2>2, <2>4, <3>1, CallMoves DEF Working
  <2>5. CASE StartAttempt(k) \/ Chunk(k) \/ EndAttempt(k) \/ ResetFails(k) \/ ChunkFails(k) \/ Finish(k) \/ FinishFails(k)
      BY <2>1, <2>2, <2>5, CallMoves DEF Working, At
  <2>6. CASE Inspect(k)
    <3>1. FreeBackups # {} => MakeDownloadBackupPath # 0
        BY FreeBackup, DownloadAssumption DEF FreeBackups
    <3> QED
        BY <2>1, <2>6, <3>1, CallMoves DEF Working
  <2>7. CASE BackUp(k) \/ BackUpFails(k) \/ Publish(k) \/ PublishFails(k) \/ Restore(k) \/ RestoreFails(k) \/ CleanUp(k)
             \/ Remove(k)
      BY <2>1, <2>7, CallMoves DEF Working
  <2>8. CASE Sweep(k)
      BY <2>1, <2>2, <2>8 DEF Sweep, At, Working
  <2> QED
      BY <1>2, <2>3, <2>4, <2>5, <2>6, <2>7, <2>8 DEF DownloadFile
<1>3. CASE Crash
  <2>1. \A k \in Calls : call'[k] = call[k] \/ call'[k].at = "dead"
      BY <1>3 DEF Crash, DownloadTypeOK, CallRecords
  <2> QED
      BY <2>1 DEF BackupChosen, HasBackup, At, Working
<1> QED
    BY <1>1, <1>2, <1>3 DEF Next, BackupChosen, HasBackup, At

\* Two lists that grow by the same chunk stay the same (on_response_chunk).
LEMMA GrowingBody ==
    ASSUME NEW w \in Seq(Nat \X Nat), NEW g \in Seq(Nat \X Nat), w \in {<<>>, g}, Len(w) = Len(g), NEW c
    PROVE  Append(w, c) = Append(g, c)
<1>1. CASE w = <<>>
  <2>1. g = <<>>
      BY <1>1
  <2> QED
      BY <1>1, <2>1
<1> QED
    BY <1>1

\* Every step keeps the bodies whole.
LEMMA BodiesStep ==
    ASSUME DownloadTypeOK, FilesOfCalls, BackupChosen, BodiesWhole, [Next]_vars
    PROVE  BodiesWhole'
<1> DEFINE Body(k) ==
             /\ call[k].at \in {"idle", "open"} => call[k].attempt = 0
             /\ call[k].at = "receive" => call[k].attempt # 0
             /\ call[k].at \in {"idle", "open", "attempt"} /\ call[k].attempt = 0 => written[k] = <<>>
             /\ call[k].at \in {"receive", "finish"} => written[k] \in {<<>>, given[k]}
             /\ call[k].at \in Replacing \ {"restore"} => written[k] = given[k]
<1>1. \A k \in Calls : Body(k)
    BY DEF BodiesWhole, At
<1>2. CASE UNCHANGED vars
    BY <1>2 DEF vars, BodiesWhole, NeverPartial, At
<1>3. CASE Crash
  <2>1. /\ dir' = dir /\ written' = written /\ given' = given
        /\ \A k \in Calls : call'[k] = call[k] \/ call'[k].at = "dead"
      BY <1>3 DEF Crash, DownloadTypeOK, CallRecords
  <2> QED
      BY <2>1 DEF BodiesWhole, NeverPartial, Working, Replacing, At
<1>4. ASSUME NEW k \in Calls, DownloadFile(k) \/ Sweep(k) PROVE BodiesWhole'
  <2>1. \A o \in Calls \ {k} : call'[o] = call[o] /\ written'[o] = written[o] /\ given'[o] = given[o]
    <3>1. written \in [Calls -> Seq(Nat \X Nat)] /\ given \in [Calls -> Seq(Nat \X Nat)]
        BY DEF DownloadTypeOK
    <3>2. \A o \in Calls \ {k} : written'[o] = written[o] /\ given'[o] = given[o]
        BY <1>4, <3>1 DEF DownloadFile, Start, Open, OpenFails, StartAttempt, ResetFails, Chunk, ChunkFails,
            EndAttempt, Finish, FinishFails, Inspect, BackUp, BackUpFails, Publish, PublishFails, Restore, RestoreFails,
            CleanUp, Remove, Sweep
    <3> QED
        BY <1>4, <3>2, OthersStay
  <2>2. call[k] \in CallRecords /\ call \in [Calls -> CallRecords] /\ written[k] \in Seq(Nat \X Nat)
        /\ given[k] \in Seq(Nat \X Nat)
      BY DEF DownloadTypeOK
  <2>3. Body(k)'
    <3>1. CASE Start(k)
      <4>1. call[k].at = "idle" /\ call'[k].attempt = call[k].attempt /\ written' = written
            /\ call'[k].at \in {"open", "returned"}
          BY <2>2, <3>1 DEF Start, At, CallRecords
      <4> QED
          BY <1>1, <4>1 DEF Working, Replacing
    <3>2. CASE Open(k) \/ OpenFails(k)
      <4>1. call[k].at = "open" /\ call'[k].attempt = call[k].attempt /\ written' = written
            /\ call'[k].at \in {"attempt", "returned"}
          BY <2>2, <3>2 DEF Open, OpenFails, Go, At, CallRecords
      <4> QED
          BY <1>1, <4>1 DEF Working, Replacing
    <3>3. CASE StartAttempt(k)
      <4>1. /\ call[k].at = "attempt" /\ call'[k].attempt = call[k].attempt + 1 /\ call'[k].at = "receive"
            /\ call[k].attempt \in Nat
          BY <2>2, <3>3 DEF StartAttempt, At, CallRecords
      <4>2. written'[k] = <<>>
          BY <1>1, <2>2, <3>3, <4>1 DEF StartAttempt, Reset, DownloadTypeOK, Working
      <4> QED
          BY <4>1, <4>2 DEF Working, Replacing
    <3>4. CASE Chunk(k)
      <4>1. call[k].at = "receive" /\ call' = call /\ written[k] \in {<<>>, given[k]}
          BY <1>1, <3>4 DEF Chunk, At
      <4>2. given'[k] = Append(given[k], NextChunk(k))
          BY <3>4 DEF Chunk, DownloadTypeOK
      <4>3. written'[k] \in {<<>>, given'[k]}
        <5>1. CASE Len(written[k]) = Len(given[k]) /\ written' = [written EXCEPT ![k] = Append(@, NextChunk(k))]
          <6>1. written'[k] = Append(written[k], NextChunk(k))
              BY <5>1 DEF DownloadTypeOK
          <6>2. Append(written[k], NextChunk(k)) = Append(given[k], NextChunk(k))
              BY <2>2, <4>1, <5>1, GrowingBody
          <6> QED
              BY <4>1, <4>2, <5>1, <6>1, <6>2
        <5>2. CASE written[k] = <<>> /\ UNCHANGED written
            BY <5>2
        <5> QED
            BY <3>4, <5>1, <5>2 DEF Chunk
      <4> QED
          BY <1>1, <4>1, <4>3 DEF Replacing
    <3>5. CASE EndAttempt(k) \/ ResetFails(k) \/ ChunkFails(k) \/ FinishFails(k)
      <4>1. /\ call[k].at \in {"attempt", "receive", "finish"} /\ written' = written /\ given' = given
            /\ call'[k].at \in {"attempt", "finish", "remove"} /\ call'[k].attempt = call[k].attempt
            /\ call'[k].at \in {"attempt", "finish"} => call[k].at = "receive"
          BY <2>2, <3>5 DEF EndAttempt, ResetFails, ChunkFails, FinishFails, Go, Fail, At, CallRecords
      <4> QED
          BY <1>1, <4>1 DEF Working, Replacing
    <3>6. CASE Finish(k)
      <4>1. call[k].at = "finish" /\ given' = given /\ written'[k] = WholeBody(k) /\ call'[k].at \in {"inspect", "remove"}
          BY <3>6, CallMoves DEF Finish, At, DownloadTypeOK
      <4>2. WholeBody(k) = given[k]
          BY <1>1, <4>1 DEF WholeBody
      <4> QED
          BY <4>1, <4>2 DEF Working
    <3>7. CASE Inspect(k) \/ BackUp(k) \/ BackUpFails(k) \/ Publish(k) \/ PublishFails(k)
      <4>1. /\ call[k].at \in {"inspect", "back_up", "publish"} /\ written' = written /\ given' = given
            /\ call'[k].at \in {"back_up", "publish", "remove", "restore", "clean"}
          BY <3>7, CallMoves DEF Inspect, BackUp, BackUpFails, Publish, PublishFails, At
      <4> QED
          BY <1>1, <4>1 DEF Working, Replacing
    <3>8. CASE Restore(k) \/ RestoreFails(k) \/ CleanUp(k) \/ Remove(k)
        BY <3>8, CallMoves DEF Working, Replacing
    <3>9. CASE Sweep(k)
      <4>1. call' = call /\ written' = written /\ given' = given
          BY <3>9 DEF Sweep
      <4> QED
          BY <1>1, <4>1
    <3> QED
        BY <1>4, <3>1, <3>2, <3>3, <3>4, <3>5, <3>6, <3>7, <3>8, <3>9 DEF DownloadFile
  <2>4. NeverPartial'
    <3>1. \A p \in PublicPaths, o \in Calls : dir'[p] = o => written'[o] = given'[o]
      <4> SUFFICES ASSUME NEW p \in PublicPaths, NEW o \in Calls, dir'[p] = o PROVE written'[o] = given'[o]
          OBVIOUS
      <4>1. CASE o # k
        <5>1. PICK q \in PublicPaths : dir[q] = o
            BY <1>4, <4>1, OthersFiles
        <5> QED
            BY <2>1, <4>1, <5>1 DEF BodiesWhole, NeverPartial
      <4>2. CASE o = k
        <5>1. FilesOfCalls'
            BY FilesStep
        <5>2. call'[k].at \in {"clean", "dead"} \/ (call'[k].at = "returned" /\ call'[k].result = "ok")
            BY <4>2, <5>1 DEF FilesOfCalls, At
        <5>3. CASE call'[k].at = "clean"
            BY <2>3, <4>2, <5>3 DEF Replacing
        <5>4. CASE CleanUp(k)
          <6>1. written' = written /\ given' = given /\ call[k].at = "clean"
              BY <5>4 DEF CleanUp, At
          <6> QED
              BY <1>1, <4>2, <6>1 DEF Replacing
        <5>5. CASE Remove(k)
          <6>1. call[k].at = "remove" /\ Temp(k) \notin PublicPaths /\ p \in Paths
              BY <5>5, TempNames, PublicNames DEF Remove, At
          <6>2. dir[p] = k
              BY <4>2, <5>5, <6>1 DEF Remove, Unlinks, DownloadTypeOK
          <6> QED
              BY <6>1, <6>2 DEF FilesOfCalls, At
        <5>6. CASE Sweep(k)
            BY <5>2, <5>6 DEF Sweep, At
        <5> QED
            BY <1>4, <5>2, <5>3, <5>4, <5>5, <5>6, CallMoves DEF DownloadFile
      <4> QED
          BY <4>1, <4>2
    <3> QED
        BY <3>1 DEF NeverPartial
  <2> QED
      BY <1>1, <2>1, <2>3, <2>4 DEF BodiesWhole, At
<1> QED
    BY <1>2, <1>3, <1>4 DEF Next

------------------------------------------------------------------------------
(* The target. *)

\* A call that does not replace the target leaves the public names alone.
LEMMA NotReplacing ==
    ASSUME DownloadTypeOK, NEW k \in Calls, DownloadFile(k) \/ Sweep(k), call[k].at \notin Replacing
    PROVE  /\ \A p \in PublicPaths : dir'[p] = dir[p]
           /\ kept' = kept
           /\ call'[k].at \in Replacing => Finish(k) /\ call'[k].at = "inspect" /\ (clash' <=> clash \/ ~Alone(k))
<1>1. /\ Temp(k) \notin PublicPaths /\ PublicPaths \subseteq Paths
      /\ dir \in [Paths -> Calls \cup {Old, Theirs, Nothing, Folder}] /\ call[k] \in CallRecords
    BY TempNames, PublicNames DEF DownloadTypeOK
<1>2. CASE Start(k) \/ OpenFails(k) \/ StartAttempt(k) \/ ResetFails(k) \/ Chunk(k) \/ ChunkFails(k) \/ EndAttempt(k)
           \/ FinishFails(k)
  <2>1. dir' = dir /\ kept' = kept
      BY <1>2 DEF Start, OpenFails, StartAttempt, ResetFails, Chunk, ChunkFails, EndAttempt, FinishFails
  <2>2. call'[k].at \in {"open", "returned", "receive", "attempt", "finish", "remove"}
    <3>1. FinishFails(k) => call'[k].at = "remove"
        BY <1>1 DEF FinishFails, Fail, DownloadTypeOK, CallRecords
    <3>2. CASE OpenFails(k)
        BY <3>2, CallMoves
    <3> QED
        BY <1>2, <3>1, <3>2, CallMoves
  <2> QED
      BY <2>1, <2>2 DEF Replacing
<1>3. CASE Open(k) \/ Remove(k) \/ Sweep(k)
  <2>1. kept' = kept /\ \A p \in PublicPaths : dir'[p] = dir[p]
      BY <1>1, <1>3 DEF Open, Remove, Sweep
  <2>2. call'[k].at \in {"returned", "attempt", "receive"}
      BY <1>3, CallMoves DEF Sweep, At
  <2> QED
      BY <2>1, <2>2 DEF Replacing
<1>4. CASE Finish(k)
  <2>1. dir' = dir /\ kept' = kept
      BY <1>4 DEF Finish
  <2>2. CASE OwnsPath(k)
      BY <1>4, <2>1, <2>2, CallMoves DEF Finish, Replacing
  <2>3. CASE ~OwnsPath(k)
      BY <1>4, <2>1, <2>3, CallMoves DEF Replacing
  <2> QED
      BY <2>2, <2>3
<1>5. ~(Inspect(k) \/ BackUp(k) \/ BackUpFails(k) \/ Publish(k) \/ PublishFails(k) \/ Restore(k) \/ RestoreFails(k)
         \/ CleanUp(k))
    BY CallMoves DEF At, Replacing
<1> QED
    BY <1>2, <1>3, <1>4, <1>5 DEF DownloadFile

\* Every step of a call that replaces the target alone keeps what must not get lost.
LEMMA FoundStep ==
    ASSUME DownloadTypeOK, FilesOfCalls, BackupChosen, NEW k \in Calls, DownloadFile(k) \/ Sweep(k),
           call[k].at \in Replacing, Found(k), kept \subseteq {dir[p] : p \in PublicPaths}, dir[Target] # Theirs
    PROVE  /\ kept' \subseteq {dir'[p] : p \in PublicPaths}
           /\ dir'[Target] # Theirs
           /\ call'[k].at \in Replacing => Found(k)'
<1>1. /\ dir \in [Paths -> Calls \cup {Old, Theirs, Nothing, Folder}] /\ kept \subseteq Calls \cup {Old, Theirs}
      /\ call[k].backup \in Backups \cup {0} /\ Nothing \notin Calls \cup {Old, Theirs, Folder} /\ Theirs \notin Calls
    BY DownloadAssumption DEF DownloadTypeOK, CallRecords
<1>2. /\ Temp(k) \in Paths \ PublicPaths /\ Target \in PublicPaths /\ PublicPaths \subseteq Paths
      /\ \A i \in Backups : Backup(i) \in PublicPaths /\ Backup(i) # Target
    BY TempNames, PublicNames
<1>3. HasBackup(k) => call[k].backup \in Backups
    BY <1>1 DEF HasBackup
<1>4. CASE Inspect(k)
  <2>1. dir' = dir /\ kept' = kept /\ call[k].at = "inspect"
      BY <1>4 DEF Inspect, At
  <2>2. call[k].backup = 0
      BY <2>1 DEF BackupChosen, HasBackup
  <2>3. CASE call'[k].at = "publish" /\ ~Exists(Target) /\ call'[k].backup = call[k].backup
      BY <2>1, <2>2, <2>3 DEF Found, At, Exists, HasBackup
  <2>4. CASE call'[k].at = "back_up" /\ FreeBackups # {} /\ call'[k].backup = MakeDownloadBackupPath
    <3>1. dir[Backup(call'[k].backup)] = Nothing
        BY <2>4, FreeBackup DEF FreeBackups, Exists
    <3> QED
        BY <1>1, <2>1, <2>4, <3>1 DEF Found, At, Exists, HasBackup, Backup
  <2> QED
      BY <1>4, <2>1, <2>3, <2>4, CallMoves DEF Replacing
<1>5. CASE BackUp(k) \/ BackUpFails(k)
  <2>1. kept' = kept /\ At(k, "back_up") /\ call'[k].backup = call[k].backup
      BY <1>5, CallMoves DEF BackUp, BackUpFails
  <2>2. call[k].backup \in Backups /\ dir[Backup(call[k].backup)] = Nothing
      BY <1>3, <2>1 DEF BackupChosen, Found, Exists
  <2>3. CASE call'[k].at = "publish" /\ Exists(Target) /\ dir' = Moved(Target, Backup(call[k].backup))
    <3> DEFINE b == Backup(call[k].backup)
    <3>1. b \in PublicPaths /\ b # Target
        BY <1>2, <2>2
    <3> HIDE DEF b
    <3>2. dir'[b] = dir[Target] /\ dir'[Target] = Nothing /\ \A p \in Paths \ {b, Target} : dir'[p] = dir[p]
        BY <1>1, <1>2, <2>3, <3>1 DEF Moved, b
    <3>3. dir[b] = Nothing
        BY <2>2 DEF b
    <3>4. kept' \subseteq {dir'[p] : p \in PublicPaths}
        BY <1>1, <1>2, <2>1, <3>1, <3>2, <3>3
    <3>5. dir'[Backup(call'[k].backup)] # Theirs
        BY <2>1, <3>2 DEF b, Backup
    <3> QED
        BY <1>1, <2>3, <3>2, <3>4, <3>5 DEF Found, At, Exists
  <2> QED
      BY <1>5, <2>1, <2>3, CallMoves DEF Replacing
<1>6. CASE Publish(k) \/ PublishFails(k)
  <2>1. At(k, "publish") /\ call'[k].backup = call[k].backup /\ dir[Target] = Nothing
      BY <1>6, CallMoves DEF Found, At, Exists
  <2>2. CASE call'[k].at = "restore" /\ dir' = dir /\ kept' = kept
      BY <2>1, <2>2 DEF Found, At, Exists, HasBackup, Backup
  <2>3. CASE /\ call'[k].at = "clean" /\ Exists(Temp(k)) /\ dir' = Moved(Temp(k), Target)
             /\ kept' = (kept \cap {Theirs}) \cup {dir[Temp(k)]}
    <3>1. dir[Temp(k)] = k
        BY <2>1 DEF FilesOfCalls, OwnsPath, At, Replacing
    <3>2. dir'[Target] = k /\ \A p \in PublicPaths \ {Target} : dir'[p] = dir[p]
        BY <1>1, <1>2, <2>3, <3>1 DEF Moved
    <3>3. kept' \subseteq {dir'[p] : p \in PublicPaths}
        BY <1>1, <1>2, <2>1, <2>3, <3>1, <3>2
    <3>4. HasBackup(k) => dir'[Backup(call'[k].backup)] # Theirs
        BY <1>2, <1>3, <2>1, <3>2 DEF Found, Backup
    <3> QED
        BY <1>1, <2>1, <2>3, <3>1, <3>2, <3>3, <3>4 DEF Found, At, HasBackup
  <2> QED
      BY <1>6, <2>2, <2>3, CallMoves
<1>7. CASE Restore(k) \/ RestoreFails(k)
  <2>1. At(k, "restore") /\ dir[Target] = Nothing /\ kept' = kept /\ call'[k].at = "remove"
      BY <1>7, CallMoves DEF Found, At, Exists, Restore, RestoreFails
  <2>2. CASE HasBackup(k) /\ dir' = Moved(Backup(call[k].backup), Target)
    <3> DEFINE b == Backup(call[k].backup)
    <3>1. b \in PublicPaths /\ b # Target /\ dir[b] # Theirs
        BY <1>2, <1>3, <2>2 DEF Found
    <3> HIDE DEF b
    <3>2. dir'[Target] = dir[b] /\ dir'[b] = Nothing /\ \A p \in Paths \ {b, Target} : dir'[p] = dir[p]
        BY <1>1, <1>2, <2>2, <3>1 DEF Moved, b
    <3> QED
        BY <1>1, <1>2, <2>1, <3>1, <3>2 DEF Replacing
  <2> QED
      BY <1>7, <2>1, <2>2, CallMoves DEF Replacing
<1>8. CASE CleanUp(k)
  <2>1. At(k, "clean") /\ kept' = kept /\ call'[k].at = "returned" /\ dir[Target] = k /\ kept \subseteq {Theirs, k}
      BY <1>8, CallMoves DEF CleanUp, Found
  <2>2. CASE HasBackup(k) /\ dir' = [dir EXCEPT ![Backup(call[k].backup)] = Nothing]
    <3> DEFINE b == Backup(call[k].backup)
    <3>1. b \in PublicPaths /\ b # Target /\ dir[b] # Theirs
        BY <1>2, <1>3, <2>2 DEF Found
    <3> HIDE DEF b
    <3>2. dir'[b] = Nothing /\ \A p \in Paths \ {b} : dir'[p] = dir[p]
        BY <1>1, <1>2, <2>2, <3>1 DEF b
    <3> QED
        BY <1>1, <1>2, <2>1, <3>1, <3>2 DEF Replacing
  <2> QED
      BY <1>8, <2>1, <2>2, CallMoves DEF Replacing
<1>9. ~(Start(k) \/ Open(k) \/ OpenFails(k) \/ StartAttempt(k) \/ Chunk(k) \/ EndAttempt(k) \/ ResetFails(k)
         \/ ChunkFails(k) \/ Finish(k) \/ FinishFails(k) \/ Remove(k) \/ Sweep(k))
    BY CallMoves DEF At, Replacing, Sweep
<1> QED
    BY <1>4, <1>5, <1>6, <1>7, <1>8, <1>9 DEF DownloadFile

\* Every step keeps what a lone replacement finds and what must not get lost.
LEMMA AloneStep ==
    ASSUME DownloadTypeOK, FilesOfCalls, BackupChosen, ReplacedAlone, [Next]_vars
    PROVE  ReplacedAlone'
<1> SUFFICES ASSUME ~clash' PROVE ReplacedAlone'
    BY DEF ReplacedAlone
<1>1. ~clash
  <2>1. ASSUME NEW k \in Calls, DownloadFile(k) \/ Sweep(k) PROVE clash => clash'
    <3>1. CASE Finish(k)
        BY <3>1 DEF Finish
    <3> QED
        BY <2>1, <3>1 DEF DownloadFile, Start, Open, OpenFails, StartAttempt, ResetFails, Chunk, ChunkFails,
            EndAttempt, FinishFails, Inspect, BackUp, BackUpFails, Publish, PublishFails, Restore, RestoreFails,
            CleanUp, Remove, Sweep
  <2>2. Crash \/ UNCHANGED vars => clash' = clash
      BY DEF Crash, vars
  <2> QED
      BY <2>1, <2>2 DEF Next
<1>2. /\ kept \subseteq {dir[p] : p \in PublicPaths} /\ dir[Target] # Theirs
      /\ \A k \in Calls : call[k].at \in Replacing => Alone(k) /\ Found(k)
    BY <1>1 DEF ReplacedAlone, Found
<1>3. SUFFICES /\ kept' \subseteq {dir'[p] : p \in PublicPaths} /\ dir'[Target] # Theirs
               /\ \A k \in Calls : call'[k].at \in Replacing => Alone(k)' /\ Found(k)'
    BY DEF ReplacedAlone, Found
<1>4. CASE UNCHANGED vars
    BY <1>2, <1>4 DEF vars, Alone, Found, At, Exists, HasBackup, Backup
<1>5. CASE Crash
  <2>1. /\ dir' = dir /\ kept' = kept
        /\ \A k \in Calls : call'[k] = call[k] \/ call'[k].at = "dead"
      BY <1>5 DEF Crash, DownloadTypeOK, CallRecords
  <2> QED
      BY <1>2, <2>1 DEF Alone, Found, At, Exists, HasBackup, Backup, Replacing
<1>6. ASSUME NEW k \in Calls, DownloadFile(k) \/ Sweep(k)
      PROVE  /\ kept' \subseteq {dir'[p] : p \in PublicPaths} /\ dir'[Target] # Theirs
             /\ \A o \in Calls : call'[o].at \in Replacing => Alone(o)' /\ Found(o)'
  <2>1. \A o \in Calls \ {k} : call'[o] = call[o]
      BY <1>6, OthersStay
  <2>2. CASE call[k].at \in Replacing
    <3>1. \A o \in Calls \ {k} : call'[o].at \notin Replacing
        BY <1>2, <2>1, <2>2 DEF Alone
    <3> QED
        BY <1>2, <1>6, <2>2, <3>1, FoundStep DEF Alone
  <2>3. CASE call[k].at \notin Replacing
    <3>1. /\ \A p \in PublicPaths : dir'[p] = dir[p]
          /\ kept' = kept
          /\ call'[k].at \in Replacing => Finish(k) /\ call'[k].at = "inspect" /\ Alone(k)
        BY <1>6, <2>3, NotReplacing
    <3>2. \A o \in Calls \ {k} : call[o].at \in Replacing => Found(o)'
      <4> SUFFICES ASSUME NEW o \in Calls \ {k}, call[o].at \in Replacing PROVE Found(o)'
          OBVIOUS
      <4>1. Found(o) /\ call'[o] = call[o] /\ call[o].backup \in Backups \cup {0}
          BY <1>2, <2>1 DEF DownloadTypeOK, CallRecords
      <4>2. HasBackup(o) => Backup(call[o].backup) \in PublicPaths
          BY <4>1, PublicNames DEF HasBackup
      <4>3. At(o, "back_up") => HasBackup(o)
          BY DEF BackupChosen
      <4> QED
          BY <3>1, <4>1, <4>2, <4>3, PublicNames DEF Found, At, Exists, HasBackup, Backup
    <3>3. CASE call'[k].at \notin Replacing
        BY <1>2, <2>1, <3>1, <3>2, <3>3, PublicNames DEF Alone
    <3>4. CASE call'[k].at \in Replacing
      <4>1. \A o \in Calls \ {k} : call'[o].at \notin Replacing
          BY <2>1, <3>1, <3>4 DEF Alone
      <4>2. BackupChosen'
          BY <1>6, ChosenStep DEF Next
      <4>3. Found(k)'
          BY <3>1, <3>4, <4>2 DEF Found, BackupChosen, At
      <4> QED
          BY <1>2, <3>1, <4>1, <4>3, PublicNames DEF Alone
    <3> QED
        BY <3>3, <3>4
  <2> QED
      BY <2>2, <2>3
<1> QED
    BY <1>4, <1>5, <1>6 DEF Next

------------------------------------------------------------------------------
\* The invariant holds at the start.
LEMMA DownloadInit ==
    Init => DownloadInv
<1> SUFFICES ASSUME Init PROVE DownloadInv
    OBVIOUS
<1>1. PICK f \in {Old, Nothing, Folder}, b \in {Theirs, Nothing} :
        /\ dir = [p \in Paths |-> IF p = Target THEN f ELSE IF p = Backup(1) THEN b ELSE Nothing]
        /\ kept = {f, b} \ {Nothing, Folder}
    BY DEF Init
<1>2. \A k \in Calls : call[k].at = "idle" /\ call[k].attempt = 0 /\ call[k].backup = 0 /\ written[k] = <<>>
    BY DEF Init
<1>3. Target \in PublicPaths /\ Backup(1) \in PublicPaths /\ Backup(1) # Target /\ PublicPaths \subseteq Paths
    BY PublicNames, DownloadAssumption
<1>4. \A p \in Paths : dir[p] \notin Calls
    BY <1>1, DownloadAssumption
<1>5. BodiesWhole
    BY <1>2, <1>3, <1>4 DEF BodiesWhole, NeverPartial, At, Replacing
<1>6. BackupChosen
    BY <1>2 DEF BackupChosen, HasBackup, At
<1>7. ReplacedAlone
  <2>1. dir[Target] = f /\ dir[Backup(1)] = b
      BY <1>1, <1>3
  <2>2. kept \subseteq {dir[p] : p \in PublicPaths} /\ dir[Target] # Theirs
      BY <1>1, <1>3, <2>1, DownloadAssumption
  <2> QED
      BY <1>2, <2>2 DEF ReplacedAlone, Replacing
<1> QED
    BY <1>5, <1>6, <1>7, DownloadTypeInit, FilesInit DEF DownloadInv

\* Every step keeps the invariant.
LEMMA DownloadStep ==
    DownloadInv /\ [Next]_vars => DownloadInv'
    BY DownloadTypeStep, FilesStep, BodiesStep, ChosenStep, AloneStep DEF DownloadInv

\* A download is published whole or not at all; whatever fails and wherever the process dies, what was
\* complete at the target is still there or under a backup name unless two calls replaced it at the same
\* time, a failed call leaves nothing of its own behind, and no call takes the temporary file of another:
\* for every number of calls, arguments, attempts and failures (DownloadFile, DownloadTempFile).
THEOREM DownloadSafeHolds ==
    Spec => []DownloadSafe
<1>1. Spec => []DownloadInv
    BY DownloadInit, DownloadStep, PTL DEF Spec
<1>2. DownloadInv => DownloadSafe
  <2> SUFFICES ASSUME DownloadInv PROVE DownloadSafe
      OBVIOUS
  <2>1. \A k \in Calls : At(k, "returned") /\ call[k].result = "error" => \A p \in Paths : dir[p] # k
      BY PublicNames DEF DownloadInv, FilesOfCalls, At
  <2>2. \A k \in Calls : call[k].at \in {"attempt", "receive", "finish"} => OwnsPath(k) \/ k \in swept
      BY DEF DownloadInv, FilesOfCalls
  <2> QED
      BY <2>1, <2>2 DEF DownloadInv, BodiesWhole, ReplacedAlone, DownloadSafe, NothingLost
<1> QED
    BY <1>1, <1>2, PTL
==============================================================================
