----------------------------- MODULE HttpDownload -----------------------------
(***************************************************************************)
(* Client::DownloadFile: calls that download to one target, each through a *)
(* temporary sibling it created itself, with failing file operations, a    *)
(* crash of the process, and a stranger who removes temporary files. What  *)
(* Send does is reduced to its attempts and the chunks of each.            *)
(***************************************************************************)
EXTENDS Integers, FiniteSets, Sequences, TLC

CONSTANTS Calls,       \* the calls of DownloadFile; each is the identity of the file it creates
          Old, Theirs, \* files of others at the start: at the target, at the first backup name
          Nothing,     \* no file
          Folder,      \* a directory
          Arguments,   \* [suffix, overwrite, valid]: what a call may be given
          Backups,     \* 1..n: the numbered backup names (1000 in the code)
          MaxChunks,   \* bound: chunks of a response
          MaxAttempts, \* bound: attempts of one Send
          MaxMishaps   \* bound: failed file operations, crashes and removals by a stranger

ASSUME DownloadAssumption ==
    /\ Calls \cap {Old, Theirs, Nothing, Folder} = {}
    /\ Theirs \notin {Old, Folder} /\ Nothing \notin {Old, Theirs, Folder}
    /\ Arguments # {}
    /\ \A a \in Arguments : {"suffix", "overwrite", "valid"} \subseteq DOMAIN a
    /\ Backups \subseteq Nat \ {0} /\ 1 \in Backups

VARIABLES dir,         \* the file behind every path
          written,     \* the bytes of the file of every call
          call,        \* [at, arg, attempt, backup, result] of every call
          given,       \* the body of its response so far, in this attempt
          mishaps,     \* how many there were
          swept,       \* of the properties: calls whose temporary file the stranger removed
          clash,       \* of the properties: two calls were replacing the target at the same time
          kept         \* of the properties: what must not get lost: the last complete file at the target, and Theirs

vars == <<dir, written, call, given, mishaps, swept, clash, kept>>

Target == <<"target">>
Backup(i) == <<"bak", i>>
Suffixes == {a.suffix : a \in Arguments}
Temp(k) == <<"temp", call[k].arg.suffix>>
Paths == {Target} \cup {Backup(i) : i \in Backups} \cup {<<"temp", s>> : s \in Suffixes}

Exists(path) == dir[path] # Nothing
At(k, place) == call[k].at = place
Go(k, place) == call' = [call EXCEPT ![k].at = place]
Fail(k) == call' = [call EXCEPT ![k].at = "remove", ![k].result = "error"]

\* A file operation fails, the process dies, or a stranger gets in.
Mishap == mishaps < MaxMishaps /\ mishaps' = mishaps + 1
Replacing == {"inspect", "back_up", "publish", "restore", "clean"}
Alone(k) == \A o \in Calls \ {k} : call[o].at \notin Replacing

\* The argument checks, and overwrite = false against what is there now.
Start(k) ==
    /\ At(k, "idle")
    /\ \E a \in Arguments :
        IF a.valid /\ (a.overwrite \/ ~Exists(Target))
        THEN call' = [call EXCEPT ![k].at = "open", ![k].arg = a]
        ELSE call' = [call EXCEPT ![k].at = "returned", ![k].arg = a, ![k].result = "error"]
    /\ UNCHANGED <<dir, written, given, mishaps, swept, clash, kept>>

\* create_directories, then O_CREAT | O_EXCL.
Open(k) ==
    /\ At(k, "open")
    /\ IF Exists(Temp(k))
       THEN call' = [call EXCEPT ![k].at = "returned", ![k].result = "error"] /\ UNCHANGED dir
       ELSE dir' = [dir EXCEPT ![Temp(k)] = k] /\ Go(k, "attempt")
    /\ UNCHANGED <<written, given, mishaps, swept, clash, kept>>

OpenFails(k) ==
    /\ At(k, "open") /\ Mishap
    /\ call' = [call EXCEPT ![k].at = "returned", ![k].result = "error"]
    /\ UNCHANGED <<dir, written, given, swept, clash, kept>>

(***************************************************************************)
(* Send: on_attempt_start resets the file, on_response_chunk writes to it. *)
(***************************************************************************)
\* A mutant: a retry goes on where the last attempt ended.
ResetNothing(k) == written[k]

Reset(k) == <<>>

StartAttempt(k) ==
    /\ At(k, "attempt")
    /\ call' = [call EXCEPT ![k].at = "receive", ![k].attempt = @ + 1]
    /\ written' = [written EXCEPT ![k] = IF call[k].attempt = 0 THEN @ ELSE Reset(k)]
    /\ given' = [given EXCEPT ![k] = <<>>]
    /\ UNCHANGED <<dir, mishaps, swept, clash, kept>>

ResetFails(k) ==
    /\ At(k, "attempt") /\ call[k].attempt > 0 /\ Mishap
    /\ Fail(k)
    /\ UNCHANGED <<dir, written, given, swept, clash, kept>>

\* A chunk of this attempt's response; the transport may stream it or keep it in response.body.
NextChunk(k) == <<call[k].attempt, Len(given[k]) + 1>>

Chunk(k) ==
    /\ At(k, "receive") /\ Len(given[k]) < MaxChunks
    /\ given' = [given EXCEPT ![k] = Append(@, NextChunk(k))]
    /\ \/ Len(written[k]) = Len(given[k]) /\ written' = [written EXCEPT ![k] = Append(@, NextChunk(k))]
       \/ written[k] = <<>> /\ UNCHANGED written
    /\ UNCHANGED <<dir, call, mishaps, swept, clash, kept>>

\* The write fails half way or on_progress throws: the callback refuses, Send fails.
ChunkFails(k) ==
    /\ At(k, "receive") /\ Len(given[k]) < MaxChunks /\ Mishap
    /\ Fail(k)
    /\ UNCHANGED <<dir, written, given, swept, clash, kept>>

\* An attempt ends: another one follows, Send fails, or the response is complete.
EndAttempt(k) ==
    /\ At(k, "receive")
    /\ \/ call[k].attempt < MaxAttempts /\ Go(k, "attempt")
       \/ Fail(k)
       \/ Go(k, "finish")
    /\ UNCHANGED <<dir, written, given, mishaps, swept, clash, kept>>

(***************************************************************************)
(* After Send.                                                             *)
(***************************************************************************)
OwnsPath(k) == dir[Temp(k)] = k

\* A body that was not streamed is written now; fsync; the name must still be this file's.
WholeBody(k) == IF written[k] = <<>> THEN given[k] ELSE written[k]

Finish(k) ==
    /\ At(k, "finish")
    /\ written' = [written EXCEPT ![k] = WholeBody(k)]
    /\ IF OwnsPath(k)
       THEN Go(k, "inspect") /\ clash' = (clash \/ ~Alone(k))
       ELSE Fail(k) /\ UNCHANGED clash
    /\ UNCHANGED <<dir, given, mishaps, swept, kept>>

FinishFails(k) ==
    /\ At(k, "finish") /\ Mishap /\ Fail(k)
    /\ UNCHANGED <<dir, written, given, swept, clash, kept>>

FreeBackups == {i \in Backups : ~Exists(Backup(i))}

MakeDownloadBackupPath == CHOOSE i \in FreeBackups : \A j \in FreeBackups : i <= j

Inspect(k) ==
    /\ At(k, "inspect")
    /\ IF ~Exists(Target) THEN Go(k, "publish")
       ELSE IF dir[Target] = Folder \/ FreeBackups = {} THEN Fail(k)
       ELSE call' = [call EXCEPT ![k].at = "back_up", ![k].backup = MakeDownloadBackupPath]
    /\ UNCHANGED <<dir, written, given, mishaps, swept, clash, kept>>

\* rename() replaces a file that is in its way.
Moved(from, to) == [dir EXCEPT ![to] = dir[from], ![from] = Nothing]

BackUp(k) ==
    /\ At(k, "back_up")
    /\ IF Exists(Target) THEN dir' = Moved(Target, Backup(call[k].backup)) /\ Go(k, "publish")
                         ELSE Fail(k) /\ UNCHANGED dir
    /\ UNCHANGED <<written, given, mishaps, swept, clash, kept>>

BackUpFails(k) ==
    /\ At(k, "back_up") /\ Mishap /\ Fail(k)
    /\ UNCHANGED <<dir, written, given, swept, clash, kept>>

\* The temporary file takes the name of the target; the destructor no longer owns it.
Publish(k) ==
    /\ At(k, "publish")
    /\ IF Exists(Temp(k)) /\ dir[Target] # Folder
       THEN dir' = Moved(Temp(k), Target) /\ kept' = (kept \cap {Theirs}) \cup {dir[Temp(k)]} /\ Go(k, "clean")
       ELSE Go(k, "restore") /\ UNCHANGED <<dir, kept>>
    /\ UNCHANGED <<written, given, mishaps, swept, clash>>

PublishFails(k) ==
    /\ At(k, "publish") /\ Mishap /\ Go(k, "restore")
    /\ UNCHANGED <<dir, written, given, swept, clash, kept>>

HasBackup(k) == call[k].backup # 0

Restore(k) ==
    /\ At(k, "restore")
    /\ dir' = IF HasBackup(k) /\ Exists(Backup(call[k].backup)) THEN Moved(Backup(call[k].backup), Target) ELSE dir
    /\ Fail(k)
    /\ UNCHANGED <<written, given, mishaps, swept, clash, kept>>

RestoreFails(k) ==
    /\ At(k, "restore") /\ HasBackup(k) /\ Mishap /\ Fail(k)
    /\ UNCHANGED <<dir, written, given, swept, clash, kept>>

\* Removing the backup is tried once and never checked.
CleanUp(k) ==
    /\ At(k, "clean")
    /\ \/ dir' = (IF HasBackup(k) THEN [dir EXCEPT ![Backup(call[k].backup)] = Nothing] ELSE dir) /\ UNCHANGED mishaps
       \/ HasBackup(k) /\ Mishap /\ UNCHANGED dir
    /\ call' = [call EXCEPT ![k].at = "returned", ![k].result = "ok"]
    /\ UNCHANGED <<written, given, swept, clash, kept>>

Unlinks(k) == OwnsPath(k)

\* DownloadTempFile::Remove: only the file this call created.
Remove(k) ==
    /\ At(k, "remove")
    /\ dir' = IF Unlinks(k) THEN [dir EXCEPT ![Temp(k)] = Nothing] ELSE dir
    /\ Go(k, "returned")
    /\ UNCHANGED <<written, given, mishaps, swept, clash, kept>>

\* A stranger removes a temporary file that is being written.
Sweep(k) ==
    /\ At(k, "receive") /\ OwnsPath(k) /\ Mishap
    /\ dir' = [dir EXCEPT ![Temp(k)] = Nothing]
    /\ swept' = swept \cup {k}
    /\ UNCHANGED <<written, call, given, clash, kept>>

\* The process dies; the files stay as they are.
Crash ==
    /\ Mishap
    /\ call' = [k \in Calls |-> IF call[k].at \in {"idle", "returned"} THEN call[k] ELSE [call[k] EXCEPT !.at = "dead"]]
    /\ UNCHANGED <<dir, written, given, swept, clash, kept>>

Init ==
    /\ \E f \in {Old, Nothing, Folder}, b \in {Theirs, Nothing} :
        /\ dir = [p \in Paths |-> IF p = Target THEN f ELSE IF p = Backup(1) THEN b ELSE Nothing]
        /\ kept = {f, b} \ {Nothing, Folder}
    /\ written = [k \in Calls |-> <<>>] /\ given = [k \in Calls |-> <<>>]
    /\ call = [k \in Calls |-> [at |-> "idle", arg |-> CHOOSE a \in Arguments : TRUE, attempt |-> 0, backup |-> 0,
                                result |-> "none"]]
    /\ mishaps = 0 /\ swept = {} /\ clash = FALSE

DownloadFile(k) ==
    \/ Start(k) \/ Open(k) \/ OpenFails(k) \/ StartAttempt(k) \/ ResetFails(k) \/ Chunk(k) \/ ChunkFails(k)
    \/ EndAttempt(k) \/ Finish(k) \/ FinishFails(k) \/ Inspect(k) \/ BackUp(k) \/ BackUpFails(k) \/ Publish(k)
    \/ PublishFails(k) \/ Restore(k) \/ RestoreFails(k) \/ CleanUp(k) \/ Remove(k)

Next == (\E k \in Calls : DownloadFile(k) \/ Sweep(k)) \/ Crash

Spec == Init /\ [][Next]_vars

(***************************************************************************)
(* Properties.                                                             *)
(***************************************************************************)
PublicPaths == {Target} \cup {Backup(i) : i \in Backups}

\* The target and its backups only ever hold the old file or a complete download: the whole body of
\* the last attempt, nothing of an attempt before it.
NeverPartial ==
    \A p \in PublicPaths : dir[p] \in Calls => written[dir[p]] = given[dir[p]]

\* Whatever fails and wherever the process dies, what was last complete at the target is still there
\* or under a backup name, and a file of others under such a name stays, as long as no two calls
\* replaced the target at the same time; a call that failed leaves nothing of its own behind, and
\* nobody's temporary file is taken away by another call.
NothingLost ==
    /\ ~clash => kept \subseteq {dir[p] : p \in PublicPaths}
    /\ \A k \in Calls :
        /\ At(k, "returned") /\ call[k].result = "error" => \A p \in Paths : dir[p] # k
        /\ call[k].at \in {"attempt", "receive", "finish"} => OwnsPath(k) \/ k \in swept

\* A download is published whole or not at all, and a file that was there is not lost (DownloadFile).
DownloadSafe == NeverPartial /\ NothingLost

------------------------------------------------------------------------------
(* Why they hold: the inductive invariant. *)

Working == {"idle", "open", "attempt", "receive", "finish"}

CallPlaces == Working \cup Replacing \cup {"remove", "returned", "dead"}
CallRecords ==
    [at : CallPlaces, arg : Arguments, attempt : Nat, backup : Backups \cup {0}, result : {"none", "error", "ok"}]

DownloadTypeOK ==
    /\ dir \in [Paths -> Calls \cup {Old, Theirs, Nothing, Folder}]
    /\ call \in [Calls -> CallRecords]
    /\ written \in [Calls -> Seq(Nat \X Nat)] /\ given \in [Calls -> Seq(Nat \X Nat)]
    /\ clash \in BOOLEAN /\ kept \subseteq Calls \cup {Old, Theirs}

\* The file of a call is in one place: under its temporary name until it is published.
FilesOfCalls ==
    \A k \in Calls :
        /\ \A p, q \in Paths : dir[p] = k /\ dir[q] = k => p = q
        /\ \A p \in PublicPaths : dir[p] = k =>
              call[k].at \in {"clean", "dead"} \/ (At(k, "returned") /\ call[k].result = "ok")
        /\ \A p \in Paths \ PublicPaths : dir[p] = k =>
              p = Temp(k) /\ call[k].at \notin {"idle", "open", "clean", "returned"}
        /\ call[k].at \in {"attempt", "receive", "finish"} => OwnsPath(k) \/ k \in swept
        /\ call[k].at \in Replacing \ {"clean"} => OwnsPath(k)

\* What is written is nothing or the body of the attempt, and from Finish on the body.
BodiesWhole ==
    /\ NeverPartial
    /\ \A k \in Calls :
        /\ call[k].at \in {"idle", "open"} => call[k].attempt = 0
        /\ At(k, "receive") => call[k].attempt # 0
        /\ call[k].at \in {"idle", "open", "attempt"} /\ call[k].attempt = 0 => written[k] = <<>>
        /\ call[k].at \in {"receive", "finish"} => written[k] \in {<<>>, given[k]}
        /\ call[k].at \in Replacing \ {"restore"} => written[k] = given[k]

\* A name for the backup is chosen by Inspect.
BackupChosen ==
    \A k \in Calls :
        /\ call[k].at \in Working \cup {"inspect"} => ~HasBackup(k)
        /\ At(k, "back_up") => HasBackup(k)

\* What a call finds that replaces the target alone: what it left there.
Found(k) ==
    /\ At(k, "back_up") => ~Exists(Backup(call[k].backup))
    /\ call[k].at \in {"publish", "restore"} => ~Exists(Target)
    /\ At(k, "clean") => dir[Target] = k /\ kept \subseteq {Theirs, k}
    /\ HasBackup(k) => dir[Backup(call[k].backup)] # Theirs

ReplacedAlone ==
    ~clash =>
        /\ kept \subseteq {dir[p] : p \in PublicPaths}
        /\ dir[Target] # Theirs
        /\ \A k \in Calls : call[k].at \in Replacing => Alone(k) /\ Found(k)

DownloadInv == DownloadTypeOK /\ FilesOfCalls /\ BodiesWhole /\ BackupChosen /\ ReplacedAlone
==============================================================================
