------------------------------- MODULE FsxFiles -------------------------------
(***************************************************************************)
(* The vocabulary of fsx batches: paths, directory states, the operations  *)
(* of a BatchPlan and what each of them is to do to the user's files.      *)
(*                                                                         *)
(* A directory state is a function from the paths that exist to their      *)
(* contents. Directories, links and metadata are not represented: every    *)
(* path is a regular file of an existing directory.                        *)
(***************************************************************************)
EXTENDS Naturals, Sequences, SequencesExt

CONSTANTS
    Files,      \* the paths a plan may name
    Payloads,   \* the contents AtomicWrite may write
    Foreign     \* the contents another program writes

\* dst + options.backup_suffix: where SafeReplace keeps the replaced file.
Backup(f) == [retained |-> f]
UserPaths == Files \cup {Backup(f) : f \in Files}
Contents == Files \cup Payloads \cup {Foreign}     \* a file starts as its own contents

Has(f, p) == p \in DOMAIN f
Without(f, p) == [q \in DOMAIN f \ {p} |-> f[q]]
With(f, p, c) == [q \in DOMAIN f \cup {p} |-> IF q = p THEN c ELSE f[q]]
Renamed(f, p, q) == With(Without(f, p), q, f[p])
UserFiles(f) == [p \in DOMAIN f \cap UserPaths |-> f[p]]
Holds(f, c) == \E p \in DOMAIN f : f[p] = c

\* The operations of a BatchPlan. backup is action.backup || options.default_backup.
AtomicWrite(dst, data) == [kind |-> "AtomicWrite", dst |-> dst, data |-> data]
SafeReplace(src, dst, backup) ==
    [kind |-> "SafeReplace", src |-> src, dst |-> dst, backup |-> backup]
Rename(src, dst) == [kind |-> "Rename", src |-> src, dst |-> dst, backup |-> FALSE]
CopyFile(src, dst) == [kind |-> "CopyFile", src |-> src, dst |-> dst, backup |-> FALSE]
RemovePath(dst) == [kind |-> "RemovePath", dst |-> dst]

Actions ==
    {AtomicWrite(f, c) : f \in Files, c \in Payloads} \cup {RemovePath(f) : f \in Files}
    \cup {SafeReplace(p, f, backup) : p \in UserPaths, f \in Files, backup \in BOOLEAN}
    \cup {Rename(p, f) : p \in UserPaths, f \in Files} \cup {CopyFile(p, f) : p \in UserPaths, f \in Files}

TakesSource(op) == op.kind \in {"SafeReplace", "Rename", "CopyFile"}

\* The checks every handler makes before it touches anything.
Fails(op, policy, f) ==
    \/ TakesSource(op) /\ ~Has(f, op.src)
    \/ op.kind # "RemovePath" /\ Has(f, op.dst) /\ policy = "Fail"
    \/ op.kind = "SafeReplace" /\ op.backup /\ policy = "Overwrite"
       /\ Has(f, op.dst) /\ op.src = Backup(op.dst)

Skips(op, policy, f) ==
    IF op.kind = "RemovePath" THEN ~Has(f, op.dst) \/ policy = "Skip"
    ELSE Has(f, op.dst) /\ policy = "Skip"
==============================================================================
