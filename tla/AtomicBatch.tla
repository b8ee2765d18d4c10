------------------------------ MODULE AtomicBatch ------------------------------
(***************************************************************************)
(* What a journaled fsx batch amounts to: the user's files change only by  *)
(* a whole plan at a time. FsxTransaction implements this specification,   *)
(* files being what its directory holds once an unfinished journal has     *)
(* been undone.                                                            *)
(***************************************************************************)
EXTENDS FsxFiles

CONSTANTS Plans, Policies

VARIABLE files

\* What is left at the name of a file that is replaced: nothing, or the file
\* under its backup name.
SetAside(op, f) ==
    IF Has(f, op.dst) /\ op.backup THEN Renamed(f, op.dst, Backup(op.dst)) ELSE f

Outcome(op, policy, f) ==
    IF Skips(op, policy, f) THEN f
    ELSE CASE op.kind = "AtomicWrite" -> With(f, op.dst, op.data)
           [] op.kind = "RemovePath" -> Without(f, op.dst)
           [] op.kind = "CopyFile" -> With(f, op.dst, f[op.src])
           [] OTHER -> Renamed(SetAside(op, f), op.src, op.dst)

\* Renaming a file to its own name sets it aside and then finds no source.
Impossible(op, policy, f) ==
    \/ Fails(op, policy, f)
    \/ op.kind \in {"SafeReplace", "Rename"} /\ op.src = op.dst /\ ~Skips(op, policy, f)

\* The plan's effect, step by step; ok is FALSE from the first step that fails.
Effect(plan, policy, f) ==
    LET Step(acc, op) ==
            IF ~acc.ok \/ Impossible(op, policy, acc.files) THEN [acc EXCEPT !.ok = FALSE]
            ELSE [acc EXCEPT !.files = Outcome(op, policy, @)]
    IN  FoldLeft(Step, [ok |-> TRUE, files |-> f], plan)

Init == files \in UNION {[S -> Contents] : S \in SUBSET Files}

Commit ==
    LET before == files after == files' IN
    /\ after # before
    /\ \E plan \in Plans, policy \in Policies :
           LET e == Effect(plan, policy, before) IN e.ok /\ after = e.files

Next == Commit

Spec == Init /\ [][Next]_files
==============================================================================
