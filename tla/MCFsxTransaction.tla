--------------------------- MODULE MCFsxTransaction ---------------------------
(***************************************************************************)
(* Two instances of FsxTransaction for TLC, over the same two files. One   *)
(* has every plan and policy and one crash, but no refused call and no     *)
(* other program; the other, with the parameters of the configuration, has *)
(* faults, crashes and interference. A behavior runs one of them.          *)
(***************************************************************************)
EXTENDS FsxTransaction

CONSTANTS a, b, d

VARIABLE part   \* which of the two

Operations ==
    {AtomicWrite(f, c) : f \in Files, c \in Payloads} \cup {RemovePath(f) : f \in Files}
    \cup UNION {{Rename(f, g), CopyFile(f, g), SafeReplace(f, g, TRUE)} : f \in Files, g \in Files}
    \cup {SafeReplace(Backup(f), f, TRUE) : f \in Files}

\* Two operations. The first one is about file a: exchanging a and b maps the
\* other plans to these.
Batches == {<<op1, op2>> : op1 \in {op \in Operations : op.dst = a}, op2 \in Operations}

\* The ones that move no file to its own name, for the part with faults.
Distinct == {plan \in Batches :
    \A i \in DOMAIN plan : TakesSource(plan[i]) => plan[i].src # plan[i].dst}

Writes == {plan \in Distinct : \A i \in DOMAIN plan : plan[i].kind = "AtomicWrite"}

Alone == INSTANCE FsxTransaction WITH
    Plans <- Batches, Policies <- {"Overwrite", "Fail", "Skip"}, FailFast <- BOOLEAN, Modes <- {"BestEffort"},
    TornWrites <- FALSE, Retried <- {}, MaxRuns <- 1, MaxFaults <- 0, MaxCrashes <- 1, MaxForeign <- 0

MCInit == part \in {"alone", "faults"} /\ Init

AloneStep == part = "alone" /\ Alone!Next /\ UNCHANGED part
FaultsStep == part = "faults" /\ Next /\ UNCHANGED part

MCSpec == MCInit /\ [][AloneStep \/ FaultsStep]_<<part, vars>>

\* All or nothing: where nothing is refused and nobody interferes, a behavior implements AtomicBatch!Spec, the files
\* being as they are once the unfinished journal has been undone (LogicalFiles): they change by whole plans only,
\* crash or no crash (Run, RecoverFromJournal).
ImplementsAtomicBatch ==
    /\ part = "alone" => Alone!Atomic!Init
    /\ [][part = "alone" => UNCHANGED LogicalFiles \/ Alone!Atomic!Next]_<<part, vars>>
==============================================================================
