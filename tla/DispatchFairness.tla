--------------------------- MODULE DispatchFairness ---------------------------
(***************************************************************************)
(* TaskQueue with a history variable: for every priority, how many entries *)
(* of other priorities were dispatched since an entry of this priority was *)
(* last served or last absent. The weighted slots of WorkerLoop exist so   *)
(* that this number is bounded for every priority ("Weighted slots         *)
(* preserve high-priority bias while preventing starvation").              *)
(***************************************************************************)
EXTENDS TaskQueue

CONSTANT MaxSequence    \* bound of the runs on nextSequence

ASSUME MaxSequenceAssumption == MaxSequence \in Nat

VARIABLE passed

vars == <<queue, nextSequence, slot, passed>>

\* The longest run of slots that may lie before the next slot of a priority.
MaxPassed ==
    [pr \in Priority |-> IF pr = "High" THEN 3 ELSE IF pr = "Normal" THEN 5 ELSE 6]

Init ==
    /\ QueueInit
    /\ passed = [pr \in Priority |-> 0]

PushStep ==
    /\ nextSequence <= MaxSequence
    /\ \E task \in Task, pr \in Priority : Push(task, pr)
    /\ UNCHANGED passed

DispatchStep ==
    \E e \in queue :
        /\ Dispatch(e)
        /\ passed' = [pr \in Priority |->
                        IF pr = e.priority \/ OfPriority(pr) = {}
                        THEN 0 ELSE passed[pr] + 1]

ClearStep ==
    /\ Clear
    /\ passed' = [pr \in Priority |-> 0]

RenumberStep ==
    /\ Renumber
    /\ UNCHANGED passed

Next == PushStep \/ DispatchStep \/ ClearStep \/ RenumberStep

Spec == Init /\ [][Next]_vars

------------------------------------------------------------------------------
TypeOK ==
    /\ QueueTypeOK
    /\ passed \in [Priority -> Nat]

\* No priority starves: while an entry of a priority waits, at most 3 (High),
\* 5 (Normal) or 6 (Low) entries of the other priorities are taken by workers
\* before one of its own is, however many are pushed meanwhile.
NoStarvation == \A pr \in Priority : passed[pr] <= MaxPassed[pr]

\* What makes NoStarvation inductive: the slots still to be walked before the
\* next slot of a waiting priority pay for the dispatches it may yet be passed
\* over by (kDispatchSlots and next_dispatch_slot_ of WorkerLoop).
SlotsBefore(s, pr) ==
    IF pr = "High" THEN IF s < 4 THEN 0 ELSE 7 - s
    ELSE IF pr = "Normal" THEN IF s < 4 THEN 4 - s ELSE IF s < 6 THEN 0 ELSE 5
    ELSE 6 - s

Credit ==
    \A pr \in Priority :
        IF OfPriority(pr) = {} THEN passed[pr] = 0
        ELSE passed[pr] + SlotsBefore(slot, pr) <= MaxPassed[pr]
==============================================================================
