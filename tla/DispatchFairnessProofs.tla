------------------------ MODULE DispatchFairnessProofs ------------------------
(***************************************************************************)
(* No priority starves in the weighted dispatch of WorkerLoop, for every   *)
(* capacity, every set of tasks and every history of pushes, dispatches,   *)
(* clearings and restarts.                                                 *)
(***************************************************************************)
EXTENDS DispatchFairness, FiniteSetTheorems, TLAPS

\* Walking round the slots: one subtraction does for the remainder.
LEMMA Wrap ==
    ASSUME NEW a \in 0..13
    PROVE  a % SlotCount = IF a < 7 THEN a ELSE a - 7
BY DEF SlotCount

\* SlotAt stays within kDispatchSlots.
LEMMA SlotAtType ==
    ASSUME slot \in 0..6, NEW offset \in 0..6
    PROVE  /\ SlotAt(offset) \in 0..6
           /\ SlotAt(offset) = IF slot + offset < 7 THEN slot + offset
                               ELSE slot + offset - 7
<1>1. slot + offset \in 0..13
  OBVIOUS
<1>2. QED
  BY <1>1, Wrap DEF SlotAt

\* SlotsBefore is a number of slots, and never more than the share of a priority.
LEMMA SlotsBeforeType ==
    ASSUME NEW s \in 0..6, NEW pr \in Priority
    PROVE  SlotsBefore(s, pr) \in 0..6 /\ SlotsBefore(s, pr) <= MaxPassed[pr]
BY DEF SlotsBefore, MaxPassed, Priority

\* The slot SlotsBefore points at is one of the priority.
LEMMA SlotsBeforeHits ==
    ASSUME slot \in 0..6, NEW pr \in Priority
    PROVE  kDispatchSlots[SlotAt(SlotsBefore(slot, pr))] = pr
<1>1. SlotsBefore(slot, pr) \in 0..6
  BY SlotsBeforeType
<1>2. SlotAt(SlotsBefore(slot, pr)) = IF slot + SlotsBefore(slot, pr) < 7
                                      THEN slot + SlotsBefore(slot, pr)
                                      ELSE slot + SlotsBefore(slot, pr) - 7
  BY <1>1, SlotAtType
<1>3. SlotAt(SlotsBefore(slot, pr)) \in 0..6
  BY <1>1, SlotAtType
<1>4. QED
  BY <1>2, <1>3 DEF SlotsBefore, kDispatchSlots, SlotCount, Priority

\* A priority that none of the walked slots belongs to comes nearer by as many
\* slots as were walked.
LEMMA Walk ==
    ASSUME slot \in 0..6, NEW offset \in 0..6, NEW pr \in Priority,
           \A o \in 0..offset : kDispatchSlots[SlotAt(o)] # pr,
           slot' = (SlotAt(offset) + 1) % SlotCount
    PROVE  SlotsBefore(slot', pr) = SlotsBefore(slot, pr) - offset - 1
<1>1. SlotsBefore(slot, pr) > offset
  BY SlotsBeforeType, SlotsBeforeHits
<1>2. SlotAt(offset) + 1 \in 0..13
  BY SlotAtType
<1>3. slot' = IF SlotAt(offset) + 1 < 7 THEN SlotAt(offset) + 1 ELSE SlotAt(offset) - 6
  BY <1>2, SlotAtType, Wrap
<1>4. SlotAt(offset) = IF slot + offset < 7 THEN slot + offset ELSE slot + offset - 7
  BY SlotAtType
<1>5. QED
  BY <1>1, <1>3, <1>4 DEF SlotsBefore, Priority

------------------------------------------------------------------------------
(* Types. *)

LEMMA InitType == Init => TypeOK
<1>1. IsFiniteSet({})
  BY FS_EmptySet
<1>2. QED
  BY <1>1 DEF Init, QueueInit, TypeOK, QueueTypeOK, SlotCount

LEMMA PushType ==
    ASSUME QueueTypeOK, NEW task \in Task, NEW pr \in Priority, Push(task, pr)
    PROVE  QueueTypeOK'
<1> DEFINE e == [task |-> task, priority |-> pr, sequence |-> nextSequence]
<1>1. e \in Entry
  BY DEF QueueTypeOK, Entry
<1>2. IsFiniteSet(queue \cup {e})
  BY FS_AddElement DEF QueueTypeOK
<1>3. QED
  BY <1>1, <1>2 DEF QueueTypeOK, Push

LEMMA DispatchType ==
    ASSUME QueueTypeOK, NEW e \in queue, Dispatch(e)
    PROVE  QueueTypeOK'
<1>1. PICK offset \in 0..(SlotCount - 1) :
          /\ queue' = queue \ {e}
          /\ slot' = (SlotAt(offset) + 1) % SlotCount
          /\ UNCHANGED nextSequence
  BY DEF Dispatch
<1>2. IsFiniteSet(queue \ {e})
  BY FS_RemoveElement DEF QueueTypeOK
<1>3. SlotAt(offset) + 1 \in 0..13
  BY SlotAtType DEF QueueTypeOK, SlotCount
<1>4. slot' \in 0..(SlotCount - 1)
  BY <1>1, <1>3, Wrap DEF SlotCount
<1>5. QED
  BY <1>1, <1>2, <1>4 DEF QueueTypeOK

LEMMA ClearType == QueueTypeOK /\ Clear => QueueTypeOK'
  BY FS_EmptySet DEF QueueTypeOK, Clear

LEMMA RenumberType == QueueTypeOK /\ Renumber => QueueTypeOK'
  BY DEF QueueTypeOK, Renumber, SlotCount

LEMMA StepType == TypeOK /\ [Next]_vars => TypeOK'
<1> SUFFICES ASSUME TypeOK, [Next]_vars PROVE TypeOK'
  OBVIOUS
<1> USE DEF TypeOK
<1>1. CASE PushStep
  BY <1>1, PushType DEF PushStep
<1>2. CASE DispatchStep
  <2>1. PICK e \in queue : Dispatch(e)
    BY <1>2 DEF DispatchStep
  <2>2. QueueTypeOK'
    BY <2>1, DispatchType
  <2>3. passed' \in [Priority -> Nat]
    BY <1>2 DEF DispatchStep
  <2>4. QED
    BY <2>2, <2>3
<1>3. CASE ClearStep
  BY <1>3, ClearType DEF ClearStep
<1>4. CASE RenumberStep
  BY <1>4, RenumberType DEF RenumberStep
<1>5. CASE UNCHANGED vars
  BY <1>5 DEF vars, QueueTypeOK
<1>6. QED
  BY <1>1, <1>2, <1>3, <1>4, <1>5 DEF Next

\* The queue state of WorkerLoop keeps its types; the dispatch slot never leaves
\* kDispatchSlots.
THEOREM DispatchTypeCorrect == Spec => []TypeOK
  BY InitType, StepType, PTL DEF Spec

------------------------------------------------------------------------------
(* Credit, one lemma per kind of step. *)

LEMMA InitCredit == Init => Credit
  BY DEF Init, QueueInit, Credit, OfPriority

LEMMA PushCredit ==
    ASSUME TypeOK, Credit, PushStep
    PROVE  Credit'
<1>1. PICK task \in Task, p \in Priority : Push(task, p)
  BY DEF PushStep
<1> SUFFICES ASSUME NEW pr \in Priority
             PROVE  IF OfPriority(pr)' = {} THEN passed'[pr] = 0
                    ELSE passed'[pr] + SlotsBefore(slot', pr) <= MaxPassed[pr]
  BY DEF Credit, MaxPassed
<1>2. passed' = passed /\ slot' = slot
  BY <1>1 DEF PushStep, Push
<1>3. SlotsBefore(slot', pr) = SlotsBefore(slot, pr)
  BY <1>2 DEF SlotsBefore
<1>4. OfPriority(pr) \subseteq OfPriority(pr)'
  BY <1>1 DEF Push, OfPriority
<1>5. CASE OfPriority(pr) = {}
  <2>1. passed[pr] = 0
    BY <1>5 DEF Credit
  <2>2. SlotsBefore(slot, pr) \in 0..6 /\ SlotsBefore(slot, pr) <= MaxPassed[pr]
    BY SlotsBeforeType DEF TypeOK, QueueTypeOK, SlotCount
  <2>3. QED
    BY <1>2, <1>3, <2>1, <2>2
<1>6. CASE OfPriority(pr) # {}
  BY <1>2, <1>3, <1>4, <1>6 DEF Credit
<1>7. QED
  BY <1>5, <1>6

LEMMA DispatchCredit ==
    ASSUME TypeOK, Credit, DispatchStep
    PROVE  Credit'
<1>1. PICK e \in queue :
          /\ Dispatch(e)
          /\ passed' = [pr \in Priority |->
                          IF pr = e.priority \/ OfPriority(pr) = {}
                          THEN 0 ELSE passed[pr] + 1]
  BY DEF DispatchStep
<1>2. PICK offset \in 0..6 :
          /\ Serves(offset)
          /\ e \in Oldest(kDispatchSlots[SlotAt(offset)])
          /\ queue' = queue \ {e}
          /\ slot' = (SlotAt(offset) + 1) % SlotCount
  BY <1>1 DEF Dispatch, SlotCount
<1>3. slot \in 0..6 /\ slot' \in 0..6
  <2>1. QueueTypeOK'
    BY <1>1, DispatchType DEF TypeOK
  <2>2. QED
    BY <2>1 DEF TypeOK, QueueTypeOK, SlotCount
<1>4. e.priority = kDispatchSlots[SlotAt(offset)] /\ e.priority \in Priority
  BY <1>2 DEF Oldest, OfPriority, TypeOK, QueueTypeOK, Entry
<1> SUFFICES ASSUME NEW pr \in Priority
             PROVE  IF OfPriority(pr)' = {} THEN passed'[pr] = 0
                    ELSE passed'[pr] + SlotsBefore(slot', pr) <= MaxPassed[pr]
  BY DEF Credit, MaxPassed
<1>5. OfPriority(pr)' \subseteq OfPriority(pr)
  BY <1>2 DEF OfPriority
<1>6. SlotsBefore(slot', pr) \in 0..6 /\ SlotsBefore(slot', pr) <= MaxPassed[pr]
  BY <1>3, SlotsBeforeType
<1>7. CASE pr = e.priority \/ OfPriority(pr) = {}
  BY <1>1, <1>5, <1>6, <1>7
<1>8. CASE pr # e.priority /\ OfPriority(pr) # {}
  <2>1. \A o \in 0..offset : kDispatchSlots[SlotAt(o)] # pr
    <3>1. SUFFICES ASSUME NEW o \in 0..offset PROVE kDispatchSlots[SlotAt(o)] # pr
      OBVIOUS
    <3>2. CASE o = offset
      BY <1>4, <1>8, <3>2
    <3>3. CASE o # offset
      <4>1. o \in 0..(offset - 1)
        BY <3>3
      <4>2. OfPriority(kDispatchSlots[SlotAt(o)]) = {}
        BY <1>2, <4>1 DEF Serves
      <4>3. QED
        BY <1>8, <4>2
    <3>4. QED
      BY <3>2, <3>3
  <2>2. SlotsBefore(slot', pr) = SlotsBefore(slot, pr) - offset - 1
    BY <1>2, <1>3, <2>1, Walk
  <2>3. passed'[pr] = passed[pr] + 1 /\ passed[pr] \in Nat
    BY <1>1, <1>8 DEF TypeOK
  <2>4. passed[pr] + SlotsBefore(slot, pr) <= MaxPassed[pr]
    BY <1>8 DEF Credit
  <2>5. SlotsBefore(slot, pr) \in 0..6 /\ MaxPassed[pr] \in Nat
    BY <1>3, SlotsBeforeType DEF MaxPassed, Priority
  <2>6. \A o \in 0..offset : OfPriority(pr)' = OfPriority(pr)
    BY <1>2, <1>8 DEF OfPriority
  <2>7. QED
    BY <1>8, <2>2, <2>3, <2>4, <2>5, <2>6
<1>9. QED
  BY <1>7, <1>8

LEMMA ClearCredit ==
    ASSUME TypeOK, Credit, ClearStep
    PROVE  Credit'
  BY DEF ClearStep, Clear, Credit, OfPriority, MaxPassed

LEMMA RenumberCredit ==
    ASSUME TypeOK, Credit, RenumberStep
    PROVE  Credit'
<1>1. CASE queue = {}
  BY <1>1 DEF RenumberStep, Renumber, Credit, OfPriority, MaxPassed
<1>2. CASE slot = 0
  BY <1>2 DEF RenumberStep, Renumber, Credit, OfPriority, SlotsBefore
<1>3. QED
  BY <1>1, <1>2 DEF RenumberStep, Renumber

LEMMA StepCredit == TypeOK /\ Credit /\ [Next]_vars => Credit'
<1> SUFFICES ASSUME TypeOK, Credit, [Next]_vars PROVE Credit'
  OBVIOUS
<1>1. CASE PushStep
  BY <1>1, PushCredit
<1>2. CASE DispatchStep
  BY <1>2, DispatchCredit
<1>3. CASE ClearStep
  BY <1>3, ClearCredit
<1>4. CASE RenumberStep
  BY <1>4, RenumberCredit
<1>5. CASE UNCHANGED vars
  BY <1>5 DEF vars, Credit, OfPriority, SlotsBefore
<1>6. QED
  BY <1>1, <1>2, <1>3, <1>4, <1>5 DEF Next

\* The slots a waiting priority is still away from the next slot of its own and
\* the dispatches it was already passed over by never exceed its share.
THEOREM CreditInvariant == Spec => []Credit
<1>1. TypeOK /\ Credit /\ [Next]_vars => (TypeOK /\ Credit)'
  BY StepType, StepCredit
<1>2. QED
  BY <1>1, InitType, InitCredit, PTL DEF Spec

LEMMA CreditBounds == TypeOK /\ Credit => NoStarvation
<1> SUFFICES ASSUME TypeOK, Credit, NEW pr \in Priority
             PROVE  passed[pr] <= MaxPassed[pr]
  BY DEF NoStarvation
<1>1. SlotsBefore(slot, pr) \in 0..6 /\ MaxPassed[pr] \in Nat /\ passed[pr] \in Nat
  BY SlotsBeforeType DEF MaxPassed, Priority, TypeOK, QueueTypeOK, SlotCount
<1>2. QED
  BY <1>1 DEF Credit

\* Weighted dispatch starves no priority: while an entry waits, at most 3, 5 or
\* 6 entries of other priorities are taken before one of its own.
THEOREM NoPriorityStarves == Spec => []NoStarvation
  BY DispatchTypeCorrect, CreditInvariant, CreditBounds, PTL
==============================================================================
