------------------------------ MODULE TaskQueue ------------------------------
(***************************************************************************)
(* What asyncx::ThreadPool promises about its task queue: a bounded set of *)
(* entries, each with a priority and an admission sequence number, from    *)
(* which the workers take one entry at a time by weighted dispatch slots.  *)
(* The queue_ container of the code is searched for the smallest sequence  *)
(* number of a priority, so its order carries no information and a set of  *)
(* entries stands for it.                                                  *)
(*                                                                         *)
(* ThreadPool implements this specification; DispatchFairness proves how   *)
(* long an entry of a priority can be passed over.                         *)
(***************************************************************************)
EXTENDS Integers, FiniteSets

CONSTANTS
    Task,       \* the callbacks that may be queued
    Capacity    \* PoolOptions::queue_capacity, at least 1 (the constructor raises 0 to 1)

ASSUME CapacityAssumption == Capacity \in Nat \ {0}

VARIABLES
    queue,          \* queue_
    nextSequence,   \* next_task_sequence_
    slot            \* next_dispatch_slot_

queueVars == <<queue, nextSequence, slot>>

Priority == {"High", "Normal", "Low"}

\* The weights of WorkerLoop: four High slots, two Normal slots, one Low slot.
SlotCount == 7
kDispatchSlots ==
    [i \in 0..(SlotCount - 1) |-> IF i < 4 THEN "High"
                                  ELSE IF i < 6 THEN "Normal" ELSE "Low"]

Entry == [task : Task, priority : Priority, sequence : Nat \ {0}]

QueueTypeOK ==
    /\ queue \subseteq Entry
    /\ IsFiniteSet(queue)
    /\ nextSequence \in Nat \ {0}
    /\ slot \in 0..(SlotCount - 1)

OfPriority(pr) == {e \in queue : e.priority = pr}

\* find_oldest_with_priority: the entries with the smallest sequence number.
Oldest(pr) ==
    {e \in OfPriority(pr) : \A f \in OfPriority(pr) : e.sequence <= f.sequence}

SlotAt(offset) == (slot + offset) % SlotCount

\* The first slot at or after next_dispatch_slot_ that has an entry to serve.
Serves(offset) ==
    /\ OfPriority(kDispatchSlots[SlotAt(offset)]) # {}
    /\ \A o \in 0..(offset - 1) : OfPriority(kDispatchSlots[SlotAt(o)]) = {}

HasRoom == Cardinality(queue) < Capacity

------------------------------------------------------------------------------
QueueInit ==
    /\ queue = {}
    /\ nextSequence = 1
    /\ slot = 0

Push(task, pr) ==
    /\ HasRoom
    /\ queue' = queue \cup
                    {[task |-> task, priority |-> pr, sequence |-> nextSequence]}
    /\ nextSequence' = nextSequence + 1
    /\ UNCHANGED slot

\* mutant: next_dispatch_slot_ is never advanced
DispatchFromFirstSlot(e) ==
    \E offset \in 0..(SlotCount - 1) :
        /\ Serves(offset)
        /\ e \in Oldest(kDispatchSlots[SlotAt(offset)])
        /\ queue' = queue \ {e}
        /\ UNCHANGED <<nextSequence, slot>>

\* The dispatch of WorkerLoop: the oldest entry of the first slot that has one.
Dispatch(e) ==
    \E offset \in 0..(SlotCount - 1) :
        /\ Serves(offset)
        /\ e \in Oldest(kDispatchSlots[SlotAt(offset)])
        /\ queue' = queue \ {e}
        /\ slot' = (SlotAt(offset) + 1) % SlotCount
        /\ UNCHANGED nextSequence

\* Stop(StopMode::CancelPending) discards what is queued.
Clear ==
    /\ queue # {}
    /\ queue' = {}
    /\ UNCHANGED <<nextSequence, slot>>

\* Start begins a new numbering. The slot only goes back to 0 while nothing
\* is queued, so no queued entry loses its place to a restart.
Renumber ==
    /\ queue = {} \/ slot = 0
    /\ nextSequence' = 1
    /\ slot' = 0
    /\ UNCHANGED queue

QueueNext ==
    \/ \E task \in Task, pr \in Priority : Push(task, pr)
    \/ \E e \in queue : Dispatch(e)
    \/ Clear
    \/ Renumber

QueueSpec == QueueInit /\ [][QueueNext]_queueVars
==============================================================================
