----------------------------- MODULE MCThreadPool -----------------------------
(***************************************************************************)
(* Instances of ThreadPool for TLC: the union of the task kinds is Task,   *)
(* and threads and tasks of one kind are interchangeable.                  *)
(***************************************************************************)
EXTENDS ThreadPool, TLC

AllTasks == PostTasks \cup DelayedTasks \cup PeriodicTasks

Symmetry == Permutations(Producers) \cup Permutations(Workers)
            \cup Permutations(Waiters) \cup Permutations(PostTasks)
===============================================================================
