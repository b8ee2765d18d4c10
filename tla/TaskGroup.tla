------------------------------- MODULE TaskGroup -------------------------------
(***************************************************************************)
(* asyncx::TaskGroup over a ThreadPool: callers that submit one task each, *)
(* waiters that call Wait and WaitUntil again and again, at the same time  *)
(* or not, and somebody who cancels the group or the token of a task.      *)
(*                                                                         *)
(* Of the pool only what a group sees is left: it accepts or refuses a     *)
(* task, a worker takes it or Stop(CancelPending) destroys it, and its     *)
(* callback ends. What ThreadPool guarantees is the fairness assumed here: *)
(* every accepted task is taken or destroyed (its EveryTaskEnds).          *)
(***************************************************************************)
EXTENDS Integers, FiniteSets, SequencesExt

CONSTANTS
    Tasks,          \* one Submit call each
    OwnTokens,      \* the tasks given a token of their own (the default token never cancels)
    Waiters,        \* threads that wait on the group
    MaxWaits        \* bound: the waits of all waiters

ASSUME GroupAssumption == IsFiniteSet(Tasks)

VARIABLES
    cancelled,      \* source_: has the group been cancelled?
    tokens,         \* tasks whose own token (options.cancellation) is cancelled
    call,           \* where the Submit call of a task is
    promise,        \* what has become of the task and of its shared promise
    futures,        \* futures_
    stats,          \* stats_
    place,          \* where a waiter is
    local,          \* the list a waiter has swapped out of futures_
    pending,        \* what a WaitUntil has found unready
    due,            \* history: the tasks whose Submit had returned when a wait began
    heldByOthers,   \* history: the tasks other waits had in their hands at that moment
    waits,          \* history: waits begun
    ended           \* history: how the callback ended, if it ran at all

submitVars == <<call, promise, tokens, cancelled, ended>>
waitVars == <<place, local, pending, due, heldByOthers, waits>>
vars == <<submitVars, futures, stats, waitVars>>

Outcomes == {"Completed", "Cancelled", "Failed"}
Counters == {"submitted"} \cup Outcomes

\* CancellationToken::Join: the group's token or the task's own.
TokenCancelled(t) == cancelled \/ t \in tokens

\* future::get would not block.
Ready(t) == promise[t] \in Outcomes \cup {"broken"}

\* A promise destroyed without a value counts as cancelled.
Outcome(t) == IF promise[t] = "broken" THEN "Cancelled" ELSE promise[t]

------------------------------------------------------------------------------
(* Submit, and the pool. *)

SubmitBegin(t) ==
    /\ call[t] = "new"
    /\ call' = [call EXCEPT ![t] = IF cancelled THEN "refused" ELSE "posting"]
    /\ UNCHANGED <<promise, tokens, cancelled, ended, futures, stats, waitVars>>

\* PostWithOptions looks at the joined token once more.
PostAccepted(t) ==
    /\ call[t] = "posting"
    /\ ~TokenCancelled(t)
    /\ call' = [call EXCEPT ![t] = "accepted"]
    /\ promise' = [promise EXCEPT ![t] = "queued"]
    /\ UNCHANGED <<tokens, cancelled, ended, futures, stats, waitVars>>

\* Cancelled, or the pool is full or closed.
PostRefused(t) ==
    /\ call[t] = "posting"
    /\ call' = [call EXCEPT ![t] = "refused"]
    /\ UNCHANGED <<promise, tokens, cancelled, ended, futures, stats, waitVars>>

Register(t) ==
    /\ call[t] = "accepted"
    /\ call' = [call EXCEPT ![t] = "returned"]
    /\ stats' = [stats EXCEPT !["submitted"] = @ + 1]
    /\ futures' = Append(futures, t)
    /\ UNCHANGED <<promise, tokens, cancelled, ended, waitVars>>

\* mutant: a task skipped by the worker keeps its promise alive
TakenKeepsPromise(t) == IF TokenCancelled(t) THEN "skipped" ELSE "started"

\* The wrapper of PostWithOptions: a cancelled task is destroyed unrun.
Taken(t) == IF TokenCancelled(t) THEN "broken" ELSE "started"

WorkerTakes(t) ==
    /\ promise[t] = "queued"
    /\ promise' = [promise EXCEPT ![t] = Taken(t)]
    /\ UNCHANGED <<call, tokens, cancelled, ended, futures, stats, waitVars>>

\* The wrapper of Submit: the token is read once more, then the callback runs.
WrapperBegins(t) ==
    /\ promise[t] = "started"
    /\ promise' = [promise EXCEPT ![t] = IF TokenCancelled(t) THEN "Cancelled" ELSE "running"]
    /\ UNCHANGED <<call, tokens, cancelled, ended, futures, stats, waitVars>>

CallbackEnds(t, how) ==
    /\ promise[t] = "running"
    /\ promise' = [promise EXCEPT ![t] = how]
    /\ ended' = [ended EXCEPT ![t] = how]
    /\ UNCHANGED <<call, tokens, cancelled, futures, stats, waitVars>>

\* Stop(StopMode::CancelPending) clears the queue.
Discarded(t) ==
    /\ promise[t] = "queued"
    /\ promise' = [promise EXCEPT ![t] = "broken"]
    /\ UNCHANGED <<call, tokens, cancelled, ended, futures, stats, waitVars>>

Cancel ==
    /\ ~cancelled
    /\ cancelled' = TRUE
    /\ UNCHANGED <<call, promise, tokens, ended, futures, stats, waitVars>>

CancelTask(t) ==
    /\ t \in OwnTokens \ tokens
    /\ tokens' = tokens \cup {t}
    /\ UNCHANGED <<call, promise, cancelled, ended, futures, stats, waitVars>>

------------------------------------------------------------------------------
(* Wait and WaitUntil. *)

InHands(w) == ToSet(local[w]) \cup ToSet(pending[w])
Submitted == {t \in Tasks : call[t] = "returned"}

\* A wait takes the whole list away, and with it nothing that another wait has taken.
WaitBegin(w, kind) ==
    /\ place[w] \in {"idle", "ok", "timeout"}
    /\ waits < MaxWaits
    /\ waits' = waits + 1
    /\ place' = [place EXCEPT ![w] = kind]
    /\ local' = [local EXCEPT ![w] = futures]
    /\ futures' = <<>>
    /\ due' = [due EXCEPT ![w] = Submitted]
    /\ heldByOthers' = [heldByOthers EXCEPT ![w] = UNION {InHands(v) : v \in Waiters \ {w}}]
    /\ UNCHANGED <<submitVars, stats, pending>>

\* RecordOutcome of the first future of the list, once its promise is settled.
Observe(w) ==
    /\ place[w] \in {"wait", "until"}
    /\ local[w] # <<>>
    /\ LET t == Head(local[w])
       IN  /\ Ready(t)
           /\ stats' = [stats EXCEPT ![Outcome(t)] = @ + 1]
    /\ local' = [local EXCEPT ![w] = Tail(@)]
    /\ UNCHANGED <<submitVars, futures, place, pending, due, heldByOthers, waits>>

\* The deadline of WaitUntil passes before the first future is ready.
GiveUp(w) ==
    /\ place[w] = "until"
    /\ local[w] # <<>>
    /\ ~Ready(Head(local[w]))
    /\ pending' = [pending EXCEPT ![w] = Append(@, Head(local[w]))]
    /\ local' = [local EXCEPT ![w] = Tail(@)]
    /\ UNCHANGED <<submitVars, futures, stats, place, due, heldByOthers, waits>>

FuturesForgotten(w) == futures      \* mutant: a timed out wait keeps what it took

\* A wait that timed out puts the unready futures back.
FuturesReturned(w) == futures \o pending[w]

AlwaysOk(w) == "ok"                 \* mutant: the timeout is not reported

Result(w) == IF pending[w] = <<>> THEN "ok" ELSE "timeout"

WaitEnd(w) ==
    /\ place[w] \in {"wait", "until"}
    /\ local[w] = <<>>
    /\ place' = [place EXCEPT ![w] = Result(w)]
    /\ futures' = FuturesReturned(w)
    /\ pending' = [pending EXCEPT ![w] = <<>>]
    /\ due' = [due EXCEPT ![w] = {}] /\ heldByOthers' = [heldByOthers EXCEPT ![w] = {}]
    /\ UNCHANGED <<submitVars, stats, local, waits>>

------------------------------------------------------------------------------
Init ==
    /\ cancelled = FALSE /\ tokens = {}
    /\ call = [t \in Tasks |-> "new"]
    /\ promise = [t \in Tasks |-> "none"]
    /\ futures = <<>>
    /\ stats = [c \in Counters |-> 0]
    /\ place = [w \in Waiters |-> "idle"]
    /\ local = [w \in Waiters |-> <<>>] /\ pending = [w \in Waiters |-> <<>>]
    /\ due = [w \in Waiters |-> {}] /\ heldByOthers = [w \in Waiters |-> {}]
    /\ waits = 0
    /\ ended = [t \in Tasks |-> "never ran"]

Submit(t) == SubmitBegin(t) \/ PostAccepted(t) \/ PostRefused(t) \/ Register(t)

Run(t) ==
    \/ WorkerTakes(t) \/ WrapperBegins(t)
    \/ \E how \in {"Completed", "Failed"} : CallbackEnds(t, how)

Waiting(w) == Observe(w) \/ GiveUp(w) \/ WaitEnd(w)

Next ==
    \/ \E t \in Tasks : Submit(t) \/ Run(t) \/ Discarded(t) \/ CancelTask(t)
    \/ Cancel
    \/ \E w \in Waiters : Waiting(w) \/ \E kind \in {"wait", "until"} : WaitBegin(w, kind)

Spec == Init /\ [][Next]_vars

\* Accepted tasks are taken and end, and a wait in progress goes on. Nobody has
\* to submit, cancel or wait.
Fairness ==
    /\ \A t \in Tasks : WF_vars(Run(t))
    /\ \A w \in Waiters : WF_vars(Waiting(w))

FairSpec == Spec /\ Fairness

------------------------------------------------------------------------------
Unclassified == ToSet(futures) \cup UNION {InHands(w) : w \in Waiters}

Classified == Submitted \ Unclassified

\* The statistics of the group are right however its waits overlap and time out:
\* every submitted task is counted once, under what happened to its callback. A
\* callback that ran counts as completed or failed even if it was cancelled.
OutcomesAgree ==
    /\ stats["submitted"] = Cardinality(Submitted)
    /\ stats["Cancelled"] = Cardinality({t \in Classified : ended[t] = "never ran"})
    /\ \A how \in {"Completed", "Failed"} :
          stats[how] = Cardinality({t \in Classified : ended[t] = how})

------------------------------------------------------------------------------
(* What makes OutcomesAgree and WaitClassifiesUnheld inductive. *)

GroupTypeOK ==
    /\ cancelled \in BOOLEAN /\ tokens \subseteq OwnTokens
    /\ call \in [Tasks -> {"new", "posting", "refused", "accepted", "returned"}]
    /\ promise \in [Tasks -> {"none", "queued", "started", "running", "broken"} \cup Outcomes]
    /\ ended \in [Tasks -> {"never ran", "Completed", "Failed"}]
    /\ stats \in [Counters -> Nat]
    /\ place \in [Waiters -> {"idle", "wait", "until", "ok", "timeout"}]
    /\ due \in [Waiters -> SUBSET Tasks] /\ heldByOthers \in [Waiters -> SUBSET Tasks]
    /\ waits \in Nat

\* The list of the group and what the waits have in their hands are lists of
\* submitted tasks, each of them in one place of one of them.
HeldOnce ==
    /\ futures \in Seq(Tasks) /\ IsInjective(futures)
    /\ local \in [Waiters -> Seq(Tasks)] /\ pending \in [Waiters -> Seq(Tasks)]
    /\ Unclassified \subseteq Submitted
    /\ \A w \in Waiters :
          /\ IsInjective(local[w]) /\ IsInjective(pending[w])
          /\ ToSet(local[w]) \cap ToSet(pending[w]) = {}
          /\ InHands(w) \cap ToSet(futures) = {}
          /\ place[w] \notin {"wait", "until"} => local[w] = <<>> /\ pending[w] = <<>>
    /\ \A v, w \in Waiters : v # w => InHands(v) \cap InHands(w) = {}

\* What is classified is settled, a settled promise tells how the callback ended, and
\* what the pool has not accepted has no promise yet.
SettledAgree ==
    /\ \A t \in Classified : Ready(t)
    /\ \A t \in Tasks : call[t] \in {"new", "posting"} => promise[t] = "none"
    /\ \A t \in Tasks : ended[t] = IF promise[t] \in {"Completed", "Failed"} THEN promise[t] ELSE "never ran"

\* What a wait has to classify on its own.
Owed(w) == due[w] \ heldByOthers[w]

\* What a wait in progress still owes is in its own hands.
OwedInHands ==
    \A w \in Waiters : place[w] \in {"wait", "until"} =>
        Owed(w) \subseteq Submitted /\ Owed(w) \cap Unclassified \subseteq InHands(w)

GroupInv == GroupTypeOK /\ HeldOnce /\ SettledAgree /\ OwedInHands /\ OutcomesAgree

------------------------------------------------------------------------------
Succeeds(w) == place[w] \in {"wait", "until"} /\ place'[w] = "ok"

\* A wait that returns OK has classified every task whose Submit had returned when it
\* began and that no other wait had taken by then, whatever waits overlap with it,
\* time out and put futures back meanwhile (Wait, WaitUntil). This is all the code does:
\* it is less than WaitClassifiesAll.
WaitClassifiesUnheld == [][\A w \in Waiters : Succeeds(w) => Owed(w) \subseteq Classified]_vars

\* A wait that returns OK has classified every task whose Submit had returned when it
\* began, as docs/modules/asyncx.md says of wait operations ("classify every accepted
\* task"). Not so: the first of two waits takes the list of futures away, and the
\* second finds nothing to wait for.
WaitClassifiesAll == [][\A w \in Waiters : Succeeds(w) => due[w] \subseteq Classified]_vars

\* No wait blocks for ever, whether the pool runs the tasks, skips or destroys them.
WaitReturns == \A w \in Waiters : (place[w] \in {"wait", "until"}) ~> (place[w] \in {"ok", "timeout"})
==============================================================================
