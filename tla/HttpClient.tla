------------------------------ MODULE HttpClient ------------------------------
(***************************************************************************)
(* Client::Send by several threads: the circuit breaker, the retry loop    *)
(* with its deadline and callbacks, the failure statistics, and the calls  *)
(* that change options and statistics meanwhile. One attempt (SendOnce) is *)
(* a step here that succeeds or fails with some error after some time.     *)
(***************************************************************************)
EXTENDS Integers, FiniteSets, SequencesExt, TLC

CONSTANTS Callers,
          FirstOptions, \* the options of the constructor
          FlatConfigs,  \* entries given to ApplyFlatConfig: [ok, total, attempts]
          Requests,     \* what a call may be: [valid, starts]
          AskRetry,     \* errors for which options_.should_retry says yes; {} without the callback
          MaxSends,     \* bound: Send calls
          MaxClock,     \* bound: ticks of the clock
          MaxChanges    \* bound: ApplyFlatConfig and ResetFailureStats calls

VARIABLES options, stats, circuitOpen, openedAt, \* the members, under mu_
          call,         \* every caller's Send: its place, its snapshot of the options, its progress
          clock, sends, changes,
          history       \* of the properties: outcomes in the order in which they were recorded

vars == <<options, stats, circuitOpen, openedAt, call, clock, sends, changes, history>>

NoStats == [total |-> 0, failures |-> 0, consecutive |-> 0]

\* Errors of an attempt; only the first (a timeout of the attempt too) is retryable by itself.
Transient == {"Network"}
Permanent == {"Protocol", "Redirect"}
Retryable(e) == e \in Transient

\* ParseOptionsFromFlatConfig starts from the defaults, of which it knows only some keys.
DefaultOptions ==
    [total |-> 2, attempts |-> 0, legacy |-> 0, delay |-> 0, transient |-> TRUE,
     breaker |-> [enabled |-> FALSE, threshold |-> 2, reset |-> 1]]

\* The retries a call may use after its first attempt.
RetryBudget(o) == IF o.attempts > 0 THEN o.attempts - 1 ELSE o.legacy

NoCall ==
    [at |-> "idle", request |-> "none", options |-> FirstOptions, deadline |-> 0, retries |-> 0, attempts |-> 0,
     wake |-> 0, last |-> "none"]

Go(c, place) == call' = [call EXCEPT ![c].at = place]
At(c, place) == call[c].at = place
Elapsed(t) == clock >= t

\* The start of Send: the options of this call and its deadline.
SendBegin(c) ==
    /\ At(c, "idle") /\ sends < MaxSends
    /\ \E r \in Requests :
        call' = [call EXCEPT ![c] = [at |-> "check", request |-> r, options |-> options,
                                     deadline |-> clock + options.total, retries |-> 0, attempts |-> 0,
                                     wake |-> 0, last |-> "none"]]
    /\ sends' = sends + 1
    /\ UNCHANGED <<options, stats, circuitOpen, openedAt, clock, changes, history>>

\* The circuit, in a critical section of its own, and what is wrong with the request itself.
IsOpen(o) == o.breaker.enabled /\ circuitOpen /\ clock - openedAt < o.breaker.reset

CheckCircuit(c) ==
    /\ At(c, "check")
    /\ LET o == call[c].options
           fits == call[c].request.valid
       IN  call' = [call EXCEPT ![c].at = IF IsOpen(o) \/ ~fits THEN "refuse" ELSE "attempt",
                                ![c].last = IF IsOpen(o) THEN "CircuitOpen"
                                            ELSE IF fits THEN "none" ELSE "InvalidArgument"]
    /\ UNCHANGED <<options, stats, circuitOpen, openedAt, clock, sends, changes, history>>

\* A refused call counts as a failed one but leaves the circuit as it is.
CountFailure(s) ==
    [total |-> s.total + 1, failures |-> s.failures + 1, consecutive |-> s.consecutive + 1]

Refuse(c) ==
    /\ At(c, "refuse")
    /\ stats' = CountFailure(stats)
    /\ Go(c, "returned")
    /\ history' = Append(history, [last |-> call[c].last, breaker |-> call[c].options.breaker])
    /\ UNCHANGED <<options, circuitOpen, openedAt, clock, sends, changes>>

\* The head of the loop: the deadline, then the caller's on_attempt_start, then the attempt.
StartAttempt(c) ==
    /\ At(c, "attempt")
    /\ call' = [call EXCEPT ![c] =
            IF Elapsed(@.deadline) THEN [@ EXCEPT !.at = "record", !.last = "Timeout"]
            ELSE IF @.retries + 1 > @.request.starts THEN [@ EXCEPT !.at = "record", !.last = "Internal"]
            ELSE [@ EXCEPT !.at = "transport", !.attempts = @ + 1]]
    /\ UNCHANGED <<options, stats, circuitOpen, openedAt, clock, sends, changes, history>>

\* should_retry is asked, and retry_transient_errors, while a retry is left.
WantsRetry(o, e) == e \in AskRetry \/ (o.transient /\ Retryable(e))
HasBudget(o, retries) == retries < RetryBudget(o)

Lesser(a, b) == IF a < b THEN a ELSE b

EndAttempt(c) ==
    /\ At(c, "transport")
    /\ \E e \in {"ok"} \cup Transient \cup Permanent :
        call' = [call EXCEPT ![c] =
            IF e # "ok" /\ HasBudget(@.options, @.retries) /\ WantsRetry(@.options, e)
            THEN [@ EXCEPT !.at = "delay", !.last = e, !.retries = @ + 1,
                           !.wake = Lesser(clock + call[c].options.delay, call[c].deadline)]
            ELSE [@ EXCEPT !.at = "record", !.last = e]]
    /\ UNCHANGED <<options, stats, circuitOpen, openedAt, clock, sends, changes, history>>

Delay(c) ==
    /\ At(c, "delay") /\ Elapsed(call[c].wake)
    /\ Go(c, "attempt")
    /\ UNCHANGED <<options, stats, circuitOpen, openedAt, clock, sends, changes, history>>

\* A mutant: all failures since the last reset count.
OpensOnTotal(o, s) == o.breaker.enabled /\ s.failures >= o.breaker.threshold

\* The outcome, in one critical section: a success closes the circuit, enough failures open it.
Opens(o, s) == o.breaker.enabled /\ s.consecutive >= (IF o.breaker.threshold > 1 THEN o.breaker.threshold ELSE 1)

Record(c) ==
    /\ At(c, "record")
    /\ IF call[c].last = "ok"
       THEN /\ stats' = [stats EXCEPT !.total = @ + 1, !.consecutive = 0]
            /\ circuitOpen' = FALSE
            /\ UNCHANGED openedAt
       ELSE /\ stats' = CountFailure(stats)
            /\ circuitOpen' = (circuitOpen \/ Opens(call[c].options, stats'))
            /\ openedAt' = IF Opens(call[c].options, stats') THEN clock ELSE openedAt
    /\ history' = Append(history, [last |-> call[c].last, breaker |-> call[c].options.breaker])
    /\ Go(c, "returned")
    /\ UNCHANGED <<options, clock, sends, changes>>

\* Send returns; the caller may call again.
Return(c) ==
    /\ At(c, "returned")
    /\ call' = [call EXCEPT ![c] = NoCall]
    /\ UNCHANGED <<options, stats, circuitOpen, openedAt, clock, sends, changes, history>>

\* A malformed entry refuses all; else what the entries do not set goes back to its default.
ApplyFlatConfig ==
    /\ changes < MaxChanges
    /\ \E f \in FlatConfigs :
        options' = IF f.ok THEN [DefaultOptions EXCEPT !.total = f.total, !.attempts = f.attempts] ELSE options
    /\ changes' = changes + 1
    /\ UNCHANGED <<stats, circuitOpen, openedAt, call, clock, sends, history>>

ResetFailureStats ==
    /\ changes < MaxChanges
    /\ stats' = NoStats
    /\ circuitOpen' = FALSE
    /\ changes' = changes + 1
    /\ history' = <<>>
    /\ UNCHANGED <<options, openedAt, call, clock, sends>>

Tick ==
    /\ clock < MaxClock
    /\ clock' = clock + 1
    /\ UNCHANGED <<options, stats, circuitOpen, openedAt, call, sends, changes, history>>

Init ==
    /\ options = FirstOptions
    /\ stats = NoStats
    /\ circuitOpen = FALSE /\ openedAt = 0
    /\ call = [c \in Callers |-> NoCall]
    /\ clock = 0 /\ sends = 0 /\ changes = 0
    /\ history = <<>>

Send(c) ==
    \/ SendBegin(c) \/ CheckCircuit(c) \/ Refuse(c) \/ StartAttempt(c) \/ EndAttempt(c) \/ Delay(c)
    \/ Record(c) \/ Return(c)

Next == (\E c \in Callers : Send(c)) \/ ApplyFlatConfig \/ ResetFailureStats \/ Tick

Spec == Init /\ [][Next]_vars

(***************************************************************************)
(* Properties.                                                             *)
(***************************************************************************)
Failures(h) == SelectSeq(h, LAMBDA x : x.last # "ok")

\* How many outcomes at the end of the history are failures.
Streak(h) == Len(h) - (IF \E i \in DOMAIN h : h[i].last = "ok"
                       THEN CHOOSE i \in DOMAIN h : h[i].last = "ok" /\ \A j \in i+1..Len(h) : h[j].last # "ok"
                       ELSE 0)

\* Whatever overlaps, the statistics are those of the outcomes recorded since the last reset, and
\* the circuit is open exactly when nothing succeeded since a call that went to the transport
\* found, with its own failure, as many in a row as its options ask for.
CircuitLedger ==
    LET start == Len(history) - Streak(history)
    IN  /\ stats = [total |-> Len(history), failures |-> Len(Failures(history)), consecutive |-> Streak(history)]
        /\ circuitOpen <=>
            \E i \in start+1..Len(history) :
                /\ history[i].last \notin {"CircuitOpen", "InvalidArgument"}
                /\ history[i].breaker.enabled
                /\ i - start >= history[i].breaker.threshold

\* A call gives up on an error only for a reason: the budget of its own options is used, nobody
\* wants the error retried, time is up, or its own callback refused. It never makes more attempts
\* than the budget allows, and an open circuit or an invalid request costs none.
SendContract ==
    \A c \in Callers :
        LET o == call[c].options
            e == call[c].last
        IN  /\ call[c].attempts <= RetryBudget(o) + 1
            /\ At(c, "record") =>
                \/ e = "ok"
                \/ call[c].attempts = RetryBudget(o) + 1
                \/ e \in Permanent /\ e \notin AskRetry
                \/ e \in Transient /\ ~o.transient /\ e \notin AskRetry
                \/ e = "Timeout" /\ Elapsed(call[c].deadline)
                \/ e = "Internal" /\ call[c].attempts = call[c].request.starts
            /\ At(c, "refuse") => call[c].attempts = 0
==============================================================================
