---------------------------- MODULE ConfigReload ----------------------------
(***************************************************************************)
(* cfgx::PollReloader over a base and a local file that other programs     *)
(* rewrite (truncate, then write) and remove between any two of its steps, *)
(* a remote source that may fail, overrides the application changes, and   *)
(* the audit trail. A text is a member of a small set; what a file         *)
(* contributes to a configuration is its text.                             *)
(***************************************************************************)
EXTENDS Integers, TLC

CONSTANTS Texts,     \* whole texts of a file
          Rejected,  \* texts no configuration composes or passes the rules with
          Torn,      \* an empty or half written text
          Missing,   \* no file
          Empty,     \* of a layer: contributes nothing
          Unparsed,  \* the text does not parse
          None,      \* no configuration, no fingerprint, no entry
          Options,   \* [allowMissing, allowRemoteFailure, remote, debounce, interval]
          MaxWrites  \* bound: steps of the writers and changes of the overrides

VARIABLES disk,      \* the text of each file
          options, current, currentTrace,
          tracked,   \* base_state_, local_state_: the text a fingerprint stands for
          pending,   \* -1, or the time since pending_since_ms_
          polled,    \* -1, or the time since last_remote_poll_ms_
          audit,     \* the last entry that is not a rollback: [config, trace]
          pc, seen,  \* the base fingerprint Tick took first
          layers,    \* what this reload has loaded
          outcome,   \* of the last reload or restore
          runtime,   \* what the overrides hold
          raced,     \* of the properties: files written between their loading and their fingerprint
          writes

vars == <<disk, options, current, currentTrace, tracked, pending, polled, audit, pc, seen, layers, outcome, runtime,
          raced, writes>>
published == <<current, currentTrace, audit>>
timers == <<pending, polled>>
world == <<disk, options, runtime, writes>>

Files == {"base", "local"}
AllowMissing(f) == f = "local" \/ options.allowMissing

\* The base file is JSON; the local one INI, whose empty text is an empty layer.
Parse(f, text) == IF text \in Texts THEN text ELSE IF f = "local" THEN Empty ELSE Unparsed
Layer(f, text) == IF text = Missing THEN Empty ELSE Parse(f, text)

(***************************************************************************)
(* Other programs: SaveToFile truncates the file before it writes a text.  *)
(***************************************************************************)
Write(f) ==
    /\ writes < MaxWrites /\ writes' = writes + 1
    /\ \E text \in Texts \cup {Torn, Missing} :
        /\ text # disk[f] /\ (text \in Texts => disk[f] \in {Torn, Missing})
        /\ disk' = [disk EXCEPT ![f] = text]
    /\ raced' = IF f \in DOMAIN layers THEN raced \cup {f} ELSE raced
    /\ UNCHANGED <<published, timers, options, tracked, pc, seen, layers, outcome, runtime>>

Override ==
    /\ writes < MaxWrites /\ writes' = writes + 1 /\ runtime' = ~runtime
    /\ UNCHANGED <<published, timers, disk, options, tracked, pc, seen, layers, outcome, raced>>

\* The clock moves on; only the intervals since its two marks are compared.
Aged(age, limit) == IF age \in 0..(limit - 1) THEN age + 1 ELSE age

Elapse ==
    /\ pc = "idle"
    /\ pending' = Aged(pending, options.debounce) /\ polled' = Aged(polled, options.interval)
    /\ <<pending', polled'>> # timers
    /\ UNCHANGED <<published, world, tracked, pc, seen, layers, outcome, raced>>

(***************************************************************************)
(* ReloadNow.                                                              *)
(***************************************************************************)
Begin == pc' = "base" /\ layers' = <<>> /\ raced' = {}

ReloadNow == pc = "idle" /\ Begin /\ UNCHANGED <<published, timers, world, tracked, seen, outcome>>

RollbackOrFail ==
    /\ pc' = "idle" /\ layers' = <<>> /\ outcome' = IF current = None THEN "failed" ELSE "rolled_back"
    /\ UNCHANGED published

\* The fingerprint says whether there is a file.
Check(f, load, next) ==
    /\ pc = f
    /\ IF disk[f] # Missing THEN pc' = load /\ UNCHANGED <<published, layers, outcome>>
       ELSE IF AllowMissing(f)
       THEN pc' = next /\ layers' = layers @@ (f :> Empty) /\ UNCHANGED <<published, outcome>>
       ELSE RollbackOrFail
    /\ UNCHANGED <<world, timers, tracked, seen, raced>>

\* LoadFromFile reads it again: by now it may be gone, or hold another text.
Load(f, load, next) ==
    /\ pc = load
    /\ IF disk[f] = Missing \/ Parse(f, disk[f]) = Unparsed
       THEN RollbackOrFail
       ELSE pc' = next /\ layers' = layers @@ (f :> Parse(f, disk[f])) /\ UNCHANGED <<published, outcome>>
    /\ UNCHANGED <<world, timers, tracked, seen, raced>>

CheckBase == Check("base", "load_base", "local")
LoadBase == Load("base", "load_base", "local")
CheckLocal == Check("local", "load_local", "remote")
LoadLocal == Load("local", "load_local", "remote")

LoadFromRemote ==
    /\ pc = "remote"
    /\ \/ /\ options.remote /\ ~options.allowRemoteFailure /\ RollbackOrFail
       \/ /\ pc' = "compose"
          /\ \E layer \in IF options.remote THEN Texts \cup (IF options.allowRemoteFailure THEN {Empty} ELSE {})
                          ELSE {Empty} : layers' = layers @@ ("remote" :> layer)
          /\ UNCHANGED <<published, outcome>>
    /\ UNCHANGED <<world, timers, tracked, seen, raced>>

Composed == layers @@ ("runtime" :> runtime)
Validate(config) == \A f \in {"base", "local", "remote"} : config[f] \notin Rejected

\* The environment layer, ComposeLayers, Validate; then the audit entry, current_ and current_trace_.
Compose ==
    /\ pc = "compose"
    /\ \/ RollbackOrFail
       \/ /\ Validate(Composed)
          /\ current' = Composed /\ currentTrace' = Composed
          /\ audit' = [config |-> Composed, trace |-> Composed]
          /\ pc' = "sync_base" /\ outcome' = "applied" /\ UNCHANGED layers
    /\ UNCHANGED <<world, timers, tracked, seen, raced>>

\* sync_state: a fingerprint that fails leaves the tracked state.
Sync(f) == tracked' = IF disk[f] = Missing /\ ~AllowMissing(f) THEN tracked ELSE [tracked EXCEPT ![f] = disk[f]]

SyncBase ==
    /\ pc = "sync_base" /\ pc' = "sync_local" /\ Sync("base")
    /\ layers' = [f \in DOMAIN layers \ {"base"} |-> layers[f]]
    /\ UNCHANGED <<published, world, timers, seen, outcome, raced>>

SyncLocal ==
    /\ pc = "sync_local" /\ pc' = "idle" /\ Sync("local") /\ layers' = <<>>
    /\ UNCHANGED <<published, world, timers, seen, outcome, raced>>

(***************************************************************************)
(* Tick: the two fingerprints, then the decision.                          *)
(***************************************************************************)
RemotePoll == options.remote /\ options.interval > 0
RemoteDue == RemotePoll /\ (polled = -1 \/ polled >= options.interval)

TickBase ==
    /\ pc = "idle" /\ ~(disk["base"] = Missing /\ ~AllowMissing("base"))
    /\ seen' = disk["base"] /\ pc' = "tick_local"
    /\ UNCHANGED <<published, world, timers, tracked, layers, outcome, raced>>

\* A required file is not there: the call fails.
TickFails == pc = "idle" /\ disk["base"] = Missing /\ ~AllowMissing("base") /\ UNCHANGED vars

Observed == [f \in Files |-> IF f = "base" THEN seen ELSE disk[f]]

\* What the debounce window waits for is not seen yet.
\* A mutant: the file states are recorded when the window opens.
RecordedAtOnce == Observed

WhileWaiting == tracked

TickIdle ==
    /\ pc = "tick_local" /\ Observed = tracked /\ ~RemoteDue
    /\ pc' = "idle" /\ pending' = -1 /\ seen' = None
    /\ UNCHANGED <<published, world, polled, tracked, layers, outcome, raced>>

Debounced == current # None /\ options.debounce > 0 /\ pending < options.debounce

TickWait ==
    /\ pc = "tick_local" /\ (Observed # tracked \/ RemoteDue) /\ Debounced
    /\ pc' = "idle" /\ seen' = None /\ pending' = IF pending = -1 THEN 0 ELSE pending
    /\ tracked' = WhileWaiting
    /\ UNCHANGED <<published, world, polled, layers, outcome, raced>>

TickReload ==
    /\ pc = "tick_local" /\ (Observed # tracked \/ RemoteDue) /\ ~Debounced
    /\ Begin
    /\ tracked' = Observed /\ pending' = -1 /\ seen' = None
    /\ polled' = IF RemotePoll THEN 0 ELSE polled
    /\ UNCHANGED <<published, world, outcome>>

(***************************************************************************)
(* RestoreSnapshot, with or without a trace; ClearAuditTrail.              *)
(***************************************************************************)
Snapshots == {[base |-> t, local |-> Empty, remote |-> Empty, runtime |-> FALSE] : t \in Texts}

RestoreSnapshot ==
    /\ pc = "idle"
    /\ \E snapshot \in Snapshots, trace \in {None, current} :
        /\ Validate(snapshot)
        /\ current' = snapshot /\ currentTrace' = trace
        /\ audit' = [config |-> snapshot, trace |-> trace]
    /\ pending' = -1 /\ polled' = -1 /\ outcome' = "restored"
    /\ UNCHANGED <<world, tracked, pc, seen, layers, raced>>

ClearAuditTrail ==
    /\ pc = "idle" /\ audit # None /\ audit' = None
    /\ UNCHANGED <<current, currentTrace, timers, world, tracked, pc, seen, layers, outcome, raced>>

Init ==
    /\ disk \in [Files -> {Missing} \cup (Texts \ Rejected)] /\ options \in Options
    /\ current = None /\ currentTrace = None /\ tracked = [f \in Files |-> None]
    /\ pending = -1 /\ polled = -1 /\ audit = None /\ pc = "idle" /\ seen = None /\ layers = <<>>
    /\ outcome = "none" /\ runtime = FALSE /\ raced = {} /\ writes = 0

Next ==
    \/ \E f \in Files : Write(f)
    \/ Override \/ Elapse \/ ReloadNow
    \/ CheckBase \/ LoadBase \/ CheckLocal \/ LoadLocal \/ LoadFromRemote \/ Compose \/ SyncBase \/ SyncLocal
    \/ TickBase \/ TickFails \/ TickIdle \/ TickWait \/ TickReload
    \/ RestoreSnapshot \/ ClearAuditTrail

Spec == Init /\ [][Next]_vars

(***************************************************************************)
(* Properties.                                                             *)
(***************************************************************************)
\* Whenever Tick would report no change after a reload that was applied, the active configuration is built from
\* what the files hold, unless a file was written while that reload was under way: nothing a writer does between
\* two polls, in the debounce window or to both files at once goes unnoticed.
Fresh ==
    pc = "idle" /\ outcome = "applied" /\ tracked = disk =>
        \A f \in Files \ raced : current[f] = Layer(f, disk[f])

\* What is active passed the rules and is what the last entry of the audit trail that is not a rollback reports,
\* with its trace: a reload that fails half way leaves all three alone.
ActiveIsAudited ==
    /\ current # None => Validate(current)
    /\ audit # None => audit = [config |-> current, trace |-> currentTrace]
    /\ outcome = "applied" => currentTrace = current
=============================================================================
