# toolx-cpp: a TLA+ verification project

toolx-cpp is a set of C++ libraries (`src/src`, headers in `src/include`) and of command line
programs built from them (`src/tools`). This directory models the libraries whose correctness
depends on interleavings, crashes, failures or long sequences of calls, checks the models with
TLC and proves with TLAPS what matters most about the thread pool, its task groups, the batches of
fsx and their journal, the logger, the rotation of log files and downloads.

`PROJECT.json` lists the components, the runs with their properties, for every definition the
lines of code it stands for, the places where this code is hard to test (`hazards`) with the
properties that watch them, one mutant for every property, the findings and the theorems.

## Inventory

| Component | State it keeps | Operations | What is hard | What makes it correct |
| --- | --- | --- | --- | --- |
| asyncx `ThreadPool` | bounded queue, scheduled tasks, lifecycle flags, active workers, dispatch slot, counters | `Post*`, `TryPost`, `PostUntil`, `PostDelayed*`, `ScheduleEvery`, `CancelScheduled`, `WaitForIdle*`, `Start`, `Stop`, `Join` | one mutex, four condition variables, deadlines, shutdown, failed thread creation | the queue is bounded, no wakeup is lost, tasks run exactly once, counters add up, Join returns and leaves nothing, no priority starves |
| asyncx `TaskGroup` | futures and outcome counts | `Submit*`, `Wait*`, `Cancel` | waits that overlap, tasks the pool discards | every submitted task is counted once under what happened to it, a wait that succeeds has classified all that no other wait held, and every wait returns |
| fsx batches | undo stack and journal of a run | `Run`, `RecoverFromJournal` | a crash between any two filesystem calls, refused calls, torn records, retries | all or nothing, nothing lost, nothing left behind, files of others survive |
| fsx trees | plan, snapshots, archive under way | `BuildSyncPlan`, `CopyTree`, `PollingFileWatcher::Poll`, `CreateArchive`, `ExtractArchive` | the tree changes while it is walked, calls fail half way | a success mirrors the source, a failure restores the destination, events tell all, archives round-trip |
| logsys `Logger` | queue, sinks of the router, grouped lines, metrics | `Enqueue`, `Flush`, `ApplyConfig*`, fatal events, destruction | worker against producers, flush against stop, reconfiguration | Flush is a boundary, lines in order, watermark respected, nobody waits for ever |
| logsys `FileSink` | open file, its size, the chain of rotated files | `Write`, rotation by size and time | renames whose errors are ignored, crashes between them | only the oldest lines are lost |
| logsys configuration | global options, sections, profiles | `LoadConfigV2*` | a scanner instead of a parser | a value means what its place says |
| httpx client | circuit, statistics, options | `Send`, `ApplyFlatConfig`, `ResetFailureStats` | outcomes recorded long after the circuit was asked, budgets, deadlines | counters and circuit follow from the outcomes |
| httpx redirects and cookies | chain, cookie jar | `SendOnce` | origins, methods and headers along a chain | credentials stay home, chains end |
| httpx transport | pooled connections, response reader | `SendByDefaultTransport`, `Tunnel*`, pool | framing over any split of the bytes, stale connections, limits | a response belongs to its request, a pooled connection is clean |
| httpx downloads | temporary file, backup, target | `DownloadFile` | retries, crash between backup and publication, other calls | never a partial file, nothing lost |
| cfgx trees | node tree, layers, overrides, source trace | `SetNode`, `RemoveNode`, `ComposeLayers`, differences, `Validate` | merging containers and scalars, traces of what was overwritten | edits are local, traces and differences exact |
| cfgx files | INI, YAML, TOML text | `SaveToFile`, `LoadFromFile` | comments are kept by rewriting in place | what was saved loads again |
| cfgx reload | fingerprints, active configuration, audit trail | `PollReloader::Tick`, `ReloadNow`, `RestoreSnapshot` | files that change during a reload, debouncing, failed reloads | the active configuration is current, valid and audited |
| argtool | none between calls | `Parser::Parse` | defaults, fallbacks, flags and rules in an order of their own | what is accepted meets the configuration and means the same in any spelling |
| tuix | previous frame, focus, input stream | `Tick`, `SetRoot`, `SetFocusedWidget`, `RenderFrameDiff`, `Poll` | wide glyphs, partial repaints, hidden focus, cut escape sequences | the screen shows the frame, Tab reaches everything, keys arrive in order |
| schemax, textcodec, hashx, utils, sysx, resultx | none | pure functions and wrappers | - | - |
| toolx-config, -http, -log, -pack, -sync, -inspect, audit log guard | none between calls | one command each | - | - |

asyncx stands on sysx, schemax on cfgx, fsx, hashx, httpx and textcodec on utils; logsys reads
its configuration itself. The programs compose the libraries by plain calls: toolx-sync runs
`BuildSyncPlan` and an fsx batch, toolx-pack the archives, toolx-config cfgx and schemax,
toolx-http the client.

## Modules

    TaskQueue              abstract queue: push, weighted dispatch, clear, renumber
      DispatchFairness     + history: how often a waiting priority is passed over
        DispatchFairnessProofs
      ThreadPool           the pool with all its threads; implements TaskQueue
        ThreadPoolProofs             lifecycle, wakeups at a stop, refinement
          ThreadPoolLedgerProofs     custody of the tasks, counters, idle, Join, no lost wakeup
        MCThreadPool       instances
    TaskGroup              submissions, waits and cancellation of a group over a pool
      TaskGroupProofs
      MCAsync              an instance of TaskGroup, and one of ThreadPool, under fairness
    FsxFiles               paths, directory states, the operations of a plan
      AtomicBatch          abstract batch: the files change by whole plans
      FsxTransaction       Run and RecoverFromJournal; implements AtomicBatch
        FsxTransactionProofs   types, rollback, recovery, nothing lost, nothing left
        MCFsxTransaction, MCFsxRetry   instances
    FsxTree                directory trees
      FsxSync, FsxWatcher, FsxArchive
    Logger                 producers, worker, flushes, reconfiguration, sinks
      LoggerProofs
      MCLogging
    FileRotation           rotation by size and by time, one rename at a time
      FileRotationProofs
    LoggerConfig;  MCLoggerConfig
    HttpClient, HttpRedirect, HttpTransport
    HttpDownload
      HttpDownloadProofs
      MCHttp               downloads, and instances of the other three
    ConfigNode             nodes and paths, lines of text files
      ConfigText           saving and loading;  MCConfigText
      ConfigTree           edits, layers, traces, differences, rules
    ConfigReload
    ArgParse
    FrameBuffer            one row of a frame
      TuiScreen            the terminal's row and the diff sent to it
    TuiApp, TuiInput
    ConfigCases, ToolCases    values of parameters
    MCToolkit              instances of the machines that need few states

### asyncx: TaskQueue, ThreadPool (`src/src/asyncx.cpp`)

Every variable of `ThreadPool` is a member of the class (the comment beside it names it) or a
history variable. A thread is at a place `pc[t]`; it is in `blocked` while it sleeps on the
condition variable of that place. One action is one critical section of `mu_`, or one step
outside it: running the task (`WorkerFinish`), the `notify_one` that follows the unlock of
`EnqueueTask` (`EnqueueNotify`), creating and joining threads. `notify_one` chooses any sleeper;
a deadline is a choice that is always open to a call that has one. Time is abstract: `ComesDue`
makes a scheduled entry due.

Left out: the contents of tasks (a task ends; whether it threw makes no difference to the pool),
empty tasks and non-positive intervals, which are rejected before the lock is taken, the order of
due times, and spurious wakeups, after which a sleeper re-evaluates its predicate under the lock
and sleeps again. `stop_requested_` and `scheduler_stop_requested_` are one variable: every
assignment sets both.

### asyncx: TaskGroup

One action is one critical section of the group's mutex, or one step of a task in the pool. A
`Submit` call looks at the group's token, posts, and registers its future in three steps;
`promise` follows the task through the two wrappers that look at the joined token again before
the callback starts. A wait takes the list of futures away (`WaitBegin`), records the outcomes of
its list in order (`Observe`), moves on past a future that is not ready when its deadline has
passed (`GiveUp`), and puts those back (`WaitEnd`). Of the pool only its promise is left: an
accepted task is taken by a worker or destroyed by `Stop(CancelPending)`.

### fsx: FsxTransaction (`src/src/fsx.cpp`)

`fs` maps the paths that exist to their contents, `journal` is the list of records after the
header, and `call` is the stack of the function in progress, which a crash forgets. A handler of
`Run` looks at the files when its step begins and from then on goes through a fixed sequence of
primitives (`Handler`): log an undo record, write or copy a temporary file, move without
overwriting, publish over the target. Each is one action, may be refused (`StepFails`), and the
process may be killed between any two (`Crash`). Rollback and recovery walk the records backwards
(`Undone`, `Conflict`); undoing a `REPLACE` record takes three steps (stage, swap, mark).

A failed journal append may leave nothing, the whole record (the fsync failed), the record
without its end of line - the next append then glues itself to it -, or a part of it. A part that
still parses is a `REMOVE` or `MOVE` record whose last path was cut short (`Cuts`), the rest makes
the journal malformed. A crash in the middle of an append is that failed append followed by a
crash before the next primitive.

The module takes the documented contract as given: the caller has exclusive control of the paths,
so another program (`Appears`) only gets in between two primitives and not between the check and
the rename of one. `overwrite_existing` is left at its default. Contents are compared as values;
witness stamps are not represented.

### fsx: FsxSync, FsxWatcher, FsxArchive

A tree is a function from the paths below its root to a content or `Folder`. `FsxSync` walks the
source, then the destination, compares one path after the other (each content is read when its
path is compared), then performs the steps one primitive at a time with rollback; `ChangeSource`
is another program, which may get in between any two of those steps, and `FailCall`, `FailWalk`
and `FailStep` are calls that fail. `FsxWatcher` captures a path at a time while `ChangeDisk`
changes the tree, and queues the events of a comparison; the iterator that throws out of `Poll`
when a directory vanishes under it is `Throw`. `FsxArchive` writes header blocks, data blocks and
an end block of a tree that changes meanwhile; the file may be cut (`CutArchive`) before it is
extracted under each policy, also when it lies inside the destination.

### logsys: Logger, FileRotation, LoggerConfig (`src/src/logsys.cpp`)

In `Logger` one action is one critical section of the queue's, the router's or a sink's lock or
one update of an atomic counter: admission compares the watermark, counts, and pushes in separate
steps. The worker takes an event, resolves its profile, filters and writes it or keeps it for its
group; `Flush` waits for the queue to drain, then flushes the grouped lines and one sink after the
other; a reconfiguration replaces the router in one critical section, under the running worker, and
after it stops the periodic flush and starts it again if the new configuration has one; only the
destructor stops the worker. A sink is a kind and the number of the routing that made it.

`FileRotation` has one action for every removal, rename and open of `RotateLocked` and
`PruneLocked`; every rename may fail and the process may die in between (`CrashAndRestart` opens
the file again). `LoggerConfig` models the loader as the text search it is.

### httpx: HttpClient, HttpRedirect, HttpTransport, HttpDownload (`src/src/httpx.cpp`)

Each module reduces the layer below it to what it can return. `HttpClient` is `Send` with the
circuit asked under one lock and the outcome recorded under another; an attempt is a step that
succeeds or fails with some error. `HttpRedirect` is one attempt: the hops, what each keeps and
drops, the cookie jar, the proxy. `HttpTransport` has sockets with the bytes under way as tokens;
`Recv` returns any nonempty prefix of them, and peers answer, close and go silent. Every token
carries the request it answers, which the reader cannot see; `ResponseBelongs` looks at it.
`HttpDownload` has the directory, one file per call, and mishaps: a call that fails, a crash, a
stranger who removes a temporary file.

### cfgx: ConfigNode, ConfigTree, ConfigText, ConfigReload (`src/src/cfgx.cpp`)

`ConfigNode` has `GetNode`, `SetNode` and `RemoveNode` as recursive operators over trees of
records, and the kinds of lines that text files consist of. `ConfigTree` keeps the trees of two files, the environment and the runtime operations,
and composes them with the trace that `ComposeLayers` maintains by side effects. `ConfigText`
keeps the lines of one file per format; a save is `Render` over the lines that are there.
`ConfigReload` takes a step for every check and every read of a file, and `Write` truncates and
writes a file between any two of them.

### argtool, tuix: ArgParse, FrameBuffer, TuiScreen, TuiApp, TuiInput

`ArgParse` reads one token per step and applies defaults, fallbacks and rules at the end, as
`Parse` does. `TuiScreen` has one row of the terminal (rows do not interact) with the halves of
wide glyphs, the frame before, and the cursor walk of `RenderFrameDiff`. `TuiApp` is `Tick` with
one event, and what the program does to widgets between ticks. `TuiInput` cuts keys off a stream
on which the rest of a key may come late.

## Runs

A configuration gives the parameters values and names the properties; nothing is replaced.
Several machines that share no state are checked in one run: the module of the run is their sum,
its variable `part` says which of them a behavior runs, and the properties are those of that
machine. Their initial states differ in `part`, so nothing of one hides anything of another.
`PROJECT.json` has one mutant per property, a plausible bug of mapped code under which TLC finds
that property violated in the same run.

`pool_shutdown` (`MCPoolShutdown.cfg`): two producers, two workers, one idle waiter, three posted
tasks, capacity one. Two workers and two producers are the smallest numbers with which a
notification can go to the wrong sleeper; capacity one makes the queue both full and empty all
the time. Stop in both modes, policy changes and Join come at any moment. Tasks and threads of a
kind are symmetric.

`pool_schedule` (`MCPoolSchedule.cfg`): a delayed, a periodic (due twice) and a posted task,
cancellation, thread creation that may fail at each point, and a second start. It also checks
that `ThreadPool` implements `TaskQueue`.

`async_parts` (`MCAsync.cfg`), under fairness: the pool with one producer, one worker, a posted
and a delayed task; a task group with two tasks, one with a token of its own, and two waiters with
two waits each: enough for two waits that overlap and one that comes after them, with and without
a deadline. `OutcomesAgree` and `WaitClassifiesUnheld` are stated and proved in `TaskGroup`; what the run
adds to the proofs is that every wait returns and that the pool makes progress. Deadlock is not checked, since nobody has to submit or wait.

`pool_idle` (`MCPoolIdle.cfg`), `group_overlap` (`MCGroupOverlap.cfg`), `fsx_retry` (`MCFsxRetry.cfg`), `log_profile`
(`MCLoggerConfig.cfg`), `yaml_save` (`MCYamlSave.cfg`): expected to be violated, see *Findings*.

`fsx_batches` (`MCFsxBatches.cfg`), in two parts. `alone`: every plan of two operations over two files
(up to exchanging them), every policy, fail_fast on and off, every set of existing files, no refused
call, one crash anywhere in the forward direction. Two operations let each operate on what the other
has produced, on its backup or on its source. Here the batch implements `AtomicBatch` under the
mapping `LogicalFiles`: the files as they are once the unfinished journal has been undone.
`faults`: the plans that do not name a file twice in one operation, policy Overwrite, both rollback
modes, one refused call or torn append, two crashes, one file that another program creates. `Retried`
bounds the plans whose undo may be interrupted and tried again to plans of `AtomicWrite`, whose
`REPLACE` records carry progress markers; for the others see `fsx_retry`. The other properties are
checked in both parts.

`logging` (`MCLogging.cfg`), under fairness: two producers with a low and a fatal event or two
events of one of them, one caller of Flush, one reconfiguration from mixed to grouped order that
turns on the periodic flush, aborts on fatal events and two profiles, then the destructor.
Watermark one and groups of two are reached. One sink kind: sinks do not interact but through
`Flush`, which visits them one by one. `Backpressure` and `LinesReachSinks` are proved for any
configuration; the run is what their inductive invariants were tried on, and checks progress.

`http` (`MCHttp.cfg`): two callers in each part. Client: three sends, two attempts, a circuit that
opens at two failures and a clock of three values, so that it opens, half-opens and is passed by
a second caller; options and statistics change once. Redirects: two hosts, one a subdomain of the
other, over http and https, two URLs of one origin, two attempts of at most two hops and of at most
three for the request with credentials and a body - enough to stay at home, to leave and to be led
back there -, cookies for one host, for the domain, expired and secure. Transport: all framings on a kept connection, interim responses, one
pooled connection in all, http and socks5 proxies, tunnels, a peer that closes. Downloads: two
calls with the same or different temporary names, two attempts of two chunks, any two mishaps.
`DownloadSafe` is a property of `HttpDownload`, where it is proved; the other three are put together
in `MCHttp`.
Deadlock is checked: `Finished` names the states in which every call has returned.

`toolkit` (`MCToolkit.cfg`): weighted dispatch (three entries, eight sequence numbers, so that
every slot meets every mixture of priorities); rotation (five lines, three slots, files to keep
0 to 3, one crash, one failed rename); reload (two texts, one of them refused by the rules, torn
and missing files, three writes); layers (paths through an object, below it and into an array,
two edits); saved files (nine trees, two of them with empty objects and
lists, drafts with comments, sections in any order and a line
nobody can read, three saves); sync (two files and a directory with contents of equal and unequal
size, every policy, one change, one fault); watcher (four changes); archives (one change, one
cut); command lines of three tokens under four configurations; frames of two drawings in three and
four columns; widgets of two roots, two changes between ticks; keys of one to six bytes, three of
them. These bounds are the smallest at which the mutants of the properties, and others tried while
modelling, show. Deadlock is not checked where a bound simply ends the story: `fsx_batches`, the
toolkit, the two findings on files, `logging`, `async_parts` and `group_overlap`.

## Properties

`PROJECT.json` says which property watches which hazard; the comment above each one says what it
means and which code it is about. Some say less than one may expect, because the code does less:

- `ForeignSurvives` speaks of an undo that runs for the first time. A second recovery takes a file
  that another program has created meanwhile at the destination of a `MOVE` record for the one the
  record is about, and moves it to the record's source.
- `LogOrder`, a part of `LinesReachSinks`: grouped lines are sorted by level when they are flushed
  and lines that are written at once overtake them, so that only lines of one producer and one level
  that take the same way keep their order.
- `WaitClassifiesUnheld`: a task that another wait holds in its hands when this one begins is not
  waited for; see `group_overlap` under *Findings*.
- `CircuitLedger`: any number of calls pass a half-open circuit, a late success closes it again and
  refused calls count as consecutive failures (httpx.cpp:4632, 4810); the property says exactly this.
- `NothingLost` of downloads holds as long as no two calls replace the target at the same moment
  (`clash`): two calls that do can both lose what was there.
- `Fresh`: a write between the load of a file and the recording of its fingerprint (`raced`) is
  recorded as seen although it was never loaded (cfgx.cpp:2671-2696). A reload that fails is not tried
  again until a file changes once more, since `Tick` records what it has seen before it reloads
  (cfgx.cpp:2808); `Fresh` says nothing then.
- `LoadsWhatWasSaved` excludes what the formats cannot hold (TOML: nulls and lists) and, for YAML,
  files with other keys: see *Findings*. It speaks of values: an empty object or list is not kept. INI
  and TOML drop it (as an item of a list, which INI excludes, it leaves a gap), and YAML writes its key
  or dash with nothing below it (cfgx.cpp:4162-4173), which a new file gives back as a null
  (4024-4027); the property says so. INI files with a line nobody can read stay unreadable.
- `EventsTellAll` speaks of a disk that stood still since the capture began; a tree that changes
  during a capture is caught up by the next one.
- `RoundTrip` speaks of archives that were finished; one cut at a member boundary is extracted
  without an error.
- `ScreenShowsFrame`: after `SetRoot` or a resize the previous frame is forgotten but the screen is
  not cleared (tuix.cpp:2337), so blank cells may still show what was there.
- `FocusSound`: a widget that is hidden or disabled while it has the focus keeps its mark when `Tick`
  moves the focus on (tuix.cpp:2405).
- `KeysInOrder`: when the rest of an escape sequence arrives late, its first part is reported as a key of
  its own and the rest as characters (tuix.cpp:574); only that no byte is lost or read twice holds then.

## Fairness

`ThreadPool`'s `FairSpec` assumes weak fairness of each worker, of the scheduler, of each posting
call in progress, of woken idle waiters, and of the owner's steps inside Start and Join: these are
running threads that the operating system schedules, and tasks that end. It assumes strong
fairness of the dispatch of a due scheduled entry, since `FindNextDueLocked` takes the earliest due
time and a periodic entry moves one interval ahead each time. Nothing is assumed about callers: no
Post, Stop, Join or Start ever has to happen. `TaskGroup` assumes that an accepted task is taken
and ends, which `EveryTaskEnds` says of the pool, and that a wait in progress goes on. `Logger`
assumes weak fairness of the worker, of every Flush in progress, and of a reconfiguration or
destruction in progress; nobody has to log, flush, reconfigure or destroy.

## Findings

`pool_idle`: `SchedulerLoop` erases a due one-shot entry (asyncx.cpp:872) before it enqueues the
task (876), in another critical section. A `WaitForIdle` that looks in between finds nothing
queued, running or scheduled and returns OK, against the test
`WaitForIdleIncludesScheduledTasks`. `IdleMeansPostedTasksRan` shows that this is the only gap:
for tasks that were posted directly the wait is right.

`group_overlap`: `Wait` and `WaitUntil` take the list of futures away (asyncx.cpp:1092, 1107). A second
wait that begins while the first is still waiting finds the list empty and returns OK although
accepted tasks are unfinished, against "Wait operations classify every accepted task"
(docs/modules/asyncx.md:54). `WaitClassifiesUnheld` shows that this is the only gap: whatever no other
wait holds is classified.

`fsx_retry`: a `MOVE` record is undone again by a second recovery. For a `CopyFile` over an
existing file that second recovery moves the restored original to the temporary name and then
removes it, and reports success.

`log_profile`: the global `output_order` is searched in the whole text, so one that stands inside
a profile becomes the order of every module (logsys.cpp:1654).

`yaml_save`: saving over a YAML file keeps lines of keys that the saved tree no longer has, and
all items of its lists; the next load brings them back (cfgx.cpp:4648, 4675). The run looks only at
trees without empty objects and lists, which no format keeps.

## Proofs

`DispatchFairnessProofs` proves, for every set of tasks, every capacity and any number of pushes:
`DispatchTypeCorrect`, `CreditInvariant` and `NoPriorityStarves`. `NoStarvation` alone is not
inductive, since it forgets where in the slot array the next dispatch begins. `Credit` adds the
number of slots still before the next slot of a waiting priority to what it has been passed over;
a dispatch of another priority moves at least one of those slots to the other side. The argument
has one lemma per action, and the arithmetic about the slots is done in lemmas on constants.

`ThreadPoolProofs` proves, for every number of producers, workers, waiters and tasks, every
capacity and every number of restarts: `PoolLifecycle`, `PoolTypeCorrect`, `QueueNeverOverfull`,
`StopReachesSleepers`, `ActiveWorkersCounted` and the refinement `PoolImplementsTaskQueue`. All of
them rest on `LifecycleInv`, since Start, Stop and Join touch the flags in one critical section
and the thread objects in another: between the two it must be known that a pool that does not run
has no threads (`ThreadsOfStart`), that an open pool runs and was not told to stop (`FlagsAgree`),
and that nobody who sleeps is anywhere but at a wait (`SleepersWait`). The restart is the delicate
case: Start sets `active_workers_`, the numbering and the dispatch slot back without looking at the
queue, which is right because a worker leaves only an empty queue to which nothing is added any
more (`SlotOfStart`). The proofs use the named assumptions of `TaskQueue` and `ThreadPool` about
the constants: a positive capacity, finitely many threads of disjoint kinds, at least one worker,
and tasks that belong to one way of posting.

`ThreadPoolLedgerProofs` stands on `LifecycleInv` and proves, for the same constants,
`EveryTaskInOnePlace` (`ExactlyOnce`), `TaskCountersAddUp`, `IdleAfterPosted`, `JoinLosesNothing` and
`DispatchesAccounted`. A task changes hands by assignments in different critical sections, so
`ExactlyOnce` alone says nothing of who holds the task in between. `CustodyInv` says it: whoever
carries a task carries one of its kind (`CarriersOfKind`), no two hold the same one-shot task
(`OneCopy`), the places of an accepted task exclude each other (`OnePlace`), and an entry about to be
pushed differs from all that are queued (`NewEntries`) - sequence numbers begin again at a restart,
and only posted tasks can have survived until then. `CleanStop` adds what a stop leaves where no
creation of a thread fails, which is what Join needs; `DispatchesInv` gives each scheduler thread
that is alive one dispatch it may still lose, so that the bound of `SchedulerLedger` is kept when it
does.

The same module proves `NoWakeupLost` and `NoWaiterStranded`. Each change is notified once,
so the argument counts: while a worker sleeps, queued entries are at most as many as the workers
awake on their way to the queue and the notifications still to be sent; while a producer sleeps on
an open pool, free slots are at most as many as the woken producers. A push adds one entry and one
notification, a notification wakes one sleeper or finds none, and a worker that takes an entry is
one less on its way. These inequalities are inductive over `LifecycleInv` and `OpenAgrees` (whoever
closes the pool wakes all producers). For a waiter the argument is the disjunction over who makes the
pool idle; the two exceptions are in the statement, and `pool_idle` shows what comes of the first.

`TaskGroupProofs` proves, for every finite set of tasks and any waiters and waits, `GroupCustody`,
`GroupStatisticsRight` (`OutcomesAgree`) and `WaitsClassify` (`WaitClassifiesUnheld`). `HeldOnce` puts every submitted task
that is not yet counted in one place of one list: `futures_`, the list a wait has swapped out, or the
futures it found unready. `SettledAgree` ties what is counted to what became of the callback, and
`OwedInHands` says that what a wait still owes - the tasks submitted
when it began (`due`) but those other waits had then (`heldByOthers`) - is in its own hands; a wait that gives up puts back
only what it has not counted.

`FsxTransactionProofs` is about `Run` and `RecoverFromJournal` with any files and plans, options, and
numbers of runs, failures and crashes. It proves

- `TypeCorrect`, without any hypothesis;
- `RollbackComplete` (`RolledBackRestores`) if no other program touches the files (`MaxForeign = 0`),
  which is the documented contract (`docs/modules/fsx.md:68`, "The caller must keep these paths under
  exclusive control", and `:115`);
- `RecoveryComplete` (`RecoveredRestores`), `NoContentsLost` (`ContentsSurvive`), `TemporariesRemoved`
  (`NoStagingLeft`) and `UndoSucceeds` (`UndoNeverStuck`) if, besides, nobody repeats an undo that was
  cut off (`Retried = {}`). The last hypothesis is needed: `fsx_retry` is the counterexample without it.

These are the values of the part `alone` of the run `fsx_batches`; its other part lets another program step
in and repeats the undo of plans that consist of atomic writes. What the properties say of the moment a call returns, the
invariant `Inv` must say at every primitive, for a crash may come at any. It says that what is logged leads
back: there is a trail of directories, one more than there are undo records, from what the user had
(`Base`) to the directory of now, and each record undoes one leg (`StepsBack`, `Trail`, `LeadsBack`).
To hand on the trail as a witness replaces the fold that computes it, over which nothing could be
proved. The parts of `Inv` are

- `Types`: besides the types, that temporary names carry the run and the step that chose them, which
  makes those of the next step fresh, and that a record in the journal is one that some step writes or
  what is left of it when the append fails (`CutOf`);
- `RunInv`: the records lead back (`OnTrail`), whatever the handler has still to do keeps that so
  (`Ready`: a set of situations closed under its primitives, up to one that cannot succeed), and the
  records in the journal are those of `ExecuteState` but for a last one that may be damaged (`Logs`);
- `IdleInv`: the journal a crash leaves behind can be taken up (`Resumable`); the last record may be of
  a primitive that never happened, so undoing it must do no harm;
- `UndoInv`: rollback and recovery are somewhere on the trail (`UndoTrail`, `UndoLog`), where an undo
  that failed and was passed over in `BestEffort` leaves its paths to be kept off by the undos after it;
- `CleanupInv`, `Safe`: cleaning up begins after `COMMIT`; until then all old contents are somewhere.

The lemmas say of each handler that its primitives are `Ready` when it begins, for each primitive that
it leads on, and for each way in which an append or a primitive fails what becomes of the trail.
`PathAssumption` keeps files, backups, temporary names and names cut short apart; `JournalAssumption`
says that a missing journal is not a list of records.

`LoggerProofs` proves, for every number of producers and flushing threads, all scripts,
configurations, levels with sinks of their own, group limits and numbers of reconfigurations,
`EventsInOnePlace`, `BackpressureHolds`, `FlushIsBoundaryHolds` and `LinesReachSinksHolds`. The
assumption on the constants is that there are finitely many producers, that levels lie within the
seven there are, and that a group holds at least one line. The invariants are stacked:

- `LedgerInv`: an event is queued, grouped, in the worker's hand or settled, in one place and once
  (`InOnePlace`), and the events of calls in progress are new (`Numbered`). With it the pending counter
  is a sum of cardinalities that every step keeps, which is `Backpressure`.
- `LoggerInv`: a sink that buffers a line was routed (`SinksOK`); how far a Flush is with what it owes:
  after draining it is grouped or settled, afterwards settled and buffered only by sinks the flush has
  not reached (`OwedInFlush`); the same for a fatal event (`FatalOwes`) and the destructor (`ClosedInv`).
  A reconfiguration in the middle of a Flush is harmless because a new routing begins with empty
  sinks and the old ones are closed.
- `OrderInv`: events of a producer are queued after all that was taken before (`QueueOrder`), what the
  worker has in hand comes after what it handled (`HandOrder`), grouped lines after those already
  written as a group (`GroupOrder`), and therefore the order stands in every sink (`SinkOrder`). That no
  line appears twice needs that a sink stands once among those the worker serves (`SinksOnce`,
  `Unwritten`). Flushing a group sorts it by level: `LinesFor` is the list a sink gets, and the lemma
  `LinesInOrder` says that it has the entries that go to it, each once, in an order that agrees with
  the group's within one level.

`FileRotationProofs` proves `RotationLosesOldest` (`OnlyOldestLost`) for all rolling configurations and any
number of lines, slots, renames that fail and deaths of the process. The two hypotheses say what the
constants are: a configuration has a limit and a number of files to keep, both natural numbers, and
the last slot is a natural number. The property speaks of what is lost; `Inv` must say why the files
are in order at every rename:

- `Stages`: when the file is open, and that what is about to be renamed is there;
- `PathNewest`: lines of all other files, and those that are gone, are older than those of `path` and
  its buffer, and the line being written is newer than all; this stands whatever fails;
- `SlotsInOrder`: a slot that is still open has no file yet, so `RotateByTimeLocked` overwrites nothing,
  and pruning the smallest name removes the oldest lines;
- `GapThere`, `NumbersInOrder`, as long as no rename has failed: the chain of `RotateLocked` moves every
  file to a name nobody has, so that only the oldest file is removed, also after a death in the
  middle of an earlier chain;
- `SizesKept`: `current_size_` is what the file and its buffer hold.

`HttpDownloadProofs` proves `DownloadSafeHolds` (`NeverPartial` and `NothingLost`), for every number of
calls that download to one target, any arguments, backup names, chunks, attempts and mishaps. The
inductive invariant `DownloadInv` has five parts:

- `DownloadTypeOK`: the types;
- `FilesOfCalls`: the file of a call is in one place, under its temporary name until it is published,
  which a stranger may remove (`swept`) but no other call, since `Open` creates it only where there is
  none and a call that gives up removes only its own;
- `BodiesWhole`: what is written is nothing or the whole body of the attempt, and from `Finish` on
  that body;
- `BackupChosen`: a backup name is chosen by `Inspect` and not before;
- `ReplacedAlone`: as long as no two calls replaced the target at one moment, whoever replaces it finds
  what it left there (`Found`): a free backup name before it moves the old file to it, no target
  before it publishes or restores, its own file at the target before it removes the backup - and that
  backup is never a file of others.

The assumption `DownloadAssumption` keeps the values a file can be apart (calls, the old file, a file of
others, nothing, a directory) and numbers backups from 1 in the order in which `MakeDownloadBackupPath` tries them
(`.bak`, `.bak.1`, ...; 0 is no backup). That a temporary name is not a backup's is in the model, not
in the code, where `temp_suffix` is the caller's to choose (`.part` by default): callers who choose
`.bak` are outside of the model and of the theorem.

Each of the invariants `LifecycleInv`, `CustodyInv`, `CleanStop`, `OpenAgrees`, `DispatchesInv`,
`GroupInv`, `OrderInv`, `DownloadInv` and the `Inv` of `FileRotationProofs` was checked by TLC on the
instance of the component's run before it was proved; of the `Inv` of `FsxTransactionProofs`, which
quantifies over directories, the trail and the readiness of the handlers in the form of functions
that compute them.

Only model-checked, and why:

- liveness and ENABLED, which the provers do not handle: `PoolProgress`, `WaitReturns`,
  `LoggerProgress`, and that no run deadlocks;
- what the recursive definitions of `HttpTransport`, `ConfigNode`, `ConfigTree`, `ConfigText` and
  `ArgParse` compute,
  and the properties `MCHttp` and `MCToolkit` put together for their sums, whose modules reach such
  definitions;
- of the batches, `ForeignSurvives` and whatever else is to hold while other programs interfere, and
  `ImplementsAtomicBatch`, whose refinement mapping undoes the journal in a fold: what the fold computes
  for every journal would need an induction over data;
- the trees, reloads and the terminal, for which no invariant has been proved yet.

## Not modelled

- asyncx: `WaitAll`/`WaitAny`, `ResetStats`, two owners that Join at once.
- fsx: runs without a journal, journals of earlier versions, the separation check of journal
  paths, links, names and attributes in archives, the content report of `CompareDirectories`.
- logsys: formatting, sinks of the console and the network, statistics windows.
- httpx: TLS and DNS themselves, the syntax of headers, multipart bodies, the asynchronous wrappers,
  downloads whose `temp_suffix` is that of a backup.
- cfgx: the JSON syntax, encrypted values, the registry of parser adapters.
- argtool: help and diagnostics, user converters, environment and configuration as sources.
- tuix: what single widgets draw, the Windows console.
- schemax, textcodec, hashx, utils, sysx, resultx and the command line programs: functions without
  state between calls and wrappers of the operating system, where tests reach what there is; the
  programs call the modelled libraries in sequence.
