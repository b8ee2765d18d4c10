------------------------------ MODULE MCToolkit ------------------------------
(***************************************************************************)
(* Instances for TLC of DispatchFairness and of the machines that need few *)
(* states. They share nothing: a behavior runs the one that part names,    *)
(* whose variables are the first of x1 to x15; the others hold None.       *)
(***************************************************************************)
EXTENDS DispatchFairness, ConfigCases, ToolCases

CONSTANTS TornText, Missing, Empty, Unparsed, BadName, Tar, Dashed

VARIABLES part, x1, x2, x3, x4, x5, x6, x7, x8, x9, x10, x11, x12, x13, x14, x15

Rotation == INSTANCE FileRotation WITH
    rolling <- x1, dir <- x2, file <- x3, size <- x4, slot <- x5, clock <- x6, step <- x7, line <- x8,
    lost <- x9, faults <- x10, crashes <- x11,
    Rollings <- RollingConfigs, MaxLines <- 5, MaxSlot <- 2, MaxCrashes <- 1, MaxFaults <- 1

Reload == INSTANCE ConfigReload WITH
    disk <- x1, options <- x2, current <- x3, currentTrace <- x4, tracked <- x5, pending <- x6, polled <- x7,
    audit <- x8, pc <- x9, seen <- x10, layers <- x11, outcome <- x12, runtime <- x13, raced <- x14,
    writes <- x15,
    Texts <- {keyA, keyB}, Rejected <- {keyB}, Torn <- TornText, Options <- ReloadOptions, MaxWrites <- 3

Tree == INSTANCE ConfigTree WITH
    trees <- x1, env <- x2, ops <- x3, append <- x4, composed <- x5, trace <- x6, before <- x7, diff <- x8,
    accepted <- x9, dirty <- x10, edit <- x11, edits <- x12,
    Paths <- EditedPaths, Values <- EditedValues, Bases <- BaseTrees, EnvPaths <- VariablePaths, Policy <- StrictForA,
    Rules <- OneRuleOfEachKind, MaxEdits <- 2

Text == INSTANCE ConfigText WITH
    files <- x1, last <- x2, saves <- x3,
    Trees <- SavedTrees, Drafts <- FileDrafts, MaxSaves <- 3

Sync == INSTANCE FsxSync WITH
    src <- x1, dst <- x2, call <- x3, job <- x4, changes <- x5, faults <- x6, first <- x7, past <- x8,
    Order <- SyncOrder, Contents <- 1..3, IsFolder <- IsFolderMark, SizeOf <- SyncSize, Trees <- SyncTrees,
    Calls <- SyncCalls, MaxChanges <- 1, MaxFaults <- 1

Watcher == INSTANCE FsxWatcher WITH
    disk <- x1, watching <- x2, last <- x3, pending <- x4, scan <- x5, changes <- x6, view <- x7, calm <- x8,
    Paths <- WatchPaths, Order <- WatchOrder, Root <- FileA, IsFolder <- IsFolderSnapshot, Absent <- NoSnapshot,
    MaxChanges <- 4

Archive == INSTANCE FsxArchive WITH
    src <- x1, dst <- x2, call <- x3, job <- x4, tar <- x5, changes <- x6, cuts <- x7, first <- x8, past <- x9,
    Order <- SyncOrder, Contents <- 0..2, Empty <- 0, IsFolder <- IsFolderMark, SizeOf <- ArchiveSize,
    Trees <- ArchiveTrees, Calls <- ArchiveCalls, MaxChanges <- 1, MaxCuts <- 1

Args == INSTANCE ArgParse WITH
    spec <- x1, argv <- x2, scan <- x3,
    Specs <- ParserSpecs, Tokens <- CommandLineTokens, MaxTokens <- 3

Buffer == INSTANCE FrameBuffer WITH WidthOf <- GlyphWidth, Plain <- "plain", Space <- " "
Frames == [w \in {3, 4} |-> Buffer!DrawnFrames(DrawnScreens, w)]

Screen == INSTANCE TuiScreen WITH
    screen <- x1, previous <- x2, dropped <- x3, painted <- x4,
    WidthOf <- GlyphWidth, Plain <- "plain", Space <- " ", FramesOf <- Frames

App == INSTANCE TuiApp WITH
    root <- x1, visible <- x2, enabled <- x3, flagged <- x4, focus <- x5, bounds <- x6, height <- x7,
    lastHeight <- x8, repaint <- x9, running <- x10, acted <- x11, left <- x12, changes <- x13,
    KindOf <- WidgetKind, Children <- WidgetChildren, Focusable <- {"ok", "name", "list", "quit"}, Gap <- LayoutGap,
    Padding <- LayoutPadding, Weight <- LayoutWeight, Roots <- {"main", "other"}, Heights <- {2, 8},
    Events <- InputEvents, MaxChanges <- 2

Input == INSTANCE TuiInput WITH
    stream <- x1, coming <- x2, mode <- x3, consumed <- x4, pressed <- x5, apart <- x6,
    Keys <- DOMAIN KeyBytes, BytesOf <- KeyBytes, Unsupported <- {"f5"}, Esc <- "esc", Bracket <- "[",
    Letters <- {"A", "x"}, Tilde <- "~", Modes <- {"ExclusiveConsume", "PeekOnly"}, MaxKeys <- 3

Without15 == x15 = None
Without14 == x14 = None /\ Without15
Without13 == x13 = None /\ Without14
Without12 == x12 = None /\ Without13
Without11 == x11 = None /\ Without12
Without10 == x10 = None /\ Without11
Without9 == x9 = None /\ Without10
Without8 == x8 = None /\ Without9
Without7 == x7 = None /\ Without8
Without6 == x6 = None /\ Without7
Without5 == x5 = None /\ Without6
Without4 == x4 = None /\ Without5

Tail15 == <<x15>>
Tail14 == <<x14, Tail15>>
Tail13 == <<x13, Tail14>>
Tail12 == <<x12, Tail13>>
Tail11 == <<x11, Tail12>>
Tail10 == <<x10, Tail11>>
Tail9 == <<x9, Tail10>>
Tail8 == <<x8, Tail9>>
Tail7 == <<x7, Tail8>>
Tail6 == <<x6, Tail7>>
Tail5 == <<x5, Tail6>>
Tail4 == <<x4, Tail5>>

MCInit ==
    /\ Init
    /\ \/ part = "dispatch" /\ x1 = None /\ x2 = None /\ x3 = None /\ Without4
       \/ part = "rotation" /\ Rotation!Init /\ Without12
       \/ part = "reload" /\ Reload!Init
       \/ part = "tree" /\ Tree!Init /\ Without13
       \/ part = "text" /\ Text!Init /\ Without4
       \/ part = "sync" /\ Sync!Init /\ Without9
       \/ part = "watcher" /\ Watcher!Init /\ Without9
       \/ part = "archive" /\ Archive!Init /\ Without10
       \/ part = "args" /\ Args!Init /\ Without4
       \/ part = "screen" /\ Screen!Init /\ Without5
       \/ part = "app" /\ App!Init /\ Without14
       \/ part = "input" /\ Input!Init /\ Without7

IsPart(name) == part = name /\ UNCHANGED part

QueueStep == IsPart("dispatch") /\ Next /\ UNCHANGED <<x1, x2, x3, Tail4>>
RotationStep == IsPart("rotation") /\ Rotation!Next /\ UNCHANGED <<vars, Tail12>>
ReloadStep == IsPart("reload") /\ Reload!Next /\ UNCHANGED vars
TreeStep == IsPart("tree") /\ Tree!Next /\ UNCHANGED <<vars, Tail13>>
TextStep == IsPart("text") /\ Text!Next /\ UNCHANGED <<vars, Tail4>>
SyncStep == IsPart("sync") /\ Sync!Next /\ UNCHANGED <<vars, Tail9>>
WatcherStep == IsPart("watcher") /\ Watcher!Next /\ UNCHANGED <<vars, Tail9>>
ArchiveStep == IsPart("archive") /\ Archive!Next /\ UNCHANGED <<vars, Tail10>>
ArgsStep == IsPart("args") /\ Args!Next /\ UNCHANGED <<vars, Tail4>>
ScreenStep == IsPart("screen") /\ Screen!Next /\ UNCHANGED <<vars, Tail5>>
AppStep == IsPart("app") /\ App!Next /\ UNCHANGED <<vars, Tail14>>
InputStep == IsPart("input") /\ Input!Next /\ UNCHANGED <<vars, Tail7>>

MCNext ==
    \/ QueueStep \/ RotationStep \/ ReloadStep \/ TreeStep \/ TextStep \/ SyncStep \/ WatcherStep
    \/ ArchiveStep \/ ArgsStep \/ ScreenStep \/ AppStep \/ InputStep

MCSpec == MCInit /\ [][MCNext]_<<part, vars, x1, x2, x3, x4, x5, x6, x7, x8, x9, x10, x11, x12, x13, x14, x15>>

(***************************************************************************)
(* Properties: those of the machines, each for its own behaviors.          *)
(***************************************************************************)
\* A rotation, wherever it is cut short, costs only the oldest lines (FileSink).
OnlyOldestLost == part = "rotation" => Rotation!OnlyOldestLost

\* A reloader that would report no change is up to date with its files, and what it made active passed the rules
\* and is what the audit trail shows (PollReloader::Tick, ReloadNow, RestoreSnapshot).
ReloadSound == part = "reload" => Reload!Fresh /\ Reload!ActiveIsAudited

\* Edits stay where they were made, the source trace names for every leaf the layer it came from, a difference is
\* reported exactly when there is one, and a configuration is accepted exactly when all rules hold (SetNode,
\* RemoveNode, ComposeLayers, BuildDiffEntries, Validate).
TreesSound ==
    part = "tree" => Tree!EditsAreLocal /\ Tree!TraceExact /\ Tree!DiffExact /\ Tree!AcceptedMeansRulesHold

\* A saved configuration loads again with the values that were saved (SaveToFile, LoadFromFile).
LoadsWhatWasSaved == part = "text" => Text!LoadsWhatWasSaved

\* A sync or a tree copy that succeeds mirrors the source, one that fails leaves the destination as it was, although
\* the source changes and calls fail (BuildSyncPlan, ExecuteSyncPlan, CopyTree).
SyncSound == part = "sync" => Sync!MirrorsSource /\ Sync!FailureRestores

\* The events of a watch lead the caller from what was there to what is there (PollingFileWatcher).
EventsTellAll == part = "watcher" => Watcher!EventsTellAll

\* Archive and extraction bring back what was archived and touch nothing else (CreateArchive, ExtractArchive).
ArchiveSound == part = "archive" => Archive!RoundTrip /\ Archive!KeepsOthers

\* An accepted command line satisfies the parser's configuration and means the same when it is spelled in full
\* (Parser::Parse).
ArgsSound == part = "args" => Args!AcceptedMeetsSpec /\ Args!SameMeaning

\* After a repaint the terminal shows the frame (FrameBuffer, RenderFrameDiff).
ScreenShowsFrame == part = "screen" => Screen!ScreenShowsFrame

\* Focus and its marks agree, Tab reaches every widget that can have the focus, and a layout gives out every row
\* once (Application::Tick, VerticalLayout::Layout).
WidgetsSound == part = "app" => App!FocusSound /\ App!TabVisitsAll /\ App!RowsAreShared

\* The keys read are the keys pressed, in order (StreamInputSource::Poll).
KeysInOrder == part = "input" => Input!KeysInOrder
==============================================================================
