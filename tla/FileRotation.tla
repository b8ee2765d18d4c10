----------------------------- MODULE FileRotation -----------------------------
(***************************************************************************)
(* logsys::FileSink: a log file that is rotated by size (path.1 is the     *)
(* newest rotated file, path.keep the oldest) and by time (path.<slot>).   *)
(*                                                                         *)
(* A rotation is a chain of removals and renames whose errors are ignored; *)
(* every step of it is an action, so that the process can die between any  *)
(* two and any rename can fail. A line is its number; all lines have the   *)
(* same size, the unit of sizes. Names: 0 is path itself, 1..keep the      *)
(* numbered files, <<slot>> the files of a time slot.                      *)
(***************************************************************************)
EXTENDS Integers, FiniteSets, SequencesExt, TLC

CONSTANTS
    Rollings,       \* the RollingConfigV2 values: [max, keep, timed]
    MaxLines,       \* bound: lines written
    MaxSlot,        \* bound: the last time slot
    MaxCrashes,     \* bound: process deaths
    MaxFaults       \* bound: renames that fail

VARIABLES
    rolling,        \* rolling_
    dir,            \* the files that exist, with their lines
    file,           \* file_: is it open, and the lines in its buffer
    size,           \* current_size_
    slot,           \* current_time_slot_key_
    clock,          \* the slot of the wall clock
    step,           \* where a Write or a rotation is
    line,           \* history: the last line that was given to Write
    lost,           \* history: lines a rotation removed, by kind of rotation
    faults, crashes

vars == <<rolling, dir, file, size, slot, clock, step, line, lost, faults, crashes>>

Path == <<"path">>
Numbered(i) == IF i = 0 THEN Path ELSE <<"number", i>>
Slot(k) == <<"slot", k>>

Exists(name) == name \in DOMAIN dir
Without(d, name) == [n \in DOMAIN d \ {name} |-> d[n]]
With(d, name, lines) == [n \in DOMAIN d \cup {name} |-> IF n = name THEN lines ELSE d[n]]
Gone(name) == IF Exists(name) THEN ToSet(dir[name]) ELSE {}

\* OpenLocked: append mode, and the size of what is already there.
OpenLocked ==
    /\ dir' = IF Exists(Path) THEN dir ELSE With(dir, Path, <<>>)
    /\ file' = [open |-> TRUE, buffer |-> <<>>]
    /\ slot' = clock

\* fflush and fclose: what was buffered reaches the file.
Flushed == [dir EXCEPT ![Path] = @ \o file.buffer]
Closed == [open |-> FALSE, buffer |-> <<>>]

------------------------------------------------------------------------------
(* Write. *)

WriteBegin ==
    /\ step = <<"out">> /\ line < MaxLines
    /\ line' = line + 1
    /\ step' = <<"opening">>
    /\ UNCHANGED <<rolling, dir, file, size, slot, clock, lost, faults, crashes>>

Reopen ==
    /\ step = <<"opening">>
    /\ IF ~file.open
       THEN OpenLocked /\ size' = IF Exists(Path) THEN Len(dir[Path]) ELSE 0
       ELSE UNCHANGED <<dir, file, size, slot>>
    /\ step' = <<"time">>
    /\ UNCHANGED <<rolling, clock, line, lost, faults, crashes>>

\* The slot has changed: RotateByTimeLocked closes the file.
CheckTime ==
    /\ step = <<"time">>
    /\ IF rolling.timed /\ slot # clock
       THEN /\ step' = <<"timeRemove">>
            /\ dir' = Flushed /\ file' = Closed
       ELSE step' = <<"size">> /\ UNCHANGED <<dir, file>>
    /\ UNCHANGED <<rolling, size, slot, clock, line, lost, faults, crashes>>

TimeRemove ==
    /\ step = <<"timeRemove">>
    /\ dir' = Without(dir, Slot(slot))
    /\ lost' = [lost EXCEPT !.slots = @ \cup Gone(Slot(slot))]
    /\ step' = <<"timeRename">>
    /\ UNCHANGED <<rolling, file, size, slot, clock, line, faults, crashes>>

Rename(from, to) == With(Without(dir, from), to, dir[from])

TimeRename ==
    /\ step = <<"timeRename">>
    /\ \/ dir' = Rename(Path, Slot(slot)) /\ UNCHANGED faults
       \/ faults < MaxFaults /\ faults' = faults + 1 /\ UNCHANGED dir
    /\ step' = <<"prune">>
    /\ UNCHANGED <<rolling, file, size, slot, clock, line, lost, crashes>>

SlotFiles == {k \in 0..MaxSlot : Exists(Slot(k))}

\* PruneTimeRotatedFilesLocked: the files of the smallest names go, one by one.
Prune ==
    /\ step = <<"prune">>
    /\ rolling.keep > 0 /\ Cardinality(SlotFiles) > rolling.keep
    /\ LET oldest == CHOOSE k \in SlotFiles : \A j \in SlotFiles : k <= j
       IN  /\ dir' = Without(dir, Slot(oldest))
           /\ lost' = [lost EXCEPT !.slots = @ \cup Gone(Slot(oldest))]
    /\ UNCHANGED <<rolling, file, size, slot, clock, step, line, faults, crashes>>

TimeReopen ==
    /\ step = <<"prune">>
    /\ rolling.keep = 0 \/ Cardinality(SlotFiles) <= rolling.keep
    /\ OpenLocked
    /\ size' = 0
    /\ step' = <<"size">>
    /\ UNCHANGED <<rolling, clock, line, lost, faults, crashes>>

\* Mutant of CheckSize: the line that is about to be written does not count.
CheckSizeBefore ==
    /\ step = <<"size">>
    /\ slot' = clock
    /\ IF rolling.max > 0 /\ size > rolling.max
       THEN step' = <<"shift", rolling.keep>> /\ dir' = Flushed /\ file' = Closed
       ELSE step' = <<"append">> /\ UNCHANGED <<dir, file>>
    /\ UNCHANGED <<rolling, size, clock, line, lost, faults, crashes>>

\* Too much for the file: RotateLocked closes it and starts with the oldest name.
CheckSize ==
    /\ step = <<"size">>
    /\ slot' = clock
    /\ IF rolling.max > 0 /\ size + 1 > rolling.max
       THEN step' = <<"shift", rolling.keep>> /\ dir' = Flushed /\ file' = Closed
       ELSE step' = <<"append">> /\ UNCHANGED <<dir, file>>
    /\ UNCHANGED <<rolling, size, clock, line, lost, faults, crashes>>

\* One turn of the loop: remove the target, if it is the last one or something moves there.
ShiftRemove(i) ==
    /\ step = <<"shift", i>> /\ i > 0
    /\ IF i = rolling.keep \/ Exists(Numbered(i - 1))
       THEN /\ dir' = Without(dir, Numbered(i))
            /\ lost' = [lost EXCEPT !.numbered = @ \cup Gone(Numbered(i))]
       ELSE UNCHANGED <<dir, lost>>
    /\ step' = <<"shiftRename", i>>
    /\ UNCHANGED <<rolling, file, size, slot, clock, line, faults, crashes>>

ShiftRename(i) ==
    /\ step = <<"shiftRename", i>>
    /\ \/ Exists(Numbered(i - 1)) /\ dir' = Rename(Numbered(i - 1), Numbered(i)) /\ UNCHANGED faults
       \/ ~Exists(Numbered(i - 1)) /\ UNCHANGED <<dir, faults>>
       \/ Exists(Numbered(i - 1)) /\ faults < MaxFaults /\ faults' = faults + 1 /\ UNCHANGED dir
    /\ step' = <<"shift", i - 1>>
    /\ UNCHANGED <<rolling, file, size, slot, clock, line, lost, crashes>>

\* The size is 0 again even when the file could not be moved away.
ShiftReopen ==
    /\ step = <<"shift", 0>>
    /\ OpenLocked
    /\ size' = 0
    /\ step' = <<"append">>
    /\ UNCHANGED <<rolling, clock, line, lost, faults, crashes>>

AppendLine ==
    /\ step = <<"append">>
    /\ file' = [file EXCEPT !.buffer = Append(@, line)]
    /\ size' = size + 1
    /\ step' = <<"out">>
    /\ UNCHANGED <<rolling, dir, slot, clock, line, lost, faults, crashes>>

------------------------------------------------------------------------------
(* Flush, the clock, and the death and the new start of the process. *)

Flush ==
    /\ step = <<"out">> /\ file.buffer # <<>>
    /\ dir' = Flushed /\ file' = [file EXCEPT !.buffer = <<>>]
    /\ UNCHANGED <<rolling, size, slot, clock, step, line, lost, faults, crashes>>

\* Bound: the clock does not go back.
ClockTick ==
    /\ rolling.timed /\ clock < MaxSlot
    /\ clock' = clock + 1
    /\ UNCHANGED <<rolling, dir, file, size, slot, step, line, lost, faults, crashes>>

\* What is buffered dies with the process; the next one opens the file again.
CrashAndRestart ==
    /\ crashes < MaxCrashes
    /\ crashes' = crashes + 1
    /\ OpenLocked
    /\ size' = IF Exists(Path) THEN Len(dir[Path]) ELSE 0
    /\ step' = <<"out">>
    /\ UNCHANGED <<rolling, clock, line, lost, faults>>

Init ==
    /\ rolling \in Rollings
    /\ dir = [n \in {Path} |-> <<>>] /\ file = [open |-> TRUE, buffer |-> <<>>] /\ size = 0
    /\ slot = 0 /\ clock = 0 /\ step = <<"out">>
    /\ line = 0 /\ lost = [slots |-> {}, numbered |-> {}]
    /\ faults = 0 /\ crashes = 0

Next ==
    \/ WriteBegin \/ Reopen \/ CheckTime \/ TimeRemove \/ TimeRename \/ Prune \/ TimeReopen
    \/ CheckSize \/ ShiftReopen \/ AppendLine
    \/ \E i \in 1..rolling.keep : ShiftRemove(i) \/ ShiftRename(i)
    \/ Flush \/ ClockTick \/ CrashAndRestart

Spec == Init /\ [][Next]_vars

------------------------------------------------------------------------------
NumberedNames == {Numbered(i) : i \in 0..rolling.keep} \cap DOMAIN dir
SlotNames == {Slot(k) : k \in 0..MaxSlot} \cap DOMAIN dir
LinesOf(names) == UNION {ToSet(dir[n]) : n \in names}

\* Renames in a chain, none of which is checked. Wherever the process dies, a size
\* rotation removes only lines older than all that is left in path and the numbered files,
\* and pruning only lines older than what is left in path and the slots. A rename that
\* fails costs at most lines older than those of path (the next turn of the loop removes
\* the file that stayed behind). No line is ever in two files, and without failures, and
\* with a file to keep, no file grows beyond the limit.
OnlyOldestLost ==
    /\ faults = 0 =>
          /\ \A x \in lost.numbered, y \in LinesOf(NumberedNames) : x < y
          /\ \A x \in lost.slots, y \in LinesOf(SlotNames) : x < y
    /\ \A x \in lost.numbered \cup lost.slots, y \in LinesOf({Path} \cap DOMAIN dir) : x < y
    /\ \A m, n \in DOMAIN dir : m # n => ToSet(dir[m]) \cap ToSet(dir[n]) = {}
    /\ faults = 0 /\ rolling.keep > 0 /\ rolling.max > 0 =>
          \A n \in DOMAIN dir : Len(dir[n]) <= rolling.max
==============================================================================
