-------------------------- MODULE FileRotationProofs --------------------------
(***************************************************************************)
(* logsys::FileSink, for all rolling configurations, any number of lines,  *)
(* time slots, renames that fail and process deaths: a rotation, wherever  *)
(* it is cut short, costs only the oldest lines.                           *)
(***************************************************************************)
EXTENDS FileRotation, FiniteSetTheorems, SequenceTheorems, WellFoundedInduction, TLAPS

Names == {Path} \cup {Numbered(i) : i \in Nat} \cup {Slot(k) : k \in Nat}
Dirs == UNION {[S -> Seq(Nat)] : S \in SUBSET Names}

\* The lines of the file n and how many there are; none if there is no such file.
At(d, n) == IF n \in DOMAIN d THEN ToSet(d[n]) ELSE {}
Count(d, n) == IF n \in DOMAIN d THEN Len(d[n]) ELSE 0

\* The names are different.
LEMMA NamesDiffer ==
    /\ \A i \in Nat : (Numbered(i) = Path <=> i = 0) /\ Numbered(i) \in Names
    /\ \A i, j \in Nat : Numbered(i) = Numbered(j) => i = j
    /\ \A i, k \in Nat : Numbered(i) # Slot(k)
    /\ \A j, k \in Nat : Slot(j) = Slot(k) => j = k
    /\ \A k \in Nat : Slot(k) # Path /\ Slot(k) \in Names
    /\ Path = Numbered(0) /\ Path \in Names
<1>1. \A i \in Nat : <<"number", i>> # Path /\ <<"slot", i>> # Path
  <2> SUFFICES ASSUME NEW i \in Nat PROVE <<"number", i>> # Path /\ <<"slot", i>> # Path
      OBVIOUS
  <2>1. Len(<<"number", i>>) = 2 /\ Len(<<"slot", i>>) = 2 /\ Len(Path) = 1
      BY DEF Path
  <2> QED
      BY <2>1
<1>2. \A i, j \in Nat : (<<"number", i>> = <<"number", j>> => i = j) /\ (<<"slot", i>> = <<"slot", j>> => i = j)
    OBVIOUS
<1>3. \A i, k \in Nat : <<"number", i>> # <<"slot", k>>
  <2> SUFFICES ASSUME NEW i \in Nat, NEW k \in Nat PROVE <<"number", i>> # <<"slot", k>>
      OBVIOUS
  <2>1. <<"number", i>>[1] = "number" /\ <<"slot", k>>[1] = "slot"
      OBVIOUS
  <2> QED
      BY <2>1
<1> QED
    BY <1>1, <1>2, <1>3 DEF Names, Numbered, Slot

\* The steps of Write and of the two rotations; i counts down from keep.
Plain == {<<"out">>, <<"opening">>, <<"time">>, <<"timeRemove">>, <<"timeRename">>, <<"prune">>, <<"size">>, <<"append">>}
Steps(keep) == Plain \cup {<<"shift", i>> : i \in 0..keep} \cup {<<"shiftRename", i>> : i \in 1..keep}

\* The steps are different.
LEMMA StepsDiffer ==
    /\ \A i \in Nat : <<"shift", i>> \notin Plain /\ <<"shiftRename", i>> \notin Plain
    /\ \A i, j \in Nat : /\ <<"shift", i>> # <<"shiftRename", j>>
                         /\ <<"shift", i>> = <<"shift", j>> => i = j
                         /\ <<"shiftRename", i>> = <<"shiftRename", j>> => i = j
<1>1. \A s \in Plain : Len(s) = 1
    BY DEF Plain
<1>2. \A i \in Nat : Len(<<"shift", i>>) = 2 /\ Len(<<"shiftRename", i>>) = 2
    OBVIOUS
<1>3. \A i, j \in Nat : <<"shift", i>> # <<"shiftRename", j>>
  <2> SUFFICES ASSUME NEW i \in Nat, NEW j \in Nat PROVE <<"shift", i>> # <<"shiftRename", j>>
      OBVIOUS
  <2>1. <<"shift", i>>[1] = "shift" /\ <<"shiftRename", j>>[1] = "shiftRename"
      OBVIOUS
  <2> QED
      BY <2>1
<1>4. \A i, j \in Nat : (<<"shift", i>> = <<"shift", j>> => i = j) /\ (<<"shiftRename", i>> = <<"shiftRename", j>> => i = j)
    OBVIOUS
<1> QED
    BY <1>1, <1>2, <1>3, <1>4

------------------------------------------------------------------------------
(* What the primitives do to the lines of the files. *)

\* All files but those of N are as before.
Else(d, e, N) ==
    \A n \in Names \ N : (n \in DOMAIN e <=> n \in DOMAIN d) /\ At(e, n) = At(d, n) /\ Count(e, n) = Count(d, n)

\* A directory is a function from names to lines.
LEMMA DirIs ==
    \A d : d \in Dirs <=> d \in [DOMAIN d -> Seq(Nat)] /\ DOMAIN d \subseteq Names
BY DEF Dirs

\* The lines are numbers.
LEMMA LinesAreNumbers ==
    ASSUME NEW d \in Dirs, NEW n
    PROVE  At(d, n) \subseteq Nat /\ Count(d, n) \in Nat /\ (Count(d, n) = 0 => At(d, n) = {})
<1>1. d \in [DOMAIN d -> Seq(Nat)]
    BY DirIs
<1>2. CASE n \in DOMAIN d
  <2>1. d[n] \in Seq(Nat)
      BY <1>1, <1>2
  <2> QED
      BY <2>1, <1>2 DEF At, Count, ToSet
<1> QED
    BY <1>2 DEF At, Count

\* A file is removed (remove).
LEMMA RemoveDoes ==
    ASSUME NEW d \in Dirs, NEW n \in Names
    PROVE  /\ Without(d, n) \in Dirs /\ n \notin DOMAIN Without(d, n) /\ At(Without(d, n), n) = {}
           /\ Else(d, Without(d, n), {n})
<1>1. d \in [DOMAIN d -> Seq(Nat)] /\ DOMAIN d \subseteq Names
    BY DirIs
<1>2. DOMAIN Without(d, n) = DOMAIN d \ {n} /\ \A m \in DOMAIN d \ {n} : Without(d, n)[m] = d[m]
    BY DEF Without
<1>3. Without(d, n) \in [DOMAIN d \ {n} -> Seq(Nat)]
    BY <1>1 DEF Without
<1> QED
    BY <1>1, <1>2, <1>3, DirIs DEF At, Count, Else

\* A file is there with these lines.
LEMMA PutDoes ==
    ASSUME NEW d \in Dirs, NEW n \in Names, NEW s \in Seq(Nat)
    PROVE  /\ With(d, n, s) \in Dirs /\ n \in DOMAIN With(d, n, s) /\ With(d, n, s)[n] = s
           /\ At(With(d, n, s), n) = ToSet(s) /\ Count(With(d, n, s), n) = Len(s)
           /\ Else(d, With(d, n, s), {n})
<1>1. d \in [DOMAIN d -> Seq(Nat)] /\ DOMAIN d \subseteq Names
    BY DirIs
<1>2. DOMAIN With(d, n, s) = DOMAIN d \cup {n} /\ With(d, n, s)[n] = s
      /\ \A m \in DOMAIN d \ {n} : With(d, n, s)[m] = d[m]
    BY DEF With
<1>3. With(d, n, s) \in [DOMAIN d \cup {n} -> Seq(Nat)]
    BY <1>1 DEF With
<1> QED
    BY <1>1, <1>2, <1>3, DirIs DEF At, Count, Else

\* A file gets another name (rename).
LEMMA RenameDoes ==
    ASSUME NEW d \in Dirs, NEW n \in DOMAIN d, NEW m \in Names, m # n, NEW e, e = With(Without(d, n), m, d[n])
    PROVE  /\ e \in Dirs /\ n \notin DOMAIN e /\ At(e, n) = {} /\ m \in DOMAIN e
           /\ At(e, m) = At(d, n) /\ Count(e, m) = Count(d, n) /\ Else(d, e, {n, m})
<1>1. n \in Names /\ d[n] \in Seq(Nat)
    BY DirIs
<1>2. Without(d, n) \in Dirs /\ n \notin DOMAIN Without(d, n) /\ At(Without(d, n), n) = {} /\ Else(d, Without(d, n), {n})
    BY <1>1, RemoveDoes
<1>3. /\ e \in Dirs /\ m \in DOMAIN e /\ At(e, m) = ToSet(d[n]) /\ Count(e, m) = Len(d[n])
      /\ Else(Without(d, n), e, {m})
    BY <1>1, <1>2, PutDoes
<1> QED
    BY <1>1, <1>2, <1>3 DEF Else, At, Count

\* The lines of two lists, and of one more line (fwrite).
LEMMA LinesOfLists ==
    ASSUME NEW s \in Seq(Nat), NEW t \in Seq(Nat), NEW x \in Nat
    PROVE  /\ s \o t \in Seq(Nat) /\ ToSet(s \o t) = ToSet(s) \cup ToSet(t) /\ Len(s \o t) = Len(s) + Len(t)
           /\ Append(s, x) \in Seq(Nat) /\ ToSet(Append(s, x)) = ToSet(s) \cup {x} /\ Len(Append(s, x)) = Len(s) + 1
<1> DEFINE c == s \o t
           a == Append(s, x)
<1>1. /\ c \in Seq(Nat) /\ Len(c) = Len(s) + Len(t) /\ Len(s) \in Nat /\ Len(t) \in Nat
      /\ DOMAIN c = 1..Len(s) + Len(t) /\ DOMAIN s = 1..Len(s) /\ DOMAIN t = 1..Len(t)
      /\ \A i \in 1..Len(s) : c[i] = s[i]
      /\ \A i \in 1..Len(t) : c[Len(s) + i] = t[i]
    OBVIOUS
<1>2. a \in Seq(Nat) /\ Len(a) = Len(s) + 1 /\ DOMAIN a = 1..Len(s) + 1 /\ a[Len(s) + 1] = x /\ \A i \in 1..Len(s) : a[i] = s[i]
    OBVIOUS
<1> HIDE DEF c, a
<1>3. ToSet(s) \cup ToSet(t) \subseteq ToSet(c)
  <2>1. \A i \in DOMAIN s : i \in DOMAIN c /\ c[i] = s[i]
      BY <1>1
  <2>2. \A i \in DOMAIN t : Len(s) + i \in DOMAIN c /\ c[Len(s) + i] = t[i]
      BY <1>1
  <2> QED
      BY <2>1, <2>2 DEF ToSet
<1>4. ToSet(c) \subseteq ToSet(s) \cup ToSet(t)
  <2> SUFFICES ASSUME NEW i \in 1..Len(s) + Len(t) PROVE c[i] \in ToSet(s) \cup ToSet(t)
      BY <1>1 DEF ToSet
  <2>1. CASE i <= Len(s)
    <3>1. i \in DOMAIN s /\ c[i] = s[i]
        BY <2>1, <1>1
    <3> QED
        BY <3>1 DEF ToSet
  <2>2. CASE i > Len(s)
    <3>1. i - Len(s) \in 1..Len(t) /\ c[i] = t[i - Len(s)]
      <4>1. Len(s) \in Nat /\ Len(t) \in Nat
          BY <1>1
      <4>2. i \in Nat /\ i > Len(s) /\ i <= Len(s) + Len(t)
          BY <2>2, <4>1
      <4>3. i - Len(s) \in 1..Len(t) /\ Len(s) + (i - Len(s)) = i
          BY <4>1, <4>2
      <4>4. c[Len(s) + (i - Len(s))] = t[i - Len(s)]
          BY <1>1, <4>3
      <4> QED
          BY <4>3, <4>4
    <3> QED
        BY <3>1, <1>1 DEF ToSet
  <2> QED
      BY <2>1, <2>2, <1>1
<1>5. ToSet(a) = ToSet(s) \cup {x}
  <2>1. \A i \in DOMAIN s : i \in DOMAIN a /\ a[i] = s[i]
      BY <1>1, <1>2
  <2>2. Len(s) + 1 \in DOMAIN a /\ \A i \in DOMAIN a : i \in DOMAIN s \/ i = Len(s) + 1
      BY <1>1, <1>2, SMTT(30)
  <2> QED
      BY <2>1, <2>2, <1>2 DEF ToSet
<1> QED
    BY <1>1, <1>2, <1>3, <1>4, <1>5 DEF c, a

\* The buffer reaches the file (fflush).
LEMMA FlushDoes ==
    ASSUME NEW d \in Dirs, Path \in DOMAIN d, NEW b \in Seq(Nat), NEW e, e = [d EXCEPT ![Path] = @ \o b]
    PROVE  /\ e \in Dirs /\ Path \in DOMAIN e /\ Else(d, e, {Path})
           /\ At(e, Path) = At(d, Path) \cup ToSet(b) /\ Count(e, Path) = Count(d, Path) + Len(b)
<1>1. d \in [DOMAIN d -> Seq(Nat)] /\ DOMAIN d \subseteq Names /\ d[Path] \in Seq(Nat)
    BY DirIs
<1>2. DOMAIN e = DOMAIN d /\ e[Path] = d[Path] \o b /\ \A n \in DOMAIN d \ {Path} : e[n] = d[n]
    BY <1>1
<1>3. d[Path] \o b \in Seq(Nat) /\ ToSet(d[Path] \o b) = ToSet(d[Path]) \cup ToSet(b)
      /\ Len(d[Path] \o b) = Len(d[Path]) + Len(b)
    BY <1>1, LinesOfLists
<1>4. e \in [DOMAIN d -> Seq(Nat)]
    BY <1>1, <1>3
<1> QED
    BY <1>1, <1>2, <1>3, <1>4, DirIs DEF At, Count, Else

\* The file is opened, and made if there is none (fopen).
LEMMA OpenDoes ==
    ASSUME NEW d \in Dirs, NEW e, e = IF Path \in DOMAIN d THEN d ELSE With(d, Path, <<>>)
    PROVE  /\ e \in Dirs /\ Path \in DOMAIN e /\ Else(d, e, {Path})
           /\ At(e, Path) = At(d, Path) /\ Count(e, Path) = Count(d, Path)
<1>1. Path \in Names /\ <<>> \in Seq(Nat) /\ ToSet(<<>>) = {} /\ Len(<<>>) = 0
    BY NamesDiffer DEF ToSet
<1>2. CASE Path \in DOMAIN d
    BY <1>2 DEF Else
<1>3. CASE Path \notin DOMAIN d
    BY <1>1, <1>3, PutDoes DEF At, Count
<1> QED
    BY <1>2, <1>3

------------------------------------------------------------------------------
(* The inductive invariant. *)

Types ==
    /\ rolling \in [max : Nat, keep : Nat, timed : BOOLEAN]
    /\ dir \in Dirs /\ file \in [open : BOOLEAN, buffer : Seq(Nat)]
    /\ size \in Nat /\ slot \in Nat /\ clock \in Nat /\ line \in Nat /\ faults \in Nat
    /\ lost \in [slots : SUBSET Nat, numbered : SUBSET Nat]
    /\ step \in Steps(rolling.keep)

\* An open file exists; a rotation has closed it, and what is to be renamed is there.
Stages ==
    /\ file.open <=> step \in {<<"out">>, <<"opening">>, <<"time">>, <<"size">>, <<"append">>}
    /\ file.open \/ step \in {<<"timeRemove">>, <<"timeRename">>} => Path \in DOMAIN dir
    /\ ~file.open => file.buffer = <<>>
    /\ step \in {<<"timeRemove">>, <<"timeRename">>, <<"prune">>} => slot < clock

\* The lines of path, on the disk and in the buffer; those of a set of lines of files are all older.
Current == At(dir, Path) \cup ToSet(file.buffer)
Older(X, Y) == \A x \in X, y \in Y : x < y

NotAfterLine(X) == \A x \in X : x <= line /\ (step # <<"out">> => x < line)

\* The line that is being written is the newest, and the lines of path are newer than all others.
PathNewest ==
    /\ \A n \in Names : NotAfterLine(At(dir, n))
    /\ NotAfterLine(ToSet(file.buffer) \cup lost.slots \cup lost.numbered)
    /\ \A n \in Names \ {Path} : Older(At(dir, n), Current)
    /\ Older(lost.slots \cup lost.numbered, Current)
    /\ \A m, n \in Names : m # n => At(dir, m) \cap At(dir, n) = {}

\* There are files of earlier slots only, older slots hold older lines, and those that are gone are older still.
SlotsInOrder ==
    /\ slot <= clock
    /\ \A k \in Nat : Slot(k) \in DOMAIN dir => k <= slot /\ (k = slot => step = <<"prune">>)
    /\ \A j, k \in Nat : j < k => Older(At(dir, Slot(j)), At(dir, Slot(k)))
    /\ \A k \in Nat : Older(lost.slots, At(dir, Slot(k)))

\* Where the turn of the loop is, nothing is under the name to move to; and nothing is at path
\* when it is opened after a rotation.
GapThere ==
    /\ \A i \in 0..rolling.keep : step = <<"shift", i>> /\ i < rolling.keep => Numbered(i) \notin DOMAIN dir
    /\ \A i \in 1..rolling.keep : step = <<"shiftRename", i>> => Numbered(i) \notin DOMAIN dir
    /\ step = <<"prune">> => Path \notin DOMAIN dir

\* Files of higher numbers hold older lines, and those that are gone are older still.
NumbersInOrder ==
    /\ \A i, j \in 1..rolling.keep : j < i => Older(At(dir, Numbered(i)), At(dir, Numbered(j)))
    /\ \A i \in 1..rolling.keep : Older(lost.numbered, At(dir, Numbered(i)))

\* current_size_ is the size of the file, and no file is larger than the limit.
SizesKept ==
    /\ file.open => size = Count(dir, Path) + Len(file.buffer) /\ size <= rolling.max
    /\ \A n \in Names : Count(dir, n) <= rolling.max
    /\ step = <<"append">> => size < rolling.max

Inv ==
    /\ Types /\ Stages /\ PathNewest /\ SlotsInOrder
    /\ faults = 0 => GapThere /\ NumbersInOrder
    /\ faults = 0 /\ rolling.keep > 0 /\ rolling.max > 0 => SizesKept

\* Lines of all files are numbers, in the buffer too.
LEMMA CurrentIs ==
    ASSUME Types
    PROVE  /\ file.buffer \in Seq(Nat) /\ Len(file.buffer) \in Nat /\ ToSet(file.buffer) \subseteq Nat /\ Current \subseteq Nat
           /\ \A n : At(dir, n) \subseteq Nat /\ Count(dir, n) \in Nat
           /\ rolling.max \in Nat /\ rolling.keep \in Nat /\ lost.slots \subseteq Nat /\ lost.numbered \subseteq Nat
<1>1. file.buffer \in Seq(Nat) /\ dir \in Dirs
    BY DEF Types
<1>2. ToSet(file.buffer) \subseteq Nat /\ Len(file.buffer) \in Nat
    BY <1>1 DEF ToSet
<1>3. \A n : At(dir, n) \subseteq Nat /\ Count(dir, n) \in Nat
    BY <1>1, LinesAreNumbers
<1> QED
    BY <1>1, <1>2, <1>3 DEF Types, Current

\* The first process opens an empty file (FileSink).
LEMMA InitInv ==
    ASSUME Rollings \subseteq [max : Nat, keep : Nat, timed : BOOLEAN], Init
    PROVE  Inv
<1>1. Path \in Names /\ <<>> \in Seq(Nat) /\ ToSet(<<>>) = {} /\ Len(<<>>) = 0
    BY NamesDiffer DEF ToSet
<1>2. dir = [n \in {Path} |-> <<>>] /\ dir \in Dirs /\ DOMAIN dir = {Path}
  <2>1. dir = [n \in {Path} |-> <<>>]
      BY DEF Init
  <2> QED
      BY <2>1, <1>1, DirIs
<1>3. \A n : At(dir, n) = {} /\ Count(dir, n) = 0
    BY <1>1, <1>2 DEF At, Count
<1>4. Types /\ Stages
    BY <1>2 DEF Init, Types, Stages, Steps, Plain
<1>5. PathNewest /\ SlotsInOrder /\ NumbersInOrder
    BY <1>1, <1>2, <1>3, NamesDiffer DEF Init, PathNewest, NotAfterLine, SlotsInOrder, NumbersInOrder, Current, Older
<1>6. GapThere
    BY StepsDiffer, <1>4 DEF Init, GapThere, Plain, Types
<1>7. SizesKept
    BY <1>1, <1>3, <1>4 DEF Init, SizesKept, Types
<1> QED
    BY <1>4, <1>5, <1>6, <1>7 DEF Inv

------------------------------------------------------------------------------
(* Each action keeps it. *)

\* What is known before an action.
LEMMA Before ==
    ASSUME Inv
    PROVE  /\ Types /\ Stages /\ PathNewest /\ SlotsInOrder
           /\ dir \in Dirs /\ file.buffer \in Seq(Nat) /\ Len(file.buffer) \in Nat /\ Current \subseteq Nat
           /\ ToSet(file.buffer) \subseteq Nat /\ lost.slots \subseteq Nat /\ lost.numbered \subseteq Nat
           /\ \A n : At(dir, n) \subseteq Nat /\ Count(dir, n) \in Nat
           /\ line \in Nat /\ slot \in Nat /\ clock \in Nat /\ size \in Nat
           /\ rolling.max \in Nat /\ rolling.keep \in Nat
BY CurrentIs DEF Inv, Types

\* The slots are in order as long as their files stay and the slot does not go back.
LEMMA SlotsStay ==
    ASSUME Inv, \A n \in Names : At(dir', n) = At(dir, n) /\ (n \in DOMAIN dir' => n \in DOMAIN dir \/ n = Path),
           lost'.slots = lost.slots, slot' \in Nat, clock' \in Nat, slot <= slot', slot' <= clock',
           step = <<"prune">> => (step' = <<"prune">> /\ slot' = slot) \/ slot < slot'
    PROVE  SlotsInOrder'
<1>1. \A k \in Nat : At(dir', Slot(k)) = At(dir, Slot(k)) /\ (Slot(k) \in DOMAIN dir' => Slot(k) \in DOMAIN dir)
    BY NamesDiffer
<1>2. SlotsInOrder /\ slot \in Nat
    BY Before
<1>3. \A k \in Nat : Slot(k) \in DOMAIN dir' => k <= slot' /\ (k = slot' => step' = <<"prune">>)
    BY <1>1, <1>2 DEF SlotsInOrder
<1> QED
    BY <1>1, <1>2, <1>3 DEF SlotsInOrder

\* So are the numbered files.
LEMMA NumbersStay ==
    ASSUME NumbersInOrder, rolling.keep \in Nat, UNCHANGED rolling, lost'.numbered = lost.numbered,
           \A n \in Names \ {Path} : At(dir', n) = At(dir, n)
    PROVE  NumbersInOrder'
<1>1. \A i \in 1..rolling.keep : At(dir', Numbered(i)) = At(dir, Numbered(i))
    BY NamesDiffer
<1> QED
    BY <1>1 DEF NumbersInOrder

\* The lines of path are newer than others as long as lines stay or go, and no file gets others'.
LEMMA PathStays ==
    ASSUME Inv, \A n \in Names \ {Path} : At(dir', n) \subseteq At(dir, n),
           At(dir', Path) \subseteq Current, Current' \subseteq Current,
           (lost.slots \cup lost.numbered)' \subseteq
               (lost.slots \cup lost.numbered) \cup UNION {At(dir, n) : n \in Names \ {Path}},
           (line' = line /\ (step = <<"out">> => step' = <<"out">>)) \/ line' = line + 1
    PROVE  PathNewest'
<1> USE Before
<1>1. /\ Path \in Names /\ At(dir, Path) \subseteq Current
      /\ ToSet(file.buffer) \subseteq Current /\ ToSet(file'.buffer) \subseteq Current
    BY NamesDiffer DEF Current
<1>2. ASSUME NEW x \in Nat, x <= line, step # <<"out">> => x < line PROVE x <= line' /\ (step' # <<"out">> => x < line')
    BY <1>2
<1>3. NotAfterLine(Current)
    BY <1>1 DEF PathNewest, NotAfterLine, Current
<1>4. \A n \in Names : NotAfterLine(At(dir, n))'
    BY <1>1, <1>2, <1>3 DEF PathNewest, NotAfterLine
<1>5. NotAfterLine(ToSet(file.buffer) \cup lost.slots \cup lost.numbered)'
    BY <1>1, <1>2, <1>3 DEF PathNewest, NotAfterLine
<1>6. \A n \in Names \ {Path} : Older(At(dir, n), Current)'
    BY DEF PathNewest, Older
<1>7. Older(lost.slots \cup lost.numbered, Current)'
    BY DEF PathNewest, Older
<1>8. \A m, n \in Names : m # n => (At(dir, m) \cap At(dir, n) = {})'
  <2> SUFFICES ASSUME NEW m \in Names, NEW n \in Names, m # n PROVE At(dir', m) \cap At(dir', n) = {}
      OBVIOUS
  <2>1. CASE m # Path /\ n # Path
      BY <2>1 DEF PathNewest
  <2>2. CASE m = Path
      BY <2>2 DEF PathNewest, Older
  <2>3. CASE n = Path
      BY <2>3 DEF PathNewest, Older
  <2> QED
      BY <2>1, <2>2, <2>3
<1> QED
    BY <1>4, <1>5, <1>6, <1>7, <1>8 DEF PathNewest

\* The next line comes (Write).
LEMMA WriteBeginKeeps == Inv /\ WriteBegin => Inv'
<1> SUFFICES ASSUME Inv, WriteBegin PROVE Inv'
    OBVIOUS
<1> USE Before DEF WriteBegin
<1>1. Types' /\ Stages'
    BY DEF Types, Stages, Steps, Plain
<1>2. PathNewest'
    BY PathStays DEF Current
<1>3. SlotsInOrder' /\ (faults = 0 => NumbersInOrder')
    BY DEF Inv, SlotsInOrder, NumbersInOrder
<1>4. faults = 0 => GapThere'
    BY StepsDiffer DEF Inv, GapThere, Plain
<1>5. faults = 0 /\ rolling.keep > 0 /\ rolling.max > 0 => SizesKept'
    BY DEF Inv, SizesKept
<1> QED
    BY <1>1, <1>2, <1>3, <1>4, <1>5 DEF Inv

\* The file is open already (ReopenIfNeeded).
LEMMA ReopenKeeps == Inv /\ Reopen => Inv'
<1> SUFFICES ASSUME Inv, Reopen PROVE Inv'
    OBVIOUS
<1>0. file.open
    BY Before DEF Stages, Reopen
<1>1. /\ step = <<"opening">> /\ step' = <<"time">>
      /\ UNCHANGED <<dir, file, size, slot, rolling, clock, line, lost, faults, crashes>>
    BY <1>0 DEF Reopen
<1> USE Before, <1>1
<1>2. Types' /\ Stages'
    BY DEF Types, Stages, Steps, Plain
<1>3. PathNewest'
    BY PathStays DEF Current
<1>4. SlotsInOrder' /\ (faults = 0 => NumbersInOrder')
    BY DEF Inv, SlotsInOrder, NumbersInOrder
<1>5. faults = 0 => GapThere'
    BY StepsDiffer DEF Inv, GapThere, Plain
<1>6. faults = 0 /\ rolling.keep > 0 /\ rolling.max > 0 => SizesKept'
    BY DEF Inv, SizesKept
<1> QED
    BY <1>2, <1>3, <1>4, <1>5, <1>6 DEF Inv

\* The file is flushed and closed, or not: what that does to the files.
LEMMA FlushedIs ==
    ASSUME Inv, Path \in DOMAIN dir, dir' = Flushed
    PROVE  /\ dir' \in Dirs /\ Path \in DOMAIN dir' /\ Else(dir, dir', {Path})
           /\ At(dir', Path) = Current /\ Count(dir', Path) = Count(dir, Path) + Len(file.buffer)
BY Before, FlushDoes DEF Flushed, Current

\* The file is flushed, and maybe closed and about to be moved away (RotateByTimeLocked, RotateLocked, Flush).
LEMMA FlushKeeps ==
    ASSUME Inv, file.open, dir' = Flushed, file'.buffer = <<>>, file' \in [open : BOOLEAN, buffer : Seq(Nat)],
           UNCHANGED <<rolling, size, clock, line, lost, faults>>, slot' \in {slot, clock},
           step = <<"out">> => step' = <<"out">>,
           step' \in Steps(rolling.keep), step' \in {<<"timeRemove">>, <<"timeRename">>, <<"prune">>} => slot' < clock,
           file'.open <=> step' \in {<<"out">>, <<"opening">>, <<"time">>, <<"size">>, <<"append">>},
           step' \in {<<"out">>, <<"timeRemove">>, <<"shift", rolling.keep>>}
    PROVE  Inv'
<1> USE Before
<1>0. Path \in DOMAIN dir /\ Path \in Names /\ step # <<"prune">>
    BY NamesDiffer DEF Stages
<1>1. /\ dir' \in Dirs /\ Path \in DOMAIN dir' /\ Else(dir, dir', {Path})
      /\ At(dir', Path) = Current /\ Count(dir', Path) = Count(dir, Path) + Len(file.buffer)
    BY <1>0, FlushedIs
<1>2. ToSet(<<>>) = {} /\ Len(<<>>) = 0
    BY DEF ToSet
<1>3. Types' /\ Stages'
    BY <1>1, <1>2 DEF Types, Stages
<1>4. Current' = Current
    BY <1>1, <1>2 DEF Current
<1>5. PathNewest'
    BY <1>1, <1>4, PathStays DEF Else
<1>6. SlotsInOrder'
  <2>1. \A k \in Nat : At(dir', Slot(k)) = At(dir, Slot(k)) /\ (Slot(k) \in DOMAIN dir' <=> Slot(k) \in DOMAIN dir)
      BY <1>1, NamesDiffer DEF Else
  <2>2. slot \in Nat /\ clock \in Nat /\ slot <= clock /\ clock' = clock
      BY DEF SlotsInOrder
  <2>3. \A k \in Nat : Slot(k) \in DOMAIN dir => k < slot
      BY <1>0, <2>2 DEF SlotsInOrder
  <2>4. slot <= slot' /\ slot' <= clock'
      BY <2>2
  <2>5. \A k \in Nat : Slot(k) \in DOMAIN dir' => k <= slot' /\ k # slot'
      BY <2>1, <2>2, <2>3, <2>4
  <2> QED
      BY <2>1, <2>4, <2>5 DEF SlotsInOrder
<1>7. faults = 0 => NumbersInOrder'
    BY <1>1, NumbersStay DEF Inv, Else
<1>8. GapThere'
    BY StepsDiffer DEF GapThere, Plain
<1>9. faults = 0 /\ rolling.keep > 0 /\ rolling.max > 0 => SizesKept'
  <2> SUFFICES ASSUME faults = 0, rolling.keep > 0, rolling.max > 0 PROVE SizesKept'
      OBVIOUS
  <2>1. step' # <<"append">>
      BY StepsDiffer DEF Plain
  <2>2. SizesKept
      BY DEF Inv
  <2>3. Count(dir', Path) <= rolling.max /\ (file'.open => size' = Count(dir', Path) + Len(file'.buffer))
      BY <1>1, <1>2, <2>2 DEF SizesKept
  <2>4. \A n \in Names : Count(dir', n) <= rolling.max
      BY <1>1, <2>2, <2>3 DEF SizesKept, Else
  <2> QED
      BY <2>1, <2>2, <2>3, <2>4 DEF SizesKept
<1> QED
    BY <1>3, <1>5, <1>6, <1>7, <1>8, <1>9 DEF Inv

\* A Flush of the sink (Flush).
LEMMA SinkFlushKeeps == Inv /\ Flush => Inv'
<1> SUFFICES ASSUME Inv, Flush PROVE Inv'
    OBVIOUS
<1>1. file.open /\ step \in Steps(rolling.keep) /\ file \in [open : BOOLEAN, buffer : Seq(Nat)]
    BY Before DEF Flush, Stages, Types
<1>2. <<>> \in Seq(Nat)
    OBVIOUS
<1> QED
    BY <1>1, <1>2, FlushKeeps DEF Flush

\* Another slot has begun, or not (RotateByTimeLocked).
LEMMA CheckTimeKeeps == Inv /\ CheckTime => Inv'
<1> SUFFICES ASSUME Inv, CheckTime PROVE Inv'
    OBVIOUS
<1> USE Before
<1>1. file.open /\ slot <= clock
    BY DEF CheckTime, Stages, SlotsInOrder
<1>2. CASE rolling.timed /\ slot # clock
  <2>1. /\ dir' = Flushed /\ file' = [open |-> FALSE, buffer |-> <<>>] /\ step = <<"time">> /\ step' = <<"timeRemove">>
        /\ UNCHANGED <<rolling, size, slot, clock, line, lost, faults>>
      BY <1>2 DEF CheckTime, Closed
  <2>2. slot' < clock /\ file' \in [open : BOOLEAN, buffer : Seq(Nat)] /\ step' \in Steps(rolling.keep)
      BY <1>1, <1>2, <2>1 DEF Steps, Plain
  <2> QED
      BY <1>1, <2>1, <2>2, FlushKeeps
<1>3. CASE ~(rolling.timed /\ slot # clock)
  <2>0. /\ step = <<"time">> /\ step' = <<"size">>
        /\ UNCHANGED <<dir, file, rolling, size, slot, clock, line, lost, faults, crashes>>
      BY <1>3 DEF CheckTime
  <2>1. Types' /\ Stages'
      BY <2>0 DEF Types, Stages, Steps, Plain
  <2>2. PathNewest'
      BY <2>0, PathStays DEF Current
  <2>3. SlotsInOrder' /\ (faults = 0 => NumbersInOrder')
      BY <2>0 DEF Inv, SlotsInOrder, NumbersInOrder
  <2>4. faults = 0 => GapThere'
      BY <2>0, StepsDiffer DEF Inv, GapThere, Plain
  <2>5. faults = 0 /\ rolling.keep > 0 /\ rolling.max > 0 => SizesKept'
      BY <2>0 DEF Inv, SizesKept
  <2> QED
      BY <2>0, <2>1, <2>2, <2>3, <2>4, <2>5 DEF Inv
<1> QED
    BY <1>2, <1>3

\* The line does not fit, or it does (RotateLocked).
LEMMA CheckSizeKeeps == Inv /\ CheckSize => Inv'
<1> SUFFICES ASSUME Inv, CheckSize PROVE Inv'
    OBVIOUS
<1> USE Before
<1>1. file.open /\ slot <= clock
    BY DEF CheckSize, Stages, SlotsInOrder
<1>2. CASE rolling.max > 0 /\ size + 1 > rolling.max
  <2>1. /\ dir' = Flushed /\ file' = [open |-> FALSE, buffer |-> <<>>] /\ step = <<"size">>
        /\ step' = <<"shift", rolling.keep>> /\ slot' = clock
        /\ UNCHANGED <<rolling, size, clock, line, lost, faults>>
      BY <1>2 DEF CheckSize, Closed
  <2>2. rolling.keep \in 0..rolling.keep
      OBVIOUS
  <2>3. step' \in Steps(rolling.keep) /\ step' \notin Plain
      BY <2>1, <2>2, StepsDiffer DEF Steps
  <2>4. file' \in [open : BOOLEAN, buffer : Seq(Nat)] /\ step # <<"out">> /\ ~file'.open /\ file'.buffer = <<>>
      BY <2>1
  <2> QED
      BY <1>1, <2>1, <2>3, <2>4, FlushKeeps DEF Plain
<1>3. CASE ~(rolling.max > 0 /\ size + 1 > rolling.max)
  <2>0. /\ step = <<"size">> /\ step' = <<"append">> /\ slot' = clock
        /\ UNCHANGED <<dir, file, rolling, size, clock, line, lost, faults>>
      BY <1>3 DEF CheckSize
  <2>1. Types' /\ Stages'
      BY <2>0 DEF Types, Stages, Steps, Plain
  <2>2. PathNewest'
      BY <2>0, PathStays DEF Current
  <2>3. SlotsInOrder' /\ (faults = 0 => NumbersInOrder')
      BY <1>1, <2>0, SlotsStay DEF Inv, NumbersInOrder
  <2>4. faults = 0 => GapThere'
      BY <2>0, StepsDiffer DEF Inv, GapThere, Plain
  <2>5. faults = 0 /\ rolling.keep > 0 /\ rolling.max > 0 => SizesKept'
      BY <1>3, <2>0 DEF Inv, SizesKept
  <2> QED
      BY <2>0, <2>1, <2>2, <2>3, <2>4, <2>5 DEF Inv
<1> QED
    BY <1>2, <1>3

\* The clock goes on (now).
LEMMA ClockTickKeeps == Inv /\ ClockTick => Inv'
<1> SUFFICES ASSUME Inv, ClockTick PROVE Inv'
    OBVIOUS
<1> USE Before DEF ClockTick
<1>1. Types' /\ Stages'
    BY DEF Types, Stages
<1>2. PathNewest'
    BY PathStays DEF Current
<1>3. SlotsInOrder' /\ (faults = 0 => NumbersInOrder')
  <2>1. slot \in Nat /\ clock \in Nat /\ slot <= clock /\ slot' = slot /\ clock' = clock + 1
      BY DEF SlotsInOrder
  <2>2. slot' <= clock'
      BY <2>1
  <2> QED
      BY <2>2 DEF Inv, SlotsInOrder, NumbersInOrder
<1>4. faults = 0 => GapThere'
    BY DEF Inv, GapThere
<1>5. faults = 0 /\ rolling.keep > 0 /\ rolling.max > 0 => SizesKept'
    BY DEF Inv, SizesKept
<1> QED
    BY <1>1, <1>2, <1>3, <1>4, <1>5 DEF Inv

\* The line goes to the buffer (fwrite).
LEMMA AppendLineKeeps == Inv /\ AppendLine => Inv'
<1> SUFFICES ASSUME Inv, AppendLine PROVE Inv'
    OBVIOUS
<1> USE Before
<1>0. /\ step = <<"append">> /\ step' = <<"out">> /\ file.open /\ file' = [file EXCEPT !.buffer = Append(@, line)]
      /\ size' = size + 1 /\ UNCHANGED <<rolling, dir, slot, clock, line, lost, faults, crashes>>
    BY DEF AppendLine, Stages
<1>1. /\ file' \in [open : BOOLEAN, buffer : Seq(Nat)] /\ file'.open /\ Len(file'.buffer) = Len(file.buffer) + 1
      /\ ToSet(file'.buffer) = ToSet(file.buffer) \cup {line}
  <2>1. /\ Append(file.buffer, line) \in Seq(Nat) /\ ToSet(Append(file.buffer, line)) = ToSet(file.buffer) \cup {line}
        /\ Len(Append(file.buffer, line)) = Len(file.buffer) + 1
      BY LinesOfLists
  <2>2. file \in [open : BOOLEAN, buffer : Seq(Nat)]
      BY DEF Types
  <2> QED
      BY <1>0, <2>1, <2>2
<1>2. Types' /\ Stages'
  <2>1. size' \in Nat
      BY <1>0
  <2> QED
      BY <1>0, <1>1, <2>1 DEF Types, Stages, Steps, Plain
<1>3. PathNewest'
  <2>1. Current' = Current \cup {line}
      BY <1>0, <1>1 DEF Current
  <2>2. \A n \in Names : \A x \in At(dir, n) : x < line
      BY <1>0 DEF PathNewest, NotAfterLine
  <2>3. \A x \in ToSet(file.buffer) \cup lost.slots \cup lost.numbered : x < line
      BY <1>0 DEF PathNewest, NotAfterLine
  <2>4. \A n \in Names : NotAfterLine(At(dir, n))'
      BY <1>0, <2>2 DEF NotAfterLine
  <2>5. NotAfterLine(ToSet(file.buffer) \cup lost.slots \cup lost.numbered)'
      BY <1>0, <1>1, <2>3, SMTT(30) DEF NotAfterLine
  <2>6. \A n \in Names \ {Path} : Older(At(dir, n), Current)'
      BY <1>0, <2>1, <2>2 DEF PathNewest, Older
  <2>7. Older(lost.slots \cup lost.numbered, Current)'
      BY <1>0, <2>1, <2>3 DEF PathNewest, Older
  <2> QED
      BY <1>0, <2>4, <2>5, <2>6, <2>7 DEF PathNewest
<1>4. SlotsInOrder' /\ (faults = 0 => NumbersInOrder')
    BY <1>0 DEF Inv, SlotsInOrder, NumbersInOrder
<1>5. faults = 0 => GapThere'
    BY <1>0, StepsDiffer DEF Inv, GapThere, Plain
<1>6. faults = 0 /\ rolling.keep > 0 /\ rolling.max > 0 => SizesKept'
  <2> SUFFICES ASSUME SizesKept PROVE SizesKept'
      BY DEF Inv
  <2>1. size = Count(dir, Path) + Len(file.buffer) /\ size < rolling.max
      BY <1>0 DEF SizesKept
  <2>2. size' = Count(dir, Path) + Len(file'.buffer) /\ size' <= rolling.max
      BY <1>0, <1>1, <2>1, SMTT(30)
  <2> QED
      BY <1>0, <2>2 DEF SizesKept
<1> QED
    BY <1>0, <1>2, <1>3, <1>4, <1>5, <1>6 DEF Inv

\* No file has the name of the closed slot yet (RotateByTimeLocked).
LEMMA TimeRemoveKeeps == Inv /\ TimeRemove => Inv'
<1> SUFFICES ASSUME Inv, TimeRemove PROVE Inv'
    OBVIOUS
<1> USE Before
<1>0. /\ step = <<"timeRemove">> /\ step' = <<"timeRename">> /\ ~file.open /\ Path \in DOMAIN dir
      /\ dir' = Without(dir, Slot(slot)) /\ lost' = [lost EXCEPT !.slots = @ \cup Gone(Slot(slot))]
      /\ UNCHANGED <<rolling, file, size, slot, clock, line, faults>>
    BY DEF TimeRemove, Stages
<1>1. Slot(slot) \notin DOMAIN dir
    BY <1>0 DEF SlotsInOrder
<1>2. dir' = dir /\ lost' = lost
  <2>1. dir \in [DOMAIN dir -> Seq(Nat)] /\ lost \in [slots : SUBSET Nat, numbered : SUBSET Nat]
      BY DirIs DEF Types
  <2>2. dir = [n \in DOMAIN dir |-> dir[n]]
      BY <2>1
  <2>3. dir' = [n \in DOMAIN dir |-> dir[n]]
      BY <1>0, <1>1 DEF Without
  <2>4. Gone(Slot(slot)) = {}
      BY <1>1 DEF Gone, Exists
  <2> QED
      BY <1>0, <2>1, <2>2, <2>3, <2>4
<1>3. Types' /\ Stages'
    BY <1>0, <1>2 DEF Types, Stages, Steps, Plain
<1>4. PathNewest'
    BY <1>0, <1>2, PathStays DEF Current
<1>5. SlotsInOrder' /\ (faults = 0 => NumbersInOrder')
    BY <1>0, <1>2 DEF Inv, SlotsInOrder, NumbersInOrder
<1>6. faults = 0 => GapThere'
    BY <1>0, <1>2, StepsDiffer DEF Inv, GapThere, Plain
<1>7. faults = 0 /\ rolling.keep > 0 /\ rolling.max > 0 => SizesKept'
    BY <1>0, <1>2 DEF Inv, SizesKept
<1> QED
    BY <1>0, <1>3, <1>4, <1>5, <1>6, <1>7 DEF Inv

\* The file gets the name of the closed slot, or the rename fails (RotateByTimeLocked).
LEMMA TimeRenameKeeps == Inv /\ TimeRename => Inv'
<1> SUFFICES ASSUME Inv, TimeRename PROVE Inv'
    OBVIOUS
<1> USE Before
<1>0. /\ step = <<"timeRename">> /\ step' = <<"prune">> /\ ~file.open /\ Path \in DOMAIN dir /\ slot < clock
      /\ UNCHANGED <<rolling, file, size, slot, clock, line, lost>>
    BY DEF TimeRename, Stages
<1>1. ToSet(file.buffer) = {} /\ Current = At(dir, Path) /\ Slot(slot) \in Names /\ Slot(slot) # Path /\ Path \in Names
  <2>1. file.buffer = <<>>
      BY <1>0 DEF Stages
  <2> QED
      BY <2>1, NamesDiffer DEF Current, ToSet
<1>2. CASE dir' = Rename(Path, Slot(slot)) /\ UNCHANGED faults
  <2>1. /\ dir' \in Dirs /\ Path \notin DOMAIN dir' /\ At(dir', Path) = {} /\ Slot(slot) \in DOMAIN dir'
        /\ At(dir', Slot(slot)) = At(dir, Path) /\ Count(dir', Slot(slot)) = Count(dir, Path)
        /\ Else(dir, dir', {Path, Slot(slot)})
      BY <1>0, <1>1, <1>2, RenameDoes, SMTT(30) DEF Rename
  <2>2. Types' /\ Stages'
      BY <1>0, <1>2, <2>1 DEF Types, Stages, Steps, Plain
  <2>3. Current' = {}
      BY <1>0, <1>1, <2>1 DEF Current
  <2>4. PathNewest'
    <3>1. \A n \in Names : NotAfterLine(At(dir, n))'
        BY <1>0, <1>1, <2>1 DEF PathNewest, NotAfterLine, Else
    <3>2. NotAfterLine(ToSet(file.buffer) \cup lost.slots \cup lost.numbered)'
        BY <1>0 DEF PathNewest, NotAfterLine
    <3>3. \A m, n \in Names : m # n => (At(dir, m) \cap At(dir, n) = {})'
      <4> SUFFICES ASSUME NEW m \in Names, NEW n \in Names, m # n PROVE At(dir', m) \cap At(dir', n) = {}
          OBVIOUS
      <4>1. CASE m = Path \/ n = Path
          BY <4>1, <2>1
      <4>2. CASE m = Slot(slot) /\ n # Path
          BY <4>2, <2>1, <1>1 DEF PathNewest, Else
      <4>3. CASE n = Slot(slot) /\ m # Path
          BY <4>3, <2>1, <1>1 DEF PathNewest, Else
      <4>4. CASE {m, n} \cap {Path, Slot(slot)} = {}
          BY <4>4, <2>1 DEF PathNewest, Else
      <4> QED
          BY <4>1, <4>2, <4>3, <4>4
    <3> QED
        BY <2>3, <3>1, <3>2, <3>3 DEF PathNewest, Older
  <2>5. SlotsInOrder'
    <3>1. \A k \in Nat : k # slot => At(dir', Slot(k)) = At(dir, Slot(k)) /\ (Slot(k) \in DOMAIN dir' <=> Slot(k) \in DOMAIN dir)
        BY <2>1, NamesDiffer DEF Else
    <3>2. \A k \in Nat : k > slot => At(dir, Slot(k)) = {}
        BY DEF SlotsInOrder, At
    <3>3. \A k \in Nat : Slot(k) \in DOMAIN dir' => k <= slot'
      <4> SUFFICES ASSUME NEW k \in Nat, Slot(k) \in DOMAIN dir', k # slot PROVE k <= slot'
          BY <1>0
      <4> QED
          BY <1>0, <3>1 DEF SlotsInOrder
    <3>4. \A k \in Nat : Older(At(dir, Slot(k)), At(dir, Path)) /\ Older(lost.slots, At(dir, Path))
        BY <1>1, NamesDiffer DEF PathNewest, Older
    <3>5. ASSUME NEW j \in Nat, NEW k \in Nat, j < k PROVE Older(At(dir, Slot(j)), At(dir, Slot(k)))'
      <4>1. CASE k = slot
          BY <4>1, <3>5, <3>1, <3>4, <2>1
      <4>2. CASE j = slot
          BY <4>2, <3>5, <3>1, <3>2 DEF Older
      <4>3. CASE j # slot /\ k # slot
          BY <4>3, <3>5, <3>1 DEF SlotsInOrder
      <4> QED
          BY <4>1, <4>2, <4>3
    <3>6. ASSUME NEW k \in Nat PROVE Older(lost.slots, At(dir, Slot(k)))'
      <4>1. CASE k = slot
          BY <4>1, <1>0, <3>4, <2>1
      <4>2. CASE k # slot
          BY <4>2, <1>0, <3>1 DEF SlotsInOrder
      <4> QED
          BY <4>1, <4>2
    <3> QED
        BY <1>0, <3>3, <3>5, <3>6 DEF SlotsInOrder
  <2>6. faults = 0 => NumbersInOrder'
    <3> SUFFICES ASSUME NumbersInOrder PROVE NumbersInOrder'
        BY DEF Inv
    <3>1. \A i \in 1..rolling.keep : At(dir', Numbered(i)) = At(dir, Numbered(i))
        BY <2>1, NamesDiffer DEF Else
    <3> QED
        BY <1>0, <3>1 DEF NumbersInOrder
  <2>7. GapThere'
      BY <1>0, <2>1, StepsDiffer DEF GapThere, Plain
  <2>8. faults = 0 /\ rolling.keep > 0 /\ rolling.max > 0 => SizesKept'
    <3> SUFFICES ASSUME SizesKept PROVE SizesKept'
        BY DEF Inv
    <3>1. Count(dir', Path) = 0
        BY <2>1 DEF Count
    <3>2. \A n \in Names : Count(dir', n) <= rolling.max
        BY <1>1, <2>1, <3>1 DEF SizesKept, Else
    <3> QED
        BY <1>0, <3>2 DEF SizesKept
  <2> QED
      BY <1>0, <1>2, <2>2, <2>4, <2>5, <2>6, <2>7, <2>8 DEF Inv
<1>3. CASE faults < MaxFaults /\ faults' = faults + 1 /\ UNCHANGED dir
  <2>1. Types' /\ Stages' /\ faults' # 0
      BY <1>0, <1>3 DEF Types, Stages, Steps, Plain
  <2>2. PathNewest'
      BY <1>0, <1>3, PathStays DEF Current
  <2>3. SlotsInOrder'
      BY <1>0, <1>3 DEF SlotsInOrder
  <2> QED
      BY <2>1, <2>2, <2>3 DEF Inv
<1> QED
    BY <1>2, <1>3 DEF TimeRename

\* There is an oldest file of a slot when there are more than are kept.
LEMMA OldestSlot ==
    ASSUME NEW oldest, oldest = CHOOSE k \in SlotFiles : \A j \in SlotFiles : k <= j,
           rolling.keep \in Nat, Cardinality(SlotFiles) > rolling.keep
    PROVE  oldest \in SlotFiles /\ oldest \in Nat /\ \A j \in SlotFiles : oldest <= j
<1>1. SlotFiles \subseteq Nat
    BY DEF SlotFiles
<1>2. SlotFiles # {}
    BY FS_EmptySet
<1>3. PICK k \in SlotFiles : \A j \in SlotFiles : ~(<<j, k>> \in OpToRel(<, Nat))
    BY <1>1, <1>2, NatLessThanWellFounded, WFMin
<1>4. \A j \in SlotFiles : ~(j < k)
    BY <1>1, <1>3 DEF OpToRel
<1>5. \A j \in SlotFiles : k <= j
    BY <1>1, <1>4
<1> QED
    BY <1>1, <1>5

\* The oldest file of a slot goes (PruneTimeRotatedFilesLocked).
LEMMA PruneKeeps == MaxSlot \in Nat /\ Inv /\ Prune => Inv'
<1> SUFFICES ASSUME MaxSlot \in Nat, Inv, Prune PROVE Inv'
    OBVIOUS
<1> USE Before
<1> DEFINE oldest == CHOOSE k \in SlotFiles : \A j \in SlotFiles : k <= j
<1>0. /\ step = <<"prune">> /\ step' = <<"prune">> /\ ~file.open /\ dir' = Without(dir, Slot(oldest))
      /\ lost' = [lost EXCEPT !.slots = @ \cup Gone(Slot(oldest))]
      /\ UNCHANGED <<rolling, file, size, slot, clock, line, faults>>
    BY DEF Prune, Stages
<1>1. oldest \in SlotFiles /\ oldest \in Nat /\ \A j \in SlotFiles : oldest <= j
    BY OldestSlot DEF Prune
<1> HIDE DEF oldest
<1>2. /\ dir' \in Dirs /\ At(dir', Slot(oldest)) = {} /\ Slot(oldest) \notin DOMAIN dir' /\ Else(dir, dir', {Slot(oldest)})
      /\ Slot(oldest) \in Names /\ Slot(oldest) # Path
    BY <1>0, <1>1, RemoveDoes, NamesDiffer
<1>3. lost'.slots = lost.slots \cup At(dir, Slot(oldest)) /\ lost'.numbered = lost.numbered
      /\ lost' \in [slots : SUBSET Nat, numbered : SUBSET Nat]
  <2>1. lost \in [slots : SUBSET Nat, numbered : SUBSET Nat] /\ Gone(Slot(oldest)) = At(dir, Slot(oldest))
      BY DEF Types, Gone, Exists, At
  <2> QED
      BY <1>0, <2>1
<1>4. Types' /\ Stages'
    BY <1>0, <1>2, <1>3 DEF Types, Stages
<1>5. \A n \in Names : At(dir', n) \subseteq At(dir, n)
    BY <1>2 DEF Else
<1>6. At(dir', Path) = At(dir, Path) /\ Path \in Names
    BY <1>2, NamesDiffer DEF Else
<1>7. PathNewest'
  <2>1. Current' = Current
      BY <1>0, <1>6 DEF Current
  <2> QED
      BY <1>0, <1>2, <1>3, <1>5, <1>6, <2>1, PathStays DEF Current
<1>8. SlotsInOrder'
  <2>1. \A k \in Nat : k # oldest => At(dir', Slot(k)) = At(dir, Slot(k))
      BY <1>1, <1>2, NamesDiffer DEF Else
  <2>2. \A k \in Nat : Slot(k) \in DOMAIN dir' => Slot(k) \in DOMAIN dir
      BY <1>2, NamesDiffer DEF Else
  <2>3. \A k \in Nat : k < oldest => At(dir, Slot(k)) = {}
    <3>1. oldest <= MaxSlot
        BY <1>1 DEF SlotFiles
    <3> QED
        BY <1>1, <3>1 DEF SlotFiles, Exists, At
  <2>4. ASSUME NEW k \in Nat PROVE Older(lost.slots, At(dir, Slot(k)))'
    <3>1. CASE k = oldest
        BY <3>1, <1>2 DEF Older
    <3>2. CASE k < oldest
        BY <3>2, <2>1, <2>3 DEF Older
    <3>3. CASE k > oldest
        BY <3>3, <1>1, <1>3, <2>1 DEF SlotsInOrder, Older
    <3> QED
        BY <1>1, <3>1, <3>2, <3>3
  <2>5. ASSUME NEW j \in Nat, NEW k \in Nat, j < k PROVE Older(At(dir, Slot(j)), At(dir, Slot(k)))'
      BY <2>5, <1>5, NamesDiffer DEF SlotsInOrder, Older
  <2> QED
      BY <1>0, <2>2, <2>4, <2>5 DEF SlotsInOrder
<1>9. faults = 0 => NumbersInOrder'
  <2> SUFFICES ASSUME NumbersInOrder PROVE NumbersInOrder'
      BY DEF Inv
  <2>1. \A i \in 1..rolling.keep : At(dir', Numbered(i)) = At(dir, Numbered(i))
      BY <1>1, <1>2, NamesDiffer DEF Else
  <2> QED
      BY <1>0, <1>3, <2>1 DEF NumbersInOrder
<1>10. faults = 0 => GapThere'
  <2>1. Path \notin DOMAIN dir => Path \notin DOMAIN dir'
      BY <1>2, <1>6 DEF Else
  <2> QED
      BY <1>0, <2>1, StepsDiffer DEF Inv, GapThere, Plain
<1>11. faults = 0 /\ rolling.keep > 0 /\ rolling.max > 0 => SizesKept'
  <2> SUFFICES ASSUME SizesKept PROVE SizesKept'
      BY DEF Inv
  <2>1. Count(dir', Slot(oldest)) = 0
      BY <1>2 DEF Count
  <2>2. \A n \in Names : Count(dir', n) <= rolling.max
      BY <1>2, <2>1 DEF SizesKept, Else
  <2>3. step' # <<"append">>
      BY <1>0
  <2> QED
      BY <1>0, <2>2, <2>3 DEF SizesKept
<1> QED
    BY <1>0, <1>4, <1>7, <1>8, <1>9, <1>10, <1>11 DEF Inv

\* The file is opened: what that does to the files.
LEMMA OpenIs ==
    ASSUME dir \in Dirs, dir' = IF Exists(Path) THEN dir ELSE With(dir, Path, <<>>), file' = [open |-> TRUE, buffer |-> <<>>]
    PROVE  /\ dir' \in Dirs /\ Path \in DOMAIN dir' /\ Else(dir, dir', {Path}) /\ Path \in Names
           /\ At(dir', Path) = At(dir, Path) /\ Count(dir', Path) = Count(dir, Path)
           /\ \A n \in Names : At(dir', n) = At(dir, n) /\ Count(dir', n) = Count(dir, n)
           /\ \A n \in Names : n \in DOMAIN dir' => n \in DOMAIN dir \/ n = Path
           /\ file' \in [open : BOOLEAN, buffer : Seq(Nat)] /\ file'.open /\ file'.buffer = <<>>
           /\ ToSet(file'.buffer) = {} /\ Len(file'.buffer) = 0
<1>1. /\ dir' \in Dirs /\ Path \in DOMAIN dir' /\ Else(dir, dir', {Path})
      /\ At(dir', Path) = At(dir, Path) /\ Count(dir', Path) = Count(dir, Path)
    BY OpenDoes DEF Exists
<1>2. Path \in Names /\ ToSet(<<>>) = {} /\ Len(<<>>) = 0 /\ <<>> \in Seq(Nat)
    BY NamesDiffer DEF ToSet
<1>3. \A n \in Names :
          /\ At(dir', n) = At(dir, n) /\ Count(dir', n) = Count(dir, n)
          /\ n \in DOMAIN dir' => n \in DOMAIN dir \/ n = Path
    BY <1>1 DEF Else
<1> QED
    BY <1>1, <1>2, <1>3

\* A file is opened, and the lines stay where they are (OpenLocked).
LEMMA OpenKeeps ==
    ASSUME Inv, OpenLocked, UNCHANGED <<rolling, clock, line, lost, faults>>, size' \in Nat,
           step' \in {<<"out">>, <<"size">>, <<"append">>}, step = <<"out">> => step' = <<"out">>,
           step = <<"prune">> => slot < clock,
           faults = 0 /\ SizesKept /\ rolling.keep > 0 /\ rolling.max > 0 =>
               /\ size' = Count(dir, Path)
               /\ step' = <<"append">> => size' = 0
    PROVE  Inv'
<1> USE Before
<1>0. /\ dir' = IF Exists(Path) THEN dir ELSE With(dir, Path, <<>>)
      /\ file' = [open |-> TRUE, buffer |-> <<>>] /\ slot' = clock
      /\ UNCHANGED <<rolling, clock, line, lost, faults>>
    BY DEF OpenLocked
<1>1. /\ dir' \in Dirs /\ Path \in DOMAIN dir' /\ Else(dir, dir', {Path}) /\ Path \in Names
      /\ At(dir', Path) = At(dir, Path) /\ Count(dir', Path) = Count(dir, Path)
      /\ \A n \in Names : At(dir', n) = At(dir, n) /\ Count(dir', n) = Count(dir, n)
      /\ \A n \in Names : n \in DOMAIN dir' => n \in DOMAIN dir \/ n = Path
      /\ file' \in [open : BOOLEAN, buffer : Seq(Nat)] /\ file'.open /\ file'.buffer = <<>>
      /\ ToSet(file'.buffer) = {} /\ Len(file'.buffer) = 0
    BY <1>0, OpenIs
<1>2. Types' /\ Stages'
    BY <1>0, <1>1 DEF Types, Stages, Steps, Plain
<1>3. PathNewest'
  <2>1. Current' \subseteq Current
      BY <1>1 DEF Current
  <2> QED
      BY <1>0, <1>1, <2>1, PathStays DEF Current
<1>4. SlotsInOrder'
  <2>1. slot <= slot' /\ slot' <= clock' /\ slot' \in Nat /\ clock' \in Nat
      BY <1>0 DEF SlotsInOrder
  <2> QED
      BY <1>0, <1>1, <2>1, SlotsStay
<1>5. faults = 0 => NumbersInOrder'
    BY <1>0, <1>1, NumbersStay DEF Inv
<1>6. GapThere'
    BY StepsDiffer DEF GapThere, Plain
<1>7. faults = 0 /\ rolling.keep > 0 /\ rolling.max > 0 => SizesKept'
  <2> SUFFICES ASSUME SizesKept, faults = 0, rolling.keep > 0, rolling.max > 0 PROVE SizesKept'
      BY DEF Inv
  <2>1. \A n \in Names : Count(dir', n) <= rolling.max
      BY <1>1 DEF SizesKept
  <2>2. size' = Count(dir', Path) + Len(file'.buffer) /\ size' <= rolling.max
      BY <1>1, <2>1
  <2>3. step' = <<"append">> => size' < rolling.max
      OBVIOUS
  <2> QED
      BY <1>0, <2>1, <2>2, <2>3 DEF SizesKept
<1> QED
    BY <1>0, <1>2, <1>3, <1>4, <1>5, <1>6, <1>7 DEF Inv

\* The next slot's file is opened (RotateByTimeLocked).
LEMMA TimeReopenKeeps == Inv /\ TimeReopen => Inv'
<1> SUFFICES ASSUME Inv, TimeReopen PROVE Inv'
    OBVIOUS
<1>1. /\ step = <<"prune">> /\ step' = <<"size">> /\ OpenLocked /\ size' = 0
      /\ UNCHANGED <<rolling, clock, line, lost, faults>>
    BY DEF TimeReopen
<1>2. slot < clock
    BY <1>1, Before DEF Stages
<1>3. faults = 0 => Count(dir, Path) = 0
    BY <1>1 DEF Inv, GapThere, Count
<1> QED
    BY <1>1, <1>2, <1>3, OpenKeeps

\* A new file is opened after the chain of renames (RotateLocked).
LEMMA ShiftReopenKeeps == Inv /\ ShiftReopen => Inv'
<1> SUFFICES ASSUME Inv, ShiftReopen PROVE Inv'
    OBVIOUS
<1>1. /\ step = <<"shift", 0>> /\ step' = <<"append">> /\ OpenLocked /\ size' = 0
      /\ UNCHANGED <<rolling, clock, line, lost, faults>>
    BY DEF ShiftReopen
<1>2. step # <<"prune">> /\ step # <<"out">>
    BY <1>1, StepsDiffer DEF Plain
<1>3. faults = 0 /\ rolling.keep > 0 => Count(dir, Path) = 0
  <2> SUFFICES ASSUME faults = 0, rolling.keep > 0 PROVE Path \notin DOMAIN dir
      BY DEF Count
  <2>1. GapThere /\ rolling.keep \in Nat /\ 0 \in 0..rolling.keep
      BY Before DEF Inv
  <2> QED
      BY <1>1, <2>1, NamesDiffer DEF GapThere
<1> QED
    BY <1>1, <1>2, <1>3, OpenKeeps

\* The process dies, and the next one opens the file (FileSink).
LEMMA CrashKeeps == Inv /\ CrashAndRestart => Inv'
<1> SUFFICES ASSUME Inv, CrashAndRestart PROVE Inv'
    OBVIOUS
<1>1. /\ step' = <<"out">> /\ OpenLocked /\ size' = IF Exists(Path) THEN Len(dir[Path]) ELSE 0
      /\ UNCHANGED <<rolling, clock, line, lost, faults>>
    BY DEF CrashAndRestart
<1>2. size' = Count(dir, Path) /\ size' \in Nat /\ step' # <<"append">>
    BY <1>1, Before DEF Count, Exists
<1>3. step = <<"prune">> => slot < clock
    BY Before DEF Stages
<1> QED
    BY <1>1, <1>2, <1>3, OpenKeeps

\* The target of a rename is removed: the oldest file, or one that a failed rename has left (RotateLocked).
LEMMA ShiftRemoveKeeps ==
    ASSUME Inv, NEW i \in 1..rolling.keep, ShiftRemove(i)
    PROVE  Inv'
<1> USE Before
<1>0. /\ step = <<"shift", i>> /\ step' = <<"shiftRename", i>> /\ i > 0 /\ i \in Nat
      /\ UNCHANGED <<rolling, file, size, slot, clock, line, faults>>
    BY DEF ShiftRemove
<1>1. i \in 1..rolling.keep /\ step \notin Plain /\ step' \notin Plain /\ step' \in Steps(rolling.keep)
  <2>1. step \in Steps(rolling.keep)
      BY DEF Types
  <2>2. i \in 0..rolling.keep
      BY <1>0, <2>1, StepsDiffer DEF Steps
  <2>3. i \in 1..rolling.keep
      BY <1>0, <2>2
  <2> QED
      BY <1>0, <2>3, StepsDiffer DEF Steps
<1>2. ~file.open /\ ToSet(file.buffer) = {}
    BY <1>0, <1>1 DEF Stages, Plain, ToSet
<1>3. Numbered(i) \in Names /\ Numbered(i) # Path /\ Path \in Names
    BY <1>0, NamesDiffer
<1>4. /\ dir' \in Dirs /\ Else(dir, dir', {Numbered(i)})
      /\ \A n \in Names : At(dir', n) \subseteq At(dir, n) /\ (n \in DOMAIN dir' => n \in DOMAIN dir)
      /\ lost' \in [slots : SUBSET Nat, numbered : SUBSET Nat] /\ lost'.slots = lost.slots
      /\ lost'.numbered \subseteq lost.numbered \cup At(dir, Numbered(i))
      /\ i # rolling.keep /\ Numbered(i) \notin DOMAIN dir => lost'.numbered = lost.numbered
      /\ i = rolling.keep => At(dir', Numbered(i)) = {}
      /\ Numbered(i) \in DOMAIN dir' => i # rolling.keep /\ Numbered(i) \in DOMAIN dir
  <2>1. lost \in [slots : SUBSET Nat, numbered : SUBSET Nat] /\ Gone(Numbered(i)) = At(dir, Numbered(i))
      BY DEF Types, Gone, Exists, At
  <2>2. CASE i = rolling.keep \/ Exists(Numbered(i - 1))
    <3>1. dir' = Without(dir, Numbered(i)) /\ lost' = [lost EXCEPT !.numbered = @ \cup Gone(Numbered(i))]
        BY <2>2 DEF ShiftRemove
    <3>2. /\ dir' \in Dirs /\ Numbered(i) \notin DOMAIN dir' /\ At(dir', Numbered(i)) = {}
          /\ Else(dir, dir', {Numbered(i)})
        BY <1>3, <3>1, RemoveDoes
    <3>3. \A n \in Names : At(dir', n) \subseteq At(dir, n) /\ (n \in DOMAIN dir' => n \in DOMAIN dir)
        BY <3>2 DEF Else
    <3>4. /\ lost' \in [slots : SUBSET Nat, numbered : SUBSET Nat] /\ lost'.slots = lost.slots
          /\ lost'.numbered = lost.numbered \cup At(dir, Numbered(i))
        BY <2>1, <3>1
    <3>5. Numbered(i) \notin DOMAIN dir => At(dir, Numbered(i)) = {}
        BY DEF At
    <3> QED
        BY <3>2, <3>3, <3>4, <3>5
  <2>3. CASE ~(i = rolling.keep \/ Exists(Numbered(i - 1)))
    <3>1. dir' = dir /\ lost' = lost
        BY <2>3 DEF ShiftRemove
    <3> QED
        BY <2>1, <2>3, <3>1 DEF Else
  <2> QED
      BY <2>2, <2>3
<1>5. Types' /\ Stages'
    BY <1>0, <1>1, <1>2, <1>4 DEF Types, Stages, Plain
<1>6. PathNewest'
  <2>1. Current' \subseteq Current /\ At(dir', Path) \subseteq Current
      BY <1>0, <1>3, <1>4 DEF Current
  <2> QED
      BY <1>0, <1>1, <1>3, <1>4, <2>1, PathStays DEF Plain
<1>7. SlotsInOrder'
  <2>1. \A k \in Nat : At(dir', Slot(k)) = At(dir, Slot(k)) /\ (Slot(k) \in DOMAIN dir' => Slot(k) \in DOMAIN dir)
      BY <1>0, <1>4, NamesDiffer DEF Else
  <2>2. step # <<"prune">>
      BY <1>1 DEF Plain
  <2> QED
      BY <1>0, <1>4, <2>1, <2>2 DEF SlotsInOrder
<1>8. faults = 0 => GapThere' /\ NumbersInOrder'
  <2> SUFFICES ASSUME GapThere, NumbersInOrder PROVE GapThere' /\ NumbersInOrder'
      BY DEF Inv
  <2>1. i # rolling.keep => Numbered(i) \notin DOMAIN dir
      BY <1>0, <1>1 DEF GapThere
  <2>2. Numbered(i) \notin DOMAIN dir' /\ At(dir', Numbered(i)) = {}
      BY <1>4, <2>1 DEF At
  <2>3. GapThere'
    <3>1. \A j \in 1..rolling.keep : step' = <<"shiftRename", j>> => j = i
        BY <1>0, StepsDiffer
    <3>2. \A j \in 0..rolling.keep : step' # <<"shift", j>>
        BY <1>0, StepsDiffer
    <3> QED
        BY <1>0, <1>1, <2>2, <3>1, <3>2 DEF GapThere, Plain
  <2>4. ASSUME NEW j \in 1..rolling.keep PROVE Older(lost.numbered, At(dir, Numbered(j)))'
    <3>1. CASE i # rolling.keep
        BY <3>1, <1>3, <1>4, <2>1, NamesDiffer DEF NumbersInOrder, Older
    <3>2. CASE i = rolling.keep /\ j = i
        BY <3>2, <2>2 DEF Older
    <3>3. CASE i = rolling.keep /\ j # i
      <4>1. j < i /\ Numbered(j) \in Names
          BY <3>3, NamesDiffer
      <4>2. Older(At(dir, Numbered(i)), At(dir, Numbered(j))) /\ Older(lost.numbered, At(dir, Numbered(j)))
          BY <1>1, <4>1 DEF NumbersInOrder
      <4> QED
          BY <1>4, <4>1, <4>2 DEF Older
    <3> QED
        BY <3>1, <3>2, <3>3
  <2>5. ASSUME NEW j \in 1..rolling.keep, NEW k \in 1..rolling.keep, k < j
        PROVE  Older(At(dir, Numbered(j)), At(dir, Numbered(k)))'
    <3>1. Older(At(dir, Numbered(j)), At(dir, Numbered(k)))
        BY <2>5 DEF NumbersInOrder
    <3>2. Numbered(j) \in Names /\ Numbered(k) \in Names
        BY NamesDiffer, SMTT(30)
    <3> QED
        BY <1>4, <3>1, <3>2 DEF Older
  <2> QED
      BY <1>0, <2>3, <2>4, <2>5 DEF NumbersInOrder
<1>9. faults = 0 /\ rolling.keep > 0 /\ rolling.max > 0 => SizesKept'
  <2> SUFFICES ASSUME SizesKept PROVE SizesKept'
      BY DEF Inv
  <2>1. Count(dir', Numbered(i)) <= rolling.max
    <3>1. CASE Numbered(i) \in DOMAIN dir'
      <4>1. ~(i = rolling.keep \/ Exists(Numbered(i - 1)))
        <5>1. Numbered(i) \notin DOMAIN Without(dir, Numbered(i))
            BY DEF Without
        <5> QED
            BY <3>1, <5>1 DEF ShiftRemove
      <4>2. dir' = dir
          BY <4>1 DEF ShiftRemove
      <4> QED
          BY <1>3, <4>2 DEF SizesKept
    <3>2. CASE Numbered(i) \notin DOMAIN dir'
        BY <3>2 DEF Count
    <3> QED
        BY <3>1, <3>2
  <2>2. \A n \in Names : Count(dir', n) <= rolling.max
      BY <1>4, <2>1 DEF SizesKept, Else
  <2> QED
      BY <1>0, <1>1, <1>2, <2>2 DEF SizesKept, Plain
<1> QED
    BY <1>0, <1>5, <1>6, <1>7, <1>8, <1>9 DEF Inv

\* A file gets the next number, or the rename fails (RotateLocked).
LEMMA ShiftRenameKeeps ==
    ASSUME Inv, NEW i \in 1..rolling.keep, ShiftRename(i)
    PROVE  Inv'
<1> USE Before
<1> DEFINE from == Numbered(i - 1)
           to == Numbered(i)
<1>0. /\ step = <<"shiftRename", i>> /\ step' = <<"shift", i - 1>> /\ i \in Nat /\ i - 1 \in Nat
      /\ UNCHANGED <<rolling, file, size, slot, clock, line, lost>>
    BY DEF ShiftRename
<1>1. i \in 1..rolling.keep /\ step \notin Plain /\ step' \notin Plain /\ step' \in Steps(rolling.keep)
  <2>1. step \in Steps(rolling.keep)
      BY DEF Types
  <2>2. i \in 1..rolling.keep
    <3>1. \A j \in 0..rolling.keep : step # <<"shift", j>>
        BY <1>0, StepsDiffer
    <3>2. step \notin Plain
        BY <1>0, StepsDiffer
    <3>3. PICK j \in 1..rolling.keep : step = <<"shiftRename", j>>
        BY <2>1, <3>1, <3>2 DEF Steps
    <3> QED
        BY <1>0, <3>3, StepsDiffer
  <2>3. i - 1 \in 0..rolling.keep
      BY <1>0, <2>2
  <2> QED
      BY <1>0, <2>2, <2>3, StepsDiffer DEF Steps
<1>2. ~file.open /\ ToSet(file.buffer) = {} /\ Current = At(dir, Path)
    BY <1>0, <1>1 DEF Stages, Plain, ToSet, Current
<1>3. /\ from \in Names /\ to \in Names /\ to # Path /\ from # to /\ Path \in Names /\ (i - 1 = 0 <=> from = Path)
      /\ \A k \in Nat : Slot(k) \in Names /\ Slot(k) # from /\ Slot(k) # to /\ Slot(k) # Path
      /\ \A k \in Nat : Numbered(k) \in Names /\ (Numbered(k) = from => k = i - 1) /\ (Numbered(k) = to => k = i)
    BY <1>0, NamesDiffer
<1> HIDE DEF from, to
<1>4. CASE from \in DOMAIN dir /\ dir' = Rename(from, to) /\ UNCHANGED faults
  <2>1. /\ dir' \in Dirs /\ from \notin DOMAIN dir' /\ At(dir', from) = {} /\ to \in DOMAIN dir'
        /\ At(dir', to) = At(dir, from) /\ Count(dir', to) = Count(dir, from) /\ Else(dir, dir', {from, to})
    <3>1. dir' = With(Without(dir, from), to, dir[from]) /\ to # from
        BY <1>3, <1>4 DEF Rename
    <3> QED
        BY <1>3, <1>4, <3>1, RenameDoes
  <2>2. Types' /\ Stages'
      BY <1>0, <1>1, <1>2, <1>4, <2>1 DEF Types, Stages, Plain
  <2>3. Current' = At(dir', Path) /\ (from = Path => Current' = {}) /\ (from # Path => Current' = Current)
      BY <1>0, <1>2, <1>3, <2>1 DEF Current, Else
  <2>4. PathNewest'
    <3>1. \A n \in Names : NotAfterLine(At(dir, n))
        BY DEF PathNewest
    <3>2. \A n \in Names :
              \/ At(dir', n) = {}
              \/ n = to /\ At(dir', n) = At(dir, from)
              \/ n \notin {from, to} /\ At(dir', n) = At(dir, n)
        BY <1>3, <2>1 DEF Else
    <3>3. \A n \in Names : NotAfterLine(At(dir, n))'
      <4>1. step # <<"out">>
          BY <1>1 DEF Plain
      <4>2. \A n \in Names : \A x \in At(dir, n) : x < line
          BY <4>1, <3>1 DEF NotAfterLine
      <4>3. \A n \in Names : \A x \in At(dir', n) : x < line
          BY <1>3, <3>2, <4>2
      <4> QED
          BY <1>0, <2>1, <4>3, LinesAreNumbers DEF NotAfterLine
    <3>4. NotAfterLine(ToSet(file.buffer) \cup lost.slots \cup lost.numbered)'
        BY <1>0, <1>1 DEF PathNewest, NotAfterLine, Plain
    <3>5. \A n \in Names \ {Path} : Older(At(dir, n), Current)'
      <4>1. CASE from = Path
          BY <4>1, <2>3 DEF Older
      <4>2. CASE from # Path
        <5>1. \A n \in Names \ {Path} : Older(At(dir, n), Current)
            BY DEF PathNewest
        <5> QED
            BY <4>2, <5>1, <1>3, <2>3, <3>2 DEF Older
      <4> QED
          BY <4>1, <4>2
    <3>6. Older(lost.slots \cup lost.numbered, Current)'
        BY <1>0, <2>3 DEF PathNewest, Older
    <3>7. \A m, n \in Names : m # n => (At(dir, m) \cap At(dir, n) = {})'
      <4> SUFFICES ASSUME NEW m \in Names, NEW n \in Names, m # n PROVE At(dir', m) \cap At(dir', n) = {}
          OBVIOUS
      <4>1. \A x, y \in Names : x # y => At(dir, x) \cap At(dir, y) = {}
          BY DEF PathNewest
      <4>2. CASE At(dir', m) = {} \/ At(dir', n) = {}
          BY <4>2
      <4>3. CASE m = to /\ n \notin {from, to}
          BY <4>3, <4>1, <1>3, <3>2
      <4>4. CASE n = to /\ m \notin {from, to}
          BY <4>4, <4>1, <1>3, <3>2
      <4>5. CASE {m, n} \cap {from, to} = {}
          BY <4>5, <4>1, <3>2
      <4> QED
          BY <4>2, <4>3, <4>4, <4>5, <2>1
    <3> QED
        BY <3>3, <3>4, <3>5, <3>6, <3>7 DEF PathNewest
  <2>5. SlotsInOrder'
    <3>1. \A k \in Nat : At(dir', Slot(k)) = At(dir, Slot(k)) /\ (Slot(k) \in DOMAIN dir' => Slot(k) \in DOMAIN dir)
        BY <1>3, <2>1 DEF Else
    <3>2. step # <<"prune">>
        BY <1>1 DEF Plain
    <3> QED
        BY <1>0, <3>1, <3>2 DEF SlotsInOrder
  <2>6. faults = 0 => NumbersInOrder'
    <3> SUFFICES ASSUME NumbersInOrder PROVE NumbersInOrder'
        BY DEF Inv
    <3>1. \A k \in 1..rolling.keep : k # i /\ k # i - 1 => At(dir', Numbered(k)) = At(dir, Numbered(k))
      <4> SUFFICES ASSUME NEW k \in 1..rolling.keep, k # i, k # i - 1 PROVE At(dir', Numbered(k)) = At(dir, Numbered(k))
          OBVIOUS
      <4>1. k \in Nat
          OBVIOUS
      <4>2. Numbered(k) \in Names \ {from, to}
          BY <1>3, <4>1
      <4> QED
          BY <2>1, <4>2 DEF Else
    <3>2. to = Numbered(i) /\ from = Numbered(i - 1)
        BY DEF from, to
    <3>3. ASSUME NEW j \in 1..rolling.keep, NEW k \in 1..rolling.keep, k < j
          PROVE  Older(At(dir, Numbered(j)), At(dir, Numbered(k)))'
      <4>1. CASE j = i - 1 \/ k = i - 1
          BY <4>1, <2>1, <3>2 DEF Older
      <4>2. CASE j = i /\ k # i - 1
        <5>1. i - 1 \in 1..rolling.keep /\ k < i - 1 /\ k # i
            BY <4>2, <3>3, <1>1, SMTT(30)
        <5>2. Older(At(dir, Numbered(i - 1)), At(dir, Numbered(k)))
            BY <5>1 DEF NumbersInOrder
        <5> QED
            BY <4>2, <5>1, <5>2, <2>1, <3>1, <3>2
      <4>3. CASE k = i /\ j # i - 1
        <5>1. CASE i - 1 = 0
          <6>1. from = Path /\ Numbered(j) \in Names \ {Path}
              BY <5>1, <1>3, <3>3
          <6>2. Older(At(dir, Numbered(j)), At(dir, Path))
              BY <6>1, <1>2 DEF PathNewest
          <6>3. j # i /\ j # i - 1
              BY <4>3, <3>3
          <6> QED
              BY <4>3, <6>1, <6>2, <6>3, <2>1, <3>1, <3>2
        <5>2. CASE i - 1 # 0
          <6>1. i - 1 \in 1..rolling.keep /\ i - 1 < j /\ j # i
              BY <5>2, <4>3, <3>3, <1>1
          <6>2. Older(At(dir, Numbered(j)), At(dir, Numbered(i - 1)))
              BY <6>1 DEF NumbersInOrder
          <6> QED
              BY <4>3, <6>1, <6>2, <2>1, <3>1, <3>2
        <5> QED
            BY <5>1, <5>2
      <4>4. CASE {j, k} \cap {i, i - 1} = {}
          BY <4>4, <3>3, <3>1 DEF NumbersInOrder
      <4> QED
          BY <4>1, <4>2, <4>3, <4>4, <3>3
    <3>4. ASSUME NEW k \in 1..rolling.keep PROVE Older(lost.numbered, At(dir, Numbered(k)))'
      <4>1. CASE k = i - 1
          BY <4>1, <2>1, <3>2 DEF Older
      <4>2. CASE k = i
        <5>1. CASE i - 1 = 0
          <6>1. Older(lost.numbered, At(dir, Path)) /\ from = Path
              BY <5>1, <1>2, <1>3 DEF PathNewest, Older
          <6> QED
              BY <4>2, <6>1, <1>0, <2>1, <3>2
        <5>2. CASE i - 1 # 0
          <6>1. i - 1 \in 1..rolling.keep
              BY <5>2, <1>1
          <6>2. Older(lost.numbered, At(dir, Numbered(i - 1)))
              BY <6>1 DEF NumbersInOrder
          <6> QED
              BY <4>2, <6>2, <1>0, <2>1, <3>2
        <5> QED
            BY <5>1, <5>2
      <4>3. CASE k # i /\ k # i - 1
          BY <4>3, <1>0, <3>1 DEF NumbersInOrder
      <4> QED
          BY <4>1, <4>2, <4>3
    <3> QED
        BY <1>0, <3>3, <3>4 DEF NumbersInOrder
  <2>7. GapThere'
    <3>1. \A j \in 0..rolling.keep : step' = <<"shift", j>> => j = i - 1
        BY <1>0, StepsDiffer
    <3>2. \A j \in 1..rolling.keep : step' # <<"shiftRename", j>>
        BY <1>0, StepsDiffer
    <3>3. Numbered(i - 1) \notin DOMAIN dir'
        BY <2>1 DEF from
    <3> QED
        BY <1>0, <1>1, <3>1, <3>2, <3>3 DEF GapThere, Plain
  <2>8. faults = 0 /\ rolling.keep > 0 /\ rolling.max > 0 => SizesKept'
    <3> SUFFICES ASSUME SizesKept PROVE SizesKept'
        BY DEF Inv
    <3>1. Count(dir', from) = 0
        BY <2>1 DEF Count
    <3>2. \A n \in Names : Count(dir', n) <= rolling.max
      <4>1. Count(dir, from) <= rolling.max /\ 0 <= rolling.max
          BY <1>3 DEF SizesKept
      <4>2. \A n \in Names \ {from, to} : Count(dir', n) = Count(dir, n) /\ Count(dir, n) <= rolling.max
          BY <2>1 DEF SizesKept, Else
      <4> QED
          BY <2>1, <3>1, <4>1, <4>2
    <3> QED
        BY <1>0, <1>1, <1>2, <3>2 DEF SizesKept, Plain
  <2> QED
      BY <1>0, <1>4, <2>2, <2>4, <2>5, <2>6, <2>7, <2>8 DEF Inv
<1>5. CASE UNCHANGED dir /\ ((from \notin DOMAIN dir /\ UNCHANGED faults) \/ (faults < MaxFaults /\ faults' = faults + 1))
  <2>0. dir' = dir /\ faults' \in Nat /\ (faults' = 0 => faults = 0 /\ from \notin DOMAIN dir)
      BY <1>5 DEF Types
  <2>1. Types' /\ Stages'
      BY <1>0, <1>1, <1>2, <2>0 DEF Types, Stages, Plain
  <2>2. PathNewest'
      BY <1>0, <1>1, <1>2, <2>0, PathStays DEF Current, Plain
  <2>3. SlotsInOrder'
      BY <1>0, <1>1, <2>0 DEF SlotsInOrder, Plain
  <2>4. faults' = 0 => NumbersInOrder'
      BY <1>0, <2>0 DEF Inv, NumbersInOrder
  <2>5. faults' = 0 => GapThere'
    <3>1. \A j \in 0..rolling.keep : step' = <<"shift", j>> => j = i - 1
        BY <1>0, StepsDiffer
    <3>2. \A j \in 1..rolling.keep : step' # <<"shiftRename", j>>
        BY <1>0, StepsDiffer
    <3> QED
        BY <1>0, <1>1, <2>0, <3>1, <3>2 DEF GapThere, Plain, from
  <2>6. faults' = 0 /\ rolling.keep > 0 /\ rolling.max > 0 => SizesKept'
      BY <1>0, <1>1, <1>2, <2>0 DEF Inv, SizesKept, Plain
  <2> QED
      BY <1>0, <2>1, <2>2, <2>3, <2>4, <2>5, <2>6 DEF Inv
<1> QED
    BY <1>4, <1>5 DEF ShiftRename, Exists, from, to

------------------------------------------------------------------------------

\* Every action keeps the invariant, and so does a step that changes nothing.
LEMMA NextInv == MaxSlot \in Nat /\ Inv /\ [Next]_vars => Inv'
<1> SUFFICES ASSUME MaxSlot \in Nat, Inv, [Next]_vars PROVE Inv'
    OBVIOUS
<1>1. CASE UNCHANGED vars
    BY <1>1 DEF vars, Inv, Types, Stages, PathNewest, SlotsInOrder, GapThere, NumbersInOrder, SizesKept, Current,
        NotAfterLine
<1> QED
    BY <1>1, WriteBeginKeeps, ReopenKeeps, CheckTimeKeeps, TimeRemoveKeeps, TimeRenameKeeps, PruneKeeps, TimeReopenKeeps,
        CheckSizeKeeps, ShiftReopenKeeps, AppendLineKeeps, ShiftRemoveKeeps, ShiftRenameKeeps, SinkFlushKeeps,
        ClockTickKeeps, CrashKeeps DEF Next

\* Numbered files and slots in order, path newer than both, sizes within the limit: wherever a rotation stops.
THEOREM RotationInvariant ==
    Rollings \subseteq [max : Nat, keep : Nat, timed : BOOLEAN] /\ MaxSlot \in Nat => (Spec => []Inv)
<1> SUFFICES ASSUME Rollings \subseteq [max : Nat, keep : Nat, timed : BOOLEAN], MaxSlot \in Nat PROVE Spec => []Inv
    OBVIOUS
<1>1. Init => Inv
    BY InitInv
<1>2. Inv /\ [Next]_vars => Inv'
    BY NextInv
<1> QED
    BY <1>1, <1>2, PTL DEF Spec

\* A rotation, wherever the process dies in it and whatever fails, costs only the oldest lines (FileSink).
THEOREM RotationLosesOldest ==
    Rollings \subseteq [max : Nat, keep : Nat, timed : BOOLEAN] /\ MaxSlot \in Nat => (Spec => []OnlyOldestLost)
<1> SUFFICES ASSUME Rollings \subseteq [max : Nat, keep : Nat, timed : BOOLEAN], MaxSlot \in Nat
             PROVE  Spec => []OnlyOldestLost
    OBVIOUS
<1>1. Inv => OnlyOldestLost
  <2> SUFFICES ASSUME Inv PROVE OnlyOldestLost
      OBVIOUS
  <2> USE Before
  <2>1. \A n \in DOMAIN dir : n \in Names /\ ToSet(dir[n]) = At(dir, n) /\ Len(dir[n]) = Count(dir, n)
      BY DirIs DEF At, Count
  <2>2. \A n \in Names : Path = n => At(dir, n) \subseteq Current
      BY DEF Current
  <2>3. ASSUME faults = 0, NEW x \in lost.numbered, NEW y \in LinesOf(NumberedNames) PROVE x < y
    <3>1. PICK i \in 0..rolling.keep : Numbered(i) \in DOMAIN dir /\ y \in At(dir, Numbered(i))
        BY <2>1 DEF LinesOf, NumberedNames
    <3>2. CASE i = 0
        BY <3>1, <3>2, <2>2, NamesDiffer DEF PathNewest, Older
    <3>3. CASE i # 0
        BY <2>3, <3>1, <3>3 DEF Inv, NumbersInOrder, Older
    <3> QED
        BY <3>2, <3>3
  <2>4. ASSUME NEW x \in lost.slots, NEW y \in LinesOf(SlotNames) PROVE x < y
    <3>1. PICK k \in 0..MaxSlot : Slot(k) \in DOMAIN dir /\ y \in At(dir, Slot(k))
        BY <2>1 DEF LinesOf, SlotNames
    <3> QED
        BY <3>1 DEF SlotsInOrder, Older
  <2>5. ASSUME NEW x \in lost.numbered \cup lost.slots, NEW y \in LinesOf({Path} \cap DOMAIN dir) PROVE x < y
    <3>1. y \in Current
        BY <2>1, <2>2 DEF LinesOf
    <3> QED
        BY <3>1 DEF PathNewest, Older
  <2>6. \A m, n \in DOMAIN dir : m # n => ToSet(dir[m]) \cap ToSet(dir[n]) = {}
      BY <2>1 DEF PathNewest
  <2>7. faults = 0 /\ rolling.keep > 0 /\ rolling.max > 0 => \A n \in DOMAIN dir : Len(dir[n]) <= rolling.max
      BY <2>1 DEF Inv, SizesKept
  <2> QED
      BY <2>3, <2>4, <2>5, <2>6, <2>7 DEF OnlyOldestLost
<1> QED
    BY <1>1, RotationInvariant, PTL
===============================================================================
