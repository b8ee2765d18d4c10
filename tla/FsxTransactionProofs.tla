------------------------- MODULE FsxTransactionProofs -------------------------
(***************************************************************************)
(* fsx::Run and fsx::RecoverFromJournal, for all plans, policies and       *)
(* modes, any number of runs, faults and crashes: at whatever primitive a  *)
(* batch has stopped, undoing what it has logged restores every file; no   *)
(* contents are lost meanwhile and no temporary file is left behind.       *)
(***************************************************************************)
EXTENDS FsxTransaction, FiniteSetTheorems, SequenceTheorems, WellFoundedInduction, TLAPS

AllPaths == Paths \cup CutPaths
Dirs == UNION {[S -> Contents] : S \in SUBSET AllPaths}

------------------------------------------------------------------------------
(* Paths. *)

\* A path of the user's, a temporary one, what a cut record names and no path are different things.
LEMMA PathKinds ==
    /\ UserPaths \cap Temps = {} /\ UserPaths \cap CutPaths = {} /\ Temps \cap CutPaths = {}
    /\ NoPath \notin AllPaths
    /\ \A f \in Files : Backup(f) \notin Files
<1>1. \A f \in Files : f \notin Temps /\ f \notin CutPaths /\ \A g \in Files : Backup(g) # f
    BY PathAssumption
<1>2. \A f : DOMAIN Backup(f) = {"retained"}
    BY DEF Backup
<1>3. \A t \in Temps : DOMAIN t = {"run", "step", "tag"}
    BY DEF Temps
<1>4. \A c \in CutPaths : DOMAIN c = {"cut"}
    BY DEF CutPaths
<1>5. {"retained"} # {"run", "step", "tag"} /\ {"retained"} # {"cut"} /\ {"cut"} # {"run", "step", "tag"}
    OBVIOUS
<1>6. \A f \in Files : Backup(f) \notin Temps /\ Backup(f) \notin CutPaths
    BY <1>2, <1>3, <1>4, <1>5
<1>7. Temps \cap CutPaths = {}
    BY <1>3, <1>4, <1>5
<1> QED
    BY <1>1, <1>6, <1>7, PathAssumption DEF UserPaths, AllPaths

\* The temporary name of a step tells which step it is of, and what it is for.
LEMMA TempNames ==
    /\ \A n \in Nat, s \in Nat, tag \in Tags :
          /\ Temp(n, s, tag) \in Temps
          /\ Temp(n, s, tag).run = n /\ Temp(n, s, tag).step = s /\ Temp(n, s, tag).tag = tag
BY DEF Temp, Temps

------------------------------------------------------------------------------
(* Directories. *)

\* A directory is a function from paths to contents.
LEMMA DirIs ==
    \A f : f \in Dirs <=> f \in [DOMAIN f -> Contents] /\ DOMAIN f \subseteq AllPaths
BY DEF Dirs

\* Two directories with the same files are the same.
LEMMA DirEqual ==
    ASSUME NEW f \in Dirs, NEW g \in Dirs, DOMAIN f = DOMAIN g, \A p \in DOMAIN f : f[p] = g[p]
    PROVE  f = g
<1>1. f = [p \in DOMAIN f |-> f[p]] /\ g = [p \in DOMAIN g |-> g[p]]
    BY DirIs
<1> QED
    BY <1>1

\* f with c at p; f without p; f with the file at p under the name q.
IsWith(g, f, p, c) ==
    /\ g \in Dirs /\ DOMAIN g = DOMAIN f \cup {p} /\ g[p] = c
    /\ \A q \in DOMAIN f \ {p} : g[q] = f[q]
IsWithout(g, f, p) ==
    g \in Dirs /\ DOMAIN g = DOMAIN f \ {p} /\ \A q \in DOMAIN f \ {p} : g[q] = f[q]
IsRenamed(g, f, p, q) ==
    /\ g \in Dirs /\ DOMAIN g = (DOMAIN f \ {p}) \cup {q} /\ g[q] = f[p]
    /\ \A x \in DOMAIN f \ {p, q} : g[x] = f[x]

\* A file is written.
LEMMA WithIs ==
    ASSUME NEW f \in Dirs, NEW p \in AllPaths, NEW c \in Contents
    PROVE  IsWith(With(f, p, c), f, p, c)
<1>1. f \in [DOMAIN f -> Contents] /\ DOMAIN f \subseteq AllPaths
    BY DirIs
<1> QED
    BY <1>1, DirIs DEF With, IsWith

\* A file is removed.
LEMMA WithoutIs ==
    ASSUME NEW f \in Dirs, NEW p
    PROVE  IsWithout(Without(f, p), f, p)
<1>1. f \in [DOMAIN f -> Contents] /\ DOMAIN f \subseteq AllPaths
    BY DirIs
<1> QED
    BY <1>1, DirIs DEF Without, IsWithout

\* A file takes another name.
LEMMA RenamedIs ==
    ASSUME NEW f \in Dirs, NEW p \in DOMAIN f, NEW q \in AllPaths
    PROVE  IsRenamed(Renamed(f, p, q), f, p, q)
<1>1. f[p] \in Contents
    BY DirIs
<1>2. IsWithout(Without(f, p), f, p)
    BY WithoutIs
<1>3. \A g \in Dirs : IsWith(With(g, q, f[p]), g, q, f[p])
    BY <1>1, WithIs
<1>4. Renamed(f, p, q) = With(Without(f, p), q, f[p])
    BY DEF Renamed
<1> QED
    BY <1>2, <1>3, <1>4 DEF IsWithout, IsWith, IsRenamed

------------------------------------------------------------------------------
(* The trail of a batch: the directories its undo records lead back through. *)

AnyPath == AllPaths \cup {NoPath}
Records ==
    [kind : {"REMOVE", "MOVE", "REPLACE", "RESTORED", "COMMIT", "TORN"},
     from : AnyPath, to : AnyPath, witness : AnyPath, staging : AnyPath, ended : BOOLEAN]

\* The undo records a batch writes, and what is left of them.
IsRemove(r) ==
    r.kind = "REMOVE" /\ r.from \in Temps \cup CutPaths
    /\ r.to = NoPath /\ r.witness = NoPath /\ r.staging = NoPath
IsMove(r) ==
    r.kind = "MOVE" /\ r.from \in Paths /\ r.to \in AllPaths
    /\ r.witness = NoPath /\ r.staging = NoPath
IsReplace(r) ==
    r.kind = "REPLACE" /\ r.to \in Files
    /\ r.from \in Temps /\ r.witness \in Temps /\ r.staging \in Temps
    /\ r.from # r.witness /\ r.from # r.staging /\ r.witness # r.staging
UndoRecords == {r \in Records : IsRemove(r) \/ IsMove(r) \/ IsReplace(r)}

\* Undoing u takes a directory from h to g.
Removes(u, g, h) == u.kind = "REMOVE" /\ g = Without(h, u.from)
MovesBack(u, g, h) ==
    u.kind = "MOVE" /\ Has(h, u.from) /\ ~Has(h, u.to) /\ g = Renamed(h, u.from, u.to)
WasNotMoved(u, g, h) == u.kind = "MOVE" /\ ~Has(h, u.from) /\ g = h
PutsBack(u, g, h) ==
    /\ u.kind = "REPLACE" /\ {u.from, u.to, u.witness} \subseteq DOMAIN h /\ ~Has(h, u.staging)
    /\ h[u.to] \in {h[u.from], h[u.witness]}
    /\ g = With(h, u.to, h[u.from])
StepsBack(u, g, h) ==
    Removes(u, g, h) \/ MovesBack(u, g, h) \/ WasNotMoved(u, g, h) \/ PutsBack(u, g, h)

\* The records R lead back through h, from h[Len(R)] to h[0].
Trail(h, R) ==
    /\ h \in [0..Len(R) -> Dirs]
    /\ \A i \in 1..Len(R) : StepsBack(R[i], h[i - 1], h[i])

\* The user's files are as in o; n's temporary files are among J.
Base(g, o, n, J) ==
    /\ DOMAIN g \cap UserPaths = DOMAIN o /\ \A p \in DOMAIN o : g[p] = o[p]
    /\ \A t \in DOMAIN g \cap Temps : t.run = n => t \in J

\* Every file of o holds its old or its new contents.
Targets(g, o) == \A f \in DOMAIN o \cap Files : Has(g, f) /\ g[f] \in {o[f]} \cup Payloads

\* The records R lead from f back to o; if w, no file of o is ever away on this way.
LeadsBack(f, R, o, n, J, w) ==
    \E h : /\ Trail(h, R) /\ h[Len(R)] = f /\ Base(h[0], o, n, J)
           /\ w => \A i \in 0..Len(R) : Targets(h[i], o)

\* The paths of the three kinds of records.
LEMMA PathsOfRecords ==
    \A r \in UndoRecords :
        /\ PathsOf(r) \subseteq AllPaths
        /\ IsRemove(r) => PathsOf(r) = {r.from}
        /\ IsMove(r) => PathsOf(r) = {r.from, r.to}
        /\ IsReplace(r) => PathsOf(r) = {r.from, r.to, r.witness, r.staging}
<1>1. NoPath \notin AllPaths /\ Temps \cup CutPaths \subseteq AllPaths /\ Paths \subseteq AllPaths
      /\ Files \subseteq AllPaths
    BY PathKinds DEF AllPaths, Paths, UserPaths
<1> QED
    BY <1>1 DEF PathsOf, UndoRecords, IsRemove, IsMove, IsReplace

\* The kind of a record tells its shape.
LEMMA KindOfRecord ==
    \A r \in UndoRecords :
        /\ r.kind = "REMOVE" <=> IsRemove(r)
        /\ r.kind = "MOVE" <=> IsMove(r)
        /\ r.kind = "REPLACE" <=> IsReplace(r)
BY DEF UndoRecords, IsRemove, IsMove, IsReplace

\* What each kind of record does, file by file.
StepFacts(u, g, h) ==
    /\ Removes(u, g, h) => PathsOf(u) = {u.from} /\ IsWithout(g, h, u.from)
    /\ MovesBack(u, g, h) =>
          /\ PathsOf(u) = {u.from, u.to} /\ u.from \in DOMAIN h /\ u.to \notin DOMAIN h
          /\ IsRenamed(g, h, u.from, u.to)
    /\ WasNotMoved(u, g, h) => PathsOf(u) = {u.from, u.to} /\ u.from \notin DOMAIN h /\ g = h
    /\ PutsBack(u, g, h) =>
          /\ PathsOf(u) = {u.from, u.to, u.witness, u.staging} /\ u.staging \notin DOMAIN h
          /\ {u.from, u.to, u.witness} \subseteq DOMAIN h /\ IsWith(g, h, u.to, h[u.from])

\* Each kind of record does that.
LEMMA StepIs ==
    ASSUME NEW u \in UndoRecords, NEW g \in Dirs, NEW h \in Dirs
    PROVE  StepFacts(u, g, h)
<1>1. Removes(u, g, h) => PathsOf(u) = {u.from} /\ IsWithout(g, h, u.from)
    BY PathsOfRecords, KindOfRecord, WithoutIs DEF Removes
<1>2. ASSUME MovesBack(u, g, h)
      PROVE  /\ PathsOf(u) = {u.from, u.to} /\ u.from \in DOMAIN h /\ u.to \notin DOMAIN h
             /\ IsRenamed(g, h, u.from, u.to)
  <2>1. PathsOf(u) = {u.from, u.to} /\ u.to \in AllPaths /\ g = Renamed(h, u.from, u.to)
        /\ u.from \in DOMAIN h /\ u.to \notin DOMAIN h
      BY <1>2, PathsOfRecords, KindOfRecord DEF MovesBack, Has
  <2> QED
      BY <2>1, RenamedIs
<1>3. WasNotMoved(u, g, h) => PathsOf(u) = {u.from, u.to} /\ u.from \notin DOMAIN h /\ g = h
    BY PathsOfRecords, KindOfRecord DEF WasNotMoved, Has
<1>4. ASSUME PutsBack(u, g, h)
      PROVE  /\ PathsOf(u) = {u.from, u.to, u.witness, u.staging} /\ u.staging \notin DOMAIN h
             /\ {u.from, u.to, u.witness} \subseteq DOMAIN h /\ IsWith(g, h, u.to, h[u.from])
  <2>1. PathsOf(u) = {u.from, u.to, u.witness, u.staging} /\ u.to \in AllPaths
        /\ {u.from, u.to, u.witness} \subseteq DOMAIN h /\ u.staging \notin DOMAIN h
        /\ g = With(h, u.to, h[u.from])
      BY <1>4, PathsOfRecords, KindOfRecord DEF PutsBack, Has
  <2>2. h[u.from] \in Contents
      BY <2>1, DirIs
  <2>3. IsWith(With(h, u.to, h[u.from]), h, u.to, h[u.from])
      BY <2>1, <2>2, WithIs
  <2> QED
      BY <2>1, <2>3
<1> QED
    BY <1>1, <1>2, <1>3, <1>4 DEF StepFacts

\* g and h differ at most at the paths of u.
Elsewhere(u, g, h) ==
    \A p \in AllPaths \ PathsOf(u) : (Has(g, p) <=> Has(h, p)) /\ (Has(h, p) => g[p] = h[p])

\* A path a record does not name is not touched by its undo.
LEMMA StepElsewhere ==
    ASSUME NEW u \in UndoRecords, NEW g \in Dirs, NEW h \in Dirs, StepsBack(u, g, h)
    PROVE  Elsewhere(u, g, h)
<1>0. StepFacts(u, g, h)
    BY StepIs
<1>1. CASE Removes(u, g, h)
    BY <1>0, <1>1 DEF StepFacts, IsWithout, Elsewhere, Has
<1>2. CASE MovesBack(u, g, h)
    BY <1>0, <1>2 DEF StepFacts, IsRenamed, Elsewhere, Has
<1>3. CASE WasNotMoved(u, g, h)
    BY <1>3 DEF WasNotMoved, Elsewhere, Has
<1>4. CASE PutsBack(u, g, h)
    BY <1>0, <1>4 DEF StepFacts, IsWith, Elsewhere, Has
<1> QED
    BY <1>1, <1>2, <1>3, <1>4 DEF StepsBack

\* Whatever is found after undoing a record was there before, at its name or where the record has it from.
LEMMA StepCarries ==
    ASSUME NEW u \in UndoRecords, NEW g \in Dirs, NEW h \in Dirs, StepsBack(u, g, h),
           NEW q \in DOMAIN g
    PROVE  \/ Has(h, q) /\ h[q] = g[q]
           \/ q = u.to /\ u.to \in PathsOf(u) /\ u.from \in PathsOf(u) /\ Has(h, u.from) /\ h[u.from] = g[q]
<1>0. StepFacts(u, g, h)
    BY StepIs
<1>1. CASE Removes(u, g, h)
    BY <1>0, <1>1 DEF StepFacts, IsWithout, Has
<1>2. CASE MovesBack(u, g, h)
    BY <1>0, <1>2 DEF StepFacts, IsRenamed, Has
<1>3. CASE WasNotMoved(u, g, h)
    BY <1>3 DEF WasNotMoved, Has
<1>4. CASE PutsBack(u, g, h)
    BY <1>0, <1>4 DEF StepFacts, IsWith, Has
<1> QED
    BY <1>1, <1>2, <1>3, <1>4 DEF StepsBack

------------------------------------------------------------------------------
(* A file that no record names, or only one that removes it. *)

Unmentioned(p, R) == \A i \in DOMAIN R : p \notin PathsOf(R[i])

\* Writing or removing a file the record does not name, before and after its undo.
LEMMA StepApart ==
    ASSUME NEW u \in UndoRecords, NEW g \in Dirs, NEW h \in Dirs, StepsBack(u, g, h),
           NEW p \in AllPaths, p \notin PathsOf(u), NEW c \in Contents
    PROVE  StepsBack(u, With(g, p, c), With(h, p, c)) /\ StepsBack(u, Without(g, p), Without(h, p))
<1>0. StepFacts(u, g, h)
    BY StepIs
<1>1. IsWith(With(g, p, c), g, p, c) /\ IsWith(With(h, p, c), h, p, c)
      /\ IsWithout(Without(g, p), g, p) /\ IsWithout(Without(h, p), h, p)
    BY WithIs, WithoutIs
<1> DEFINE W(f) == With(f, p, c)
           V(f) == Without(f, p)
<1> HIDE DEF W, V
<1>2. IsWith(W(g), g, p, c) /\ IsWith(W(h), h, p, c) /\ IsWithout(V(g), g, p) /\ IsWithout(V(h), h, p)
      /\ W(g) \in Dirs /\ V(g) \in Dirs /\ W(h) \in Dirs /\ V(h) \in Dirs
    BY <1>1 DEF W, V, IsWith, IsWithout
<1>3. CASE Removes(u, g, h)
  <2>1. u.kind = "REMOVE" /\ u.from # p /\ IsWithout(g, h, u.from)
      BY <1>0, <1>3 DEF Removes, StepFacts
  <2>2. IsWithout(Without(W(h), u.from), W(h), u.from) /\ IsWithout(Without(V(h), u.from), V(h), u.from)
      BY <1>2, WithoutIs
  <2>3. W(g) = Without(W(h), u.from)
      BY <1>2, <2>1, <2>2, DirEqual DEF IsWith, IsWithout
  <2>4. V(g) = Without(V(h), u.from)
    <3>1. DOMAIN V(g) = DOMAIN Without(V(h), u.from) /\ V(g) \in Dirs /\ Without(V(h), u.from) \in Dirs
        BY <1>2, <2>1, <2>2 DEF IsWithout
    <3>2. \A q \in DOMAIN V(g) : V(g)[q] = Without(V(h), u.from)[q]
        BY <1>2, <2>1, <2>2 DEF IsWithout
    <3> QED
        BY <3>1, <3>2, DirEqual
  <2> QED
      BY <2>1, <2>3, <2>4 DEF StepsBack, Removes, W, V
<1>4. CASE MovesBack(u, g, h)
  <2>1. /\ u.kind = "MOVE" /\ p # u.from /\ p # u.to /\ u.to \in AllPaths
        /\ u.from \in DOMAIN h /\ u.to \notin DOMAIN h /\ IsRenamed(g, h, u.from, u.to)
      BY <1>0, <1>4, PathsOfRecords DEF MovesBack, StepFacts
  <2>2. u.from \in DOMAIN W(h) /\ u.to \notin DOMAIN W(h) /\ u.from \in DOMAIN V(h) /\ u.to \notin DOMAIN V(h)
      BY <1>2, <2>1 DEF IsWith, IsWithout
  <2>3. IsRenamed(Renamed(W(h), u.from, u.to), W(h), u.from, u.to)
        /\ IsRenamed(Renamed(V(h), u.from, u.to), V(h), u.from, u.to)
      BY <1>2, <2>1, <2>2, RenamedIs
  <2>4. W(g) = Renamed(W(h), u.from, u.to)
      BY <1>2, <2>1, <2>3, DirEqual, SMTT(30) DEF IsWith, IsRenamed
  <2>5. V(g) = Renamed(V(h), u.from, u.to)
    <3>1. DOMAIN V(g) = DOMAIN Renamed(V(h), u.from, u.to) /\ V(g) \in Dirs /\ Renamed(V(h), u.from, u.to) \in Dirs
        BY <1>2, <2>1, <2>3 DEF IsWithout, IsRenamed
    <3>2. \A q \in DOMAIN V(g) : V(g)[q] = Renamed(V(h), u.from, u.to)[q]
        BY <1>2, <2>1, <2>3 DEF IsWithout, IsRenamed
    <3> QED
        BY <3>1, <3>2, DirEqual
  <2> QED
      BY <2>1, <2>2, <2>4, <2>5 DEF StepsBack, MovesBack, Has, W, V
<1>5. CASE WasNotMoved(u, g, h)
  <2>1. u.kind = "MOVE" /\ p # u.from /\ u.from \notin DOMAIN h /\ g = h
      BY <1>0, <1>5 DEF WasNotMoved, StepFacts
  <2>2. u.from \notin DOMAIN W(h) /\ u.from \notin DOMAIN V(h)
      BY <1>2, <2>1 DEF IsWith, IsWithout
  <2> QED
      BY <2>1, <2>2 DEF StepsBack, WasNotMoved, Has, W, V
<1>6. CASE PutsBack(u, g, h)
  <2>1. /\ u.kind = "REPLACE" /\ p \notin {u.from, u.to, u.witness, u.staging} /\ u.to \in AllPaths
        /\ {u.from, u.to, u.witness} \subseteq DOMAIN h /\ u.staging \notin DOMAIN h
        /\ h[u.to] \in {h[u.from], h[u.witness]} /\ IsWith(g, h, u.to, h[u.from])
        /\ h[u.from] \in Contents
      BY <1>0, <1>6, PathsOfRecords, DirIs DEF PutsBack, StepFacts
  <2>2. /\ {u.from, u.to, u.witness} \subseteq DOMAIN W(h) /\ u.staging \notin DOMAIN W(h)
        /\ W(h)[u.from] = h[u.from] /\ W(h)[u.to] = h[u.to] /\ W(h)[u.witness] = h[u.witness]
      BY <1>2, <2>1 DEF IsWith
  <2>3. /\ {u.from, u.to, u.witness} \subseteq DOMAIN V(h) /\ u.staging \notin DOMAIN V(h)
        /\ V(h)[u.from] = h[u.from] /\ V(h)[u.to] = h[u.to] /\ V(h)[u.witness] = h[u.witness]
      BY <1>2, <2>1 DEF IsWithout
  <2>4. IsWith(With(W(h), u.to, h[u.from]), W(h), u.to, h[u.from])
        /\ IsWith(With(V(h), u.to, h[u.from]), V(h), u.to, h[u.from])
      BY <1>2, <2>1, WithIs
  <2>5. W(g) = With(W(h), u.to, h[u.from])
      BY <1>2, <2>1, <2>4, DirEqual DEF IsWith
  <2>6. V(g) = With(V(h), u.to, h[u.from])
      BY <1>2, <2>1, <2>4, DirEqual DEF IsWith, IsWithout
  <2> QED
      BY <2>1, <2>2, <2>3, <2>5, <2>6 DEF StepsBack, PutsBack, Has, W, V
<1> QED
    BY <1>3, <1>4, <1>5, <1>6 DEF StepsBack

\* What a REMOVE record removes may be written or be gone before its undo.
LEMMA StepRemoves ==
    ASSUME NEW u \in UndoRecords, u.kind = "REMOVE", NEW g \in Dirs, NEW h \in Dirs, StepsBack(u, g, h),
           NEW c \in Contents
    PROVE  StepsBack(u, g, With(h, u.from, c)) /\ StepsBack(u, g, Without(h, u.from))
<1>1. g = Without(h, u.from) /\ u.from \in AllPaths
    BY PathsOfRecords, KindOfRecord DEF StepsBack, Removes, MovesBack, WasNotMoved, PutsBack
<1> DEFINE W == With(h, u.from, c)
           V == Without(h, u.from)
<1> HIDE DEF W, V
<1>2. IsWith(W, h, u.from, c) /\ IsWithout(V, h, u.from)
    BY <1>1, WithIs, WithoutIs DEF W, V
<1>3. IsWithout(Without(W, u.from), W, u.from) /\ IsWithout(Without(V, u.from), V, u.from)
    BY <1>2, WithoutIs DEF IsWith, IsWithout
<1>4. V = Without(W, u.from)
    BY <1>2, <1>3, DirEqual DEF IsWith, IsWithout
<1>5. V = Without(V, u.from)
  <2>1. DOMAIN V = DOMAIN Without(V, u.from) /\ V \in Dirs /\ Without(V, u.from) \in Dirs
      BY <1>2, <1>3 DEF IsWithout
  <2>2. \A q \in DOMAIN V : V[q] = Without(V, u.from)[q]
      BY <1>2, <1>3 DEF IsWithout
  <2> QED
      BY <2>1, <2>2, DirEqual
<1> QED
    BY <1>1, <1>4, <1>5 DEF StepsBack, Removes, W, V

\* Along a trail, a file may be written or be gone from where a record removes it, or from the start, as long
\* as no record names it after that.
Written(h, N, k, p, c) == [i \in 0..N |-> IF i >= k THEN With(h[i], p, c) ELSE h[i]]
Gone(h, N, k, p) == [i \in 0..N |-> IF i >= k THEN Without(h[i], p) ELSE h[i]]

\* The trails with the file written or gone.
LEMMA Touch ==
    ASSUME NEW R \in Seq(UndoRecords), NEW h, Trail(h, R), NEW p \in AllPaths, NEW c \in Contents,
           NEW k \in 0..Len(R), k > 0 => R[k].kind = "REMOVE" /\ R[k].from = p,
           \A i \in 1..Len(R) : i > k => p \notin PathsOf(R[i])
    PROVE  Trail(Written(h, Len(R), k, p, c), R) /\ Trail(Gone(h, Len(R), k, p), R)
<1> DEFINE N == Len(R)
           w == Written(h, N, k, p, c)
           v == Gone(h, N, k, p)
<1>1. N \in Nat /\ (\A i \in 1..N : R[i] \in UndoRecords) /\ \A i \in 0..N : h[i] \in Dirs
    BY DEF Trail
<1>2. \A i \in 0..N : With(h[i], p, c) \in Dirs /\ Without(h[i], p) \in Dirs
    BY <1>1, WithIs, WithoutIs DEF IsWith, IsWithout
<1>3. w \in [0..N -> Dirs] /\ v \in [0..N -> Dirs]
    BY <1>1, <1>2 DEF Written, Gone
<1>4. ASSUME NEW i \in 1..N PROVE StepsBack(R[i], w[i - 1], w[i]) /\ StepsBack(R[i], v[i - 1], v[i])
  <2>1. /\ i \in 0..N /\ i - 1 \in 0..N /\ R[i] \in UndoRecords
        /\ h[i] \in Dirs /\ h[i - 1] \in Dirs /\ StepsBack(R[i], h[i - 1], h[i])
      BY <1>1 DEF Trail
  <2>2. CASE i > k
    <3>1. /\ w[i] = With(h[i], p, c) /\ w[i - 1] = With(h[i - 1], p, c)
          /\ v[i] = Without(h[i], p) /\ v[i - 1] = Without(h[i - 1], p)
        BY <2>1, <2>2, <1>1 DEF Written, Gone
    <3> QED
        BY <2>1, <2>2, <3>1, StepApart
  <2>3. CASE i = k
    <3>1. w[i] = With(h[i], p, c) /\ w[i - 1] = h[i - 1] /\ v[i] = Without(h[i], p) /\ v[i - 1] = h[i - 1]
        BY <2>1, <2>3, <1>1 DEF Written, Gone
    <3>2. R[i].kind = "REMOVE" /\ R[i].from = p
        BY <2>3, <1>1
    <3> QED
        BY <2>1, <3>1, <3>2, StepRemoves
  <2>4. CASE i < k
    <3>1. w[i] = h[i] /\ w[i - 1] = h[i - 1] /\ v[i] = h[i] /\ v[i - 1] = h[i - 1]
        BY <2>1, <2>4, <1>1 DEF Written, Gone
    <3> QED
        BY <2>1, <3>1
  <2> QED
      BY <2>2, <2>3, <2>4, <1>1
<1> QED
    BY <1>3, <1>4 DEF Trail

\* A temporary or cut name is none of the user's files: what they are does not depend on it.
LEMMA BaseApart ==
    ASSUME NEW g \in Dirs, NEW p \in Temps \cup CutPaths, NEW c \in Contents, NEW o, NEW n, NEW J
    PROVE  /\ Base(g, o, n, J) => Base(With(g, p, c), o, n, J \cup {p}) /\ Base(Without(g, p), o, n, J \ {p})
           /\ Targets(g, o) => Targets(With(g, p, c), o) /\ Targets(Without(g, p), o)
<1>1. p \notin UserPaths /\ p \in AllPaths /\ Files \subseteq UserPaths
    BY PathKinds DEF AllPaths, Paths, UserPaths
<1>2. IsWith(With(g, p, c), g, p, c) /\ IsWithout(Without(g, p), g, p)
    BY <1>1, WithIs, WithoutIs
<1> DEFINE W == With(g, p, c)
           V == Without(g, p)
<1> HIDE DEF W, V
<1>3. IsWith(W, g, p, c) /\ IsWithout(V, g, p)
    BY <1>2 DEF W, V
<1>4. ASSUME Base(g, o, n, J) PROVE Base(W, o, n, J \cup {p}) /\ Base(V, o, n, J \ {p})
  <2>1. DOMAIN W \cap UserPaths = DOMAIN o /\ DOMAIN V \cap UserPaths = DOMAIN o
      BY <1>1, <1>3, <1>4 DEF Base, IsWith, IsWithout
  <2>2. \A q \in DOMAIN o : W[q] = o[q] /\ V[q] = o[q]
      BY <1>1, <1>3, <1>4, <2>1 DEF Base, IsWith, IsWithout
  <2>3. \A t \in DOMAIN W \cap Temps : t.run = n => t \in J \cup {p}
      BY <1>3, <1>4 DEF Base, IsWith
  <2>4. \A t \in DOMAIN V \cap Temps : t.run = n => t \in J \ {p}
      BY <1>3, <1>4 DEF Base, IsWithout
  <2> QED
      BY <2>1, <2>2, <2>3, <2>4 DEF Base
<1>5. ASSUME Targets(g, o) PROVE Targets(W, o) /\ Targets(V, o)
    BY <1>1, <1>3, <1>5 DEF Targets, Has, IsWith, IsWithout
<1> QED
    BY <1>4, <1>5 DEF W, V

\* The last record that names p removes it.
Tracked(p, R) ==
    \E k \in DOMAIN R : R[k].kind = "REMOVE" /\ R[k].from = p /\ \A i \in DOMAIN R : i > k => p \notin PathsOf(R[i])

\* The records still lead back when a file is written or removed after the k-th of them.
LEMMA TouchBack ==
    ASSUME NEW R \in Seq(UndoRecords), NEW f, NEW o, NEW n, NEW J, NEW w \in BOOLEAN,
           NEW p \in Temps \cup CutPaths, NEW c \in Contents, LeadsBack(f, R, o, n, J, w),
           NEW k \in 0..Len(R), k > 0 => R[k].kind = "REMOVE" /\ R[k].from = p,
           \A i \in 1..Len(R) : i > k => p \notin PathsOf(R[i])
    PROVE  /\ LeadsBack(With(f, p, c), R, o, n, IF k = 0 THEN J \cup {p} ELSE J, w)
           /\ LeadsBack(Without(f, p), R, o, n, IF k = 0 THEN J \ {p} ELSE J, w)
<1> DEFINE N == Len(R)
<1>1. N \in Nat /\ p \in AllPaths
    BY DEF AllPaths, Paths
<1>2. PICK h : /\ Trail(h, R) /\ h[N] = f /\ Base(h[0], o, n, J)
               /\ w => \A i \in 0..N : Targets(h[i], o)
    BY DEF LeadsBack
<1> DEFINE x == Written(h, N, k, p, c)
           y == Gone(h, N, k, p)
<1>3. Trail(x, R) /\ Trail(y, R)
    BY <1>1, <1>2, Touch
<1>4. h \in [0..N -> Dirs] /\ \A i \in 0..N : h[i] \in Dirs
    BY <1>2 DEF Trail
<1>5. \A i \in 0..N : x[i] = IF i >= k THEN With(h[i], p, c) ELSE h[i]
    BY DEF Written
<1>6. \A i \in 0..N : y[i] = IF i >= k THEN Without(h[i], p) ELSE h[i]
    BY DEF Gone
<1>7. x[N] = With(f, p, c) /\ y[N] = Without(f, p)
    BY <1>1, <1>2, <1>5, <1>6
<1>8. Base(x[0], o, n, IF k = 0 THEN J \cup {p} ELSE J) /\ Base(y[0], o, n, IF k = 0 THEN J \ {p} ELSE J)
  <2>1. CASE k = 0
    <3>1. x[0] = With(h[0], p, c) /\ y[0] = Without(h[0], p) /\ h[0] \in Dirs
        BY <1>1, <1>4, <1>5, <1>6, <2>1
    <3> QED
        BY <1>2, <2>1, <3>1, BaseApart, SMTT(30)
  <2>2. CASE k # 0
    <3>1. x[0] = h[0] /\ y[0] = h[0]
        BY <1>1, <1>5, <1>6, <2>2
    <3> QED
        BY <1>2, <2>2, <3>1
  <2> QED
      BY <2>1, <2>2
<1>9. ASSUME w, NEW i \in 0..N PROVE Targets(x[i], o) /\ Targets(y[i], o)
  <2>1. h[i] \in Dirs /\ Targets(h[i], o)
      BY <1>2, <1>4, <1>9
  <2>2. Targets(With(h[i], p, c), o) /\ Targets(Without(h[i], p), o)
      BY <2>1, BaseApart
  <2> QED
      BY <1>5, <1>6, <2>1, <2>2
<1> HIDE DEF x, y
<1> QED
    BY <1>3, <1>7, <1>8, <1>9 DEF LeadsBack

\* A file that no record names is written or removed.
LEMMA FreshBack ==
    ASSUME NEW R \in Seq(UndoRecords), NEW f, NEW o, NEW n, NEW J, NEW w \in BOOLEAN,
           NEW p \in Temps \cup CutPaths, NEW c \in Contents, LeadsBack(f, R, o, n, J, w), Unmentioned(p, R)
    PROVE  LeadsBack(With(f, p, c), R, o, n, J \cup {p}, w) /\ LeadsBack(Without(f, p), R, o, n, J \ {p}, w)
<1>1. PICK k \in 0..Len(R) : k = 0
    OBVIOUS
<1>2. k > 0 => R[k].kind = "REMOVE" /\ R[k].from = p
    BY <1>1
<1>3. \A i \in 1..Len(R) : i > k => p \notin PathsOf(R[i])
    BY DEF Unmentioned
<1>4. /\ LeadsBack(With(f, p, c), R, o, n, IF k = 0 THEN J \cup {p} ELSE J, w)
      /\ LeadsBack(Without(f, p), R, o, n, IF k = 0 THEN J \ {p} ELSE J, w)
    BY <1>2, <1>3, TouchBack
<1> QED
    BY <1>1, <1>4

\* A file that a record removes, and none names after it, is written or removed.
LEMMA TrackedBack ==
    ASSUME NEW R \in Seq(UndoRecords), NEW f, NEW o, NEW n, NEW J, NEW w \in BOOLEAN,
           NEW p \in Temps \cup CutPaths, NEW c \in Contents, LeadsBack(f, R, o, n, J, w), Tracked(p, R)
    PROVE  LeadsBack(With(f, p, c), R, o, n, J, w) /\ LeadsBack(Without(f, p), R, o, n, J, w)
<1>1. PICK k \in 1..Len(R) :
        R[k].kind = "REMOVE" /\ R[k].from = p /\ \A i \in 1..Len(R) : i > k => p \notin PathsOf(R[i])
    BY DEF Tracked
<1>2. k \in 0..Len(R) /\ k # 0
    OBVIOUS
<1>3. /\ LeadsBack(With(f, p, c), R, o, n, IF k = 0 THEN J \cup {p} ELSE J, w)
      /\ LeadsBack(Without(f, p), R, o, n, IF k = 0 THEN J \ {p} ELSE J, w)
    BY <1>1, <1>2, TouchBack
<1> QED
    BY <1>2, <1>3

------------------------------------------------------------------------------
(* One record more, one record less. *)

\* A sequence is its front and its last element.
LEMMA FrontAndLast ==
    ASSUME NEW S, NEW s \in Seq(S), s # <<>>
    PROVE  /\ Front(s) \in Seq(S) /\ Len(Front(s)) = Len(s) - 1 /\ Len(s) \in Nat \ {0}
           /\ \A i \in 1..Len(s) - 1 : Front(s)[i] = s[i]
           /\ Last(s) \in S /\ Last(s) = s[Len(s)] /\ s = Append(Front(s), Last(s))
<1>1. Len(s) \in Nat \ {0} /\ s[Len(s)] \in S
    BY EmptySeq
<1>2. Front(s) = SubSeq(s, 1, Len(s) - 1) /\ Last(s) = s[Len(s)]
    BY DEF Front, Last
<1>3. Front(s) \in Seq(S) /\ Len(Front(s)) = Len(s) - 1 /\ \A i \in 1..Len(s) - 1 : Front(s)[i] = s[i]
  <2>1. 1 \in Int /\ Len(s) - 1 \in Int /\ \A i \in 1..Len(s) - 1 : s[i] \in S
      BY <1>1
  <2>2. /\ SubSeq(s, 1, Len(s) - 1) \in Seq(S)
        /\ Len(SubSeq(s, 1, Len(s) - 1)) = IF 1 <= Len(s) - 1 THEN Len(s) - 1 - 1 + 1 ELSE 0
        /\ \A i \in 1..Len(s) - 1 - 1 + 1 : SubSeq(s, 1, Len(s) - 1)[i] = s[1 + i - 1]
      BY <2>1, SubSeqProperties
  <2>3. /\ Front(s) \in Seq(S)
        /\ Len(Front(s)) = IF 1 <= Len(s) - 1 THEN Len(s) - 1 - 1 + 1 ELSE 0
        /\ \A i \in 1..Len(s) - 1 - 1 + 1 : Front(s)[i] = s[1 + i - 1]
      BY <1>2, <2>2, Zenon
  <2>4. Len(s) - 1 - 1 + 1 = Len(s) - 1 /\ \A i \in 1..Len(s) - 1 : 1 + i - 1 = i
      BY <1>1
  <2>5. Len(Front(s)) = Len(s) - 1
    <3>1. CASE 1 <= Len(s) - 1
      <4>1. Len(Front(s)) = Len(s) - 1 - 1 + 1
          BY <2>3, <3>1, Zenon
      <4> QED
          BY <2>4, <4>1, Zenon
    <3>2. CASE ~(1 <= Len(s) - 1)
      <4>1. Len(Front(s)) = 0
          BY <2>3, <3>2, Zenon
      <4>2. Len(s) - 1 = 0
        <5>1. PICK N \in Nat : N = Len(s)
            BY <1>1, Zenon
        <5>2. N # 0 /\ ~(1 <= N - 1)
            BY <1>1, <3>2, <5>1, Zenon
        <5>3. N - 1 = 0
            BY <5>2
        <5> QED
            BY <5>1, <5>3, Zenon
      <4> QED
          BY <4>1, <4>2, Zenon
    <3> QED
        BY <3>1, <3>2
  <2>6. \A i \in 1..Len(s) - 1 : Front(s)[i] = s[i]
    <3> SUFFICES ASSUME NEW i \in 1..Len(s) - 1 PROVE Front(s)[i] = s[i]
        OBVIOUS
    <3>1. Front(s)[i] = s[1 + i - 1]
        BY <2>3, <2>4, Zenon
    <3> QED
        BY <2>4, <3>1
  <2> QED
      BY <2>3, <2>5, <2>6
<1>4. s = Append(Front(s), Last(s))
    BY <1>1, <1>2, <1>3
<1> QED
    BY <1>1, <1>2, <1>3, <1>4

\* What is led back from is a directory, in which no target is away.
LEMMA BackIs ==
    ASSUME NEW R \in Seq(UndoRecords), NEW f, NEW o, NEW n, NEW J, NEW w \in BOOLEAN, LeadsBack(f, R, o, n, J, w)
    PROVE  f \in Dirs /\ (w => Targets(f, o))
<1>1. PICK h : /\ h \in [0..Len(R) -> Dirs] /\ h[Len(R)] = f
               /\ w => \A i \in 0..Len(R) : Targets(h[i], o)
    BY DEF LeadsBack, Trail
<1>2. Len(R) \in 0..Len(R)
    OBVIOUS
<1> QED
    BY <1>1, <1>2

\* A record whose undo leads to a directory that is led back from.
LEMMA OneMore ==
    ASSUME NEW R \in Seq(UndoRecords), NEW f, NEW o, NEW n, NEW J, NEW w \in BOOLEAN, LeadsBack(f, R, o, n, J, w),
           NEW r \in UndoRecords, NEW g \in Dirs, StepsBack(r, f, g), w => Targets(g, o)
    PROVE  LeadsBack(g, Append(R, r), o, n, J, w)
<1> DEFINE N == Len(R)
           S == Append(R, r)
<1>1. PICK h : /\ Trail(h, R) /\ h[N] = f /\ Base(h[0], o, n, J)
               /\ w => \A i \in 0..N : Targets(h[i], o)
    BY DEF LeadsBack
<1>2. N \in Nat /\ S \in Seq(UndoRecords) /\ Len(S) = N + 1 /\ S[N + 1] = r /\ \A i \in 1..N : S[i] = R[i]
    OBVIOUS
<1> DEFINE x == [i \in 0..N + 1 |-> IF i <= N THEN h[i] ELSE g]
<1>3. h \in [0..N -> Dirs] /\ \A i \in 1..N : StepsBack(R[i], h[i - 1], h[i])
    BY <1>1 DEF Trail
<1>4. x \in [0..N + 1 -> Dirs] /\ x[N + 1] = g /\ \A i \in 0..N : x[i] = h[i]
    BY <1>2, <1>3
<1> HIDE DEF x, S
<1>5. ASSUME NEW i \in 1..N + 1 PROVE StepsBack(S[i], x[i - 1], x[i])
  <2>1. CASE i = N + 1
    <3>1. x[i - 1] = f /\ x[i] = g /\ S[i] = r
        BY <1>1, <1>2, <1>4, <2>1
    <3> QED
        BY <3>1
  <2>2. CASE i # N + 1
    <3>1. i \in 1..N /\ x[i - 1] = h[i - 1] /\ x[i] = h[i] /\ S[i] = R[i]
        BY <1>2, <1>4, <2>2
    <3> QED
        BY <1>3, <3>1
  <2> QED
      BY <2>1, <2>2
<1>6. Trail(x, S)
    BY <1>2, <1>4, <1>5 DEF Trail
<1>7. x[0] = h[0] /\ (w => \A i \in 0..N + 1 : Targets(x[i], o))
  <2>1. x[0] = h[0]
      BY <1>2, <1>4
  <2>2. ASSUME w, NEW i \in 0..N + 1 PROVE Targets(x[i], o)
    <3>1. i = N + 1 \/ i \in 0..N
        BY <1>2
    <3> QED
        BY <1>1, <1>4, <2>2, <3>1
  <2> QED
      BY <2>1, <2>2
<1> QED
    BY <1>1, <1>2, <1>4, <1>6, <1>7 DEF LeadsBack, S

\* Undoing the last record leads to a directory that the others lead back from.
LEMMA OneLess ==
    ASSUME NEW R \in Seq(UndoRecords), R # <<>>, NEW f, NEW o, NEW n, NEW J, NEW w \in BOOLEAN,
           LeadsBack(f, R, o, n, J, w)
    PROVE  \E g \in Dirs : StepsBack(Last(R), g, f) /\ LeadsBack(g, Front(R), o, n, J, w)
<1> DEFINE N == Len(R)
           S == Front(R)
<1>1. PICK h : /\ Trail(h, R) /\ h[N] = f /\ Base(h[0], o, n, J)
               /\ w => \A i \in 0..N : Targets(h[i], o)
    BY DEF LeadsBack
<1>2. /\ S \in Seq(UndoRecords) /\ Len(S) = N - 1 /\ N \in Nat \ {0}
      /\ Last(R) = R[N] /\ \A i \in 1..N - 1 : S[i] = R[i]
    BY FrontAndLast
<1>3. h \in [0..N -> Dirs] /\ \A i \in 1..N : StepsBack(R[i], h[i - 1], h[i])
    BY <1>1 DEF Trail
<1> HIDE DEF S
<1> DEFINE x == [i \in 0..N - 1 |-> h[i]]
<1>4. x \in [0..N - 1 -> Dirs] /\ \A i \in 0..N - 1 : x[i] = h[i]
    BY <1>2, <1>3
<1> HIDE DEF x
<1>5. ASSUME NEW i \in 1..N - 1 PROVE StepsBack(S[i], x[i - 1], x[i])
  <2>1. i \in 1..N /\ x[i - 1] = h[i - 1] /\ x[i] = h[i] /\ S[i] = R[i]
      BY <1>2, <1>4
  <2> QED
      BY <1>3, <2>1
<1>6. Trail(x, S)
    BY <1>2, <1>4, <1>5 DEF Trail
<1>7. x[0] = h[0] /\ x[N - 1] = h[N - 1] /\ N - 1 \in 0..N /\ N \in 1..N
      /\ (w => \A i \in 0..N - 1 : Targets(x[i], o))
    BY <1>1, <1>2, <1>4
<1>8. LeadsBack(h[N - 1], S, o, n, J, w)
    BY <1>1, <1>2, <1>6, <1>7 DEF LeadsBack
<1>9. h[N - 1] \in Dirs /\ StepsBack(Last(R), h[N - 1], f)
    BY <1>1, <1>2, <1>3, <1>7
<1> QED
    BY <1>8, <1>9 DEF S

\* A record may be logged while what it undoes has not been done.
CanLog(r, g, R) ==
    \/ r.kind = "REMOVE" /\ Unmentioned(r.from, R)
    \/ r.kind = "MOVE" /\ ~Has(g, r.from)
    \/ r.kind = "REPLACE" /\ {r.from, r.to, r.witness} \subseteq DOMAIN g /\ ~Has(g, r.staging)
       /\ g[r.from] = g[r.to]

\* A record is logged.
LEMMA LogBack ==
    ASSUME NEW R \in Seq(UndoRecords), NEW f, NEW o, NEW n, NEW J, NEW w \in BOOLEAN, LeadsBack(f, R, o, n, J, w),
           NEW r \in UndoRecords, CanLog(r, f, R)
    PROVE  LeadsBack(f, Append(R, r), o, n, IF r.kind = "REMOVE" THEN J \ {r.from} ELSE J, w)
<1>1. f \in Dirs /\ (w => Targets(f, o))
    BY BackIs
<1>2. CASE r.kind = "REMOVE"
  <2>1. r.from \in Temps \cup CutPaths /\ Unmentioned(r.from, R)
      BY <1>2, KindOfRecord DEF CanLog, IsRemove
  <2>2. PICK c \in Contents : c = Foreign
      BY DEF Contents
  <2>3. LeadsBack(Without(f, r.from), R, o, n, J \ {r.from}, w)
    <3>1. PICK p \in Temps \cup CutPaths : p = r.from
        BY <2>1
    <3>2. LeadsBack(With(f, p, c), R, o, n, J \cup {p}, w) /\ LeadsBack(Without(f, p), R, o, n, J \ {p}, w)
        BY <2>1, <3>1, FreshBack
    <3> QED
        BY <3>1, <3>2
  <2>4. StepsBack(r, Without(f, r.from), f)
      BY <1>2 DEF StepsBack, Removes
  <2>5. LeadsBack(f, Append(R, r), o, n, J \ {r.from}, w)
      BY <1>1, <2>3, <2>4, OneMore
  <2> QED
      BY <1>2, <2>5
<1>3. CASE r.kind = "MOVE"
  <2>1. StepsBack(r, f, f)
      BY <1>3 DEF CanLog, StepsBack, WasNotMoved
  <2>2. LeadsBack(f, Append(R, r), o, n, J, w)
      BY <1>1, <2>1, OneMore
  <2> QED
      BY <1>3, <2>2
<1>4. CASE r.kind = "REPLACE"
  <2>1. {r.from, r.to, r.witness} \subseteq DOMAIN f /\ ~Has(f, r.staging) /\ f[r.from] = f[r.to]
      BY <1>4 DEF CanLog
  <2>2. r.to \in AllPaths /\ f[r.from] \in Contents
      BY <1>1, <2>1, DirIs
  <2>3. IsWith(With(f, r.to, f[r.from]), f, r.to, f[r.from])
      BY <1>1, <2>2, WithIs
  <2>4. With(f, r.to, f[r.from]) = f
    <3> DEFINE g == With(f, r.to, f[r.from])
    <3> HIDE DEF g
    <3>1. g \in Dirs /\ DOMAIN g = DOMAIN f /\ \A q \in DOMAIN g : g[q] = f[q]
        BY <2>1, <2>3 DEF g, IsWith
    <3>2. g = f
        BY <1>1, <3>1, DirEqual
    <3> QED
        BY <3>2 DEF g
  <2>5. StepsBack(r, f, f)
      BY <1>4, <2>1, <2>4 DEF StepsBack, PutsBack
  <2>6. LeadsBack(f, Append(R, r), o, n, J, w)
      BY <1>1, <2>5, OneMore
  <2> QED
      BY <1>4, <2>6
<1> QED
    BY <1>2, <1>3, <1>4 DEF CanLog

\* A file is moved after the record for it.
LEMMA MovedBack ==
    ASSUME NEW R \in Seq(UndoRecords), R # <<>>, NEW f, NEW o, NEW n, NEW J, NEW w \in BOOLEAN,
           LeadsBack(f, R, o, n, J, w), NEW p \in DOMAIN f, NEW q \in AllPaths \ DOMAIN f,
           Last(R).kind = "MOVE", Last(R).from = q, Last(R).to = p, w => p \in Temps
    PROVE  LeadsBack(Renamed(f, p, q), R, o, n, J, w)
<1>1. f \in Dirs /\ (w => Targets(f, o)) /\ p # q /\ p \in AllPaths
    BY BackIs, DirIs
<1>2. PICK g \in Dirs : StepsBack(Last(R), g, f) /\ LeadsBack(g, Front(R), o, n, J, w)
    BY OneLess
<1>3. g = f
    BY <1>2 DEF StepsBack, Removes, MovesBack, WasNotMoved, PutsBack, Has
<1>4. Front(R) \in Seq(UndoRecords) /\ Last(R) \in UndoRecords /\ R = Append(Front(R), Last(R))
    BY FrontAndLast
<1> DEFINE x == Renamed(f, p, q)
<1> HIDE DEF x
<1>5. IsRenamed(x, f, p, q)
    BY <1>1, RenamedIs DEF x
<1>6. q \in DOMAIN x /\ p \notin DOMAIN x /\ x \in Dirs
    BY <1>1, <1>5 DEF IsRenamed
<1>7. IsRenamed(Renamed(x, q, p), x, q, p)
    BY <1>1, <1>6, RenamedIs
<1> DEFINE y == Renamed(x, q, p)
<1> HIDE DEF y
<1>8. y = f
  <2>1. y \in Dirs /\ DOMAIN y = DOMAIN f
      BY <1>1, <1>5, <1>7 DEF IsRenamed, y
  <2>2. \A a \in DOMAIN y : y[a] = f[a]
      BY <1>1, <1>5, <1>7, <2>1 DEF IsRenamed, y
  <2> QED
      BY <1>1, <2>1, <2>2, DirEqual
<1>9. StepsBack(Last(R), f, x)
    BY <1>6, <1>8 DEF StepsBack, MovesBack, Has, y
<1>10. ASSUME w PROVE Targets(x, o)
  <2>1. p \notin Files
      BY <1>10, PathKinds DEF UserPaths
  <2> QED
      BY <1>1, <1>5, <1>10, <2>1 DEF Targets, Has, IsRenamed
<1>11. LeadsBack(x, Append(Front(R), Last(R)), o, n, J, w)
    BY <1>2, <1>3, <1>4, <1>6, <1>9, <1>10, OneMore
<1> QED
    BY <1>4, <1>11 DEF x

\* The target is replaced after the record for it.
LEMMA ReplacedBack ==
    ASSUME NEW R \in Seq(UndoRecords), R # <<>>, NEW f, NEW o, NEW n, NEW J, NEW w \in BOOLEAN,
           LeadsBack(f, R, o, n, J, w), Last(R).kind = "REPLACE",
           NEW c \in Contents, Has(f, Last(R).witness), f[Last(R).witness] = c, w => c \in Payloads
    PROVE  LeadsBack(With(f, Last(R).to, c), R, o, n, J, w)
<1>1. f \in Dirs /\ (w => Targets(f, o))
    BY BackIs
<1>2. PICK g \in Dirs : StepsBack(Last(R), g, f) /\ LeadsBack(g, Front(R), o, n, J, w)
    BY OneLess
<1>3. Front(R) \in Seq(UndoRecords) /\ Last(R) \in UndoRecords /\ R = Append(Front(R), Last(R))
    BY FrontAndLast
<1> DEFINE u == Last(R)
           x == With(f, u.to, c)
<1> HIDE DEF u, x
<1>4. /\ {u.from, u.to, u.witness} \subseteq DOMAIN f /\ u.staging \notin DOMAIN f
      /\ g = With(f, u.to, f[u.from]) /\ u.kind = "REPLACE" /\ u \in UndoRecords
    BY <1>2, <1>3 DEF StepsBack, Removes, MovesBack, WasNotMoved, PutsBack, Has, u
<1>5. /\ u.to \in AllPaths /\ u.to \in UserPaths /\ f[u.from] \in Contents
      /\ u.from # u.to /\ u.witness # u.to /\ f[u.witness] = c
    BY <1>1, <1>4, KindOfRecord, DirIs, PathKinds DEF IsReplace, UserPaths, u
<1>6. IsWith(x, f, u.to, c) /\ IsWith(g, f, u.to, f[u.from])
    BY <1>1, <1>4, <1>5, WithIs DEF x
<1>7. /\ x \in Dirs /\ DOMAIN x = DOMAIN f /\ x[u.to] = c /\ x[u.from] = f[u.from] /\ x[u.witness] = c
    BY <1>4, <1>5, <1>6 DEF IsWith
<1>8. IsWith(With(x, u.to, x[u.from]), x, u.to, x[u.from])
    BY <1>5, <1>7, WithIs
<1> DEFINE y == With(x, u.to, x[u.from])
<1> HIDE DEF y
<1>9. y = g
  <2>1. y \in Dirs /\ DOMAIN y = DOMAIN g
      BY <1>6, <1>8 DEF IsWith, y
  <2>2. \A a \in DOMAIN y : y[a] = g[a]
      BY <1>6, <1>7, <1>8, <2>1 DEF IsWith, y
  <2> QED
      BY <2>1, <2>2, DirEqual
<1>10. StepsBack(u, g, x)
    BY <1>4, <1>7, <1>9 DEF StepsBack, PutsBack, Has, y
<1>11. ASSUME w PROVE Targets(x, o)
    BY <1>1, <1>6, <1>11 DEF Targets, Has, IsWith
<1>12. LeadsBack(x, Append(Front(R), u), o, n, J, w)
    BY <1>2, <1>3, <1>4, <1>7, <1>10, <1>11, OneMore DEF u
<1> QED
    BY <1>3, <1>12 DEF x, u

------------------------------------------------------------------------------
(* What the rest of a step will do. *)

\* The paths and the primitives of step s of run n.
Names(n, s) == UserPaths \cup {Temp(n, s, tag) : tag \in Tags}
Logged(n, s) == {r \in UndoRecords : r.ended /\ PathsOf(r) \subseteq Names(n, s)}
Items(n, s) ==
    {Log(r) : r \in Logged(n, s)} \cup {Fail}
    \cup {Write(p, c) : p \in Names(n, s) \cap Temps, c \in Contents}
    \cup {Copy(p, q) : p \in Names(n, s), q \in Names(n, s) \cap Temps}
    \cup {MoveTo(p, q, l) : p \in Names(n, s), q \in Names(n, s), l \in Seq(Temps)}
    \cup {Publish(p, q, l) : p \in Names(n, s) \cap Temps, q \in Files, l \in Seq(Temps)}

\* The temporary file that is there and that no record names yet.
Loose(todo) ==
    {p \in Temps : todo # <<>> /\ Head(todo) = Log(RemoveRecord(p)) /\ p.tag \in {"new", "copy"}}

\* What read_journal asks of a REPLACE record, and of all of them.
Removed(p, R) == \E k \in DOMAIN R : R[k] = RemoveRecord(p)
NotReplaced(p, R) == \A k \in DOMAIN R : R[k].kind = "REPLACE" => R[k].from # p
Prepared(r, R) == Removed(r.from, R) /\ Removed(r.witness, R) /\ Removed(r.staging, R) /\ NotReplaced(r.from, R)
Readable(R) ==
    \A i \in 1..Len(R) : R[i].kind = "REPLACE" =>
        /\ \A p \in {R[i].from, R[i].witness, R[i].staging} : \E k \in 1..i - 1 : R[k] = RemoveRecord(p)
        /\ \A k \in 1..i - 1 : R[k].kind = "REPLACE" => R[k].from # R[i].from

\* The primitive i, with rest to follow, leads from the directory g and the records R to x and S; if w,
\* it takes no user's file away and publishes only what AtomicWrite is to write.
LogLeads(i, rest, g, R, x, S, w) ==
    /\ i.do = "log" /\ CanLog(i.record, g, R) /\ (i.record.kind = "REPLACE" => Prepared(i.record, R))
    /\ x = g /\ S = Append(R, i.record)
WriteLeads(i, rest, g, R, x, S, w) ==
    /\ i.do = "write" /\ Unmentioned(i.to, R) /\ i.to \in Loose(rest)
    /\ x = With(g, i.to, i.data) /\ S = R
CopyLeads(i, rest, g, R, x, S, w) ==
    /\ i.do = "copy" /\ Has(g, i.from) /\ ((Unmentioned(i.to, R) /\ i.to \in Loose(rest)) \/ Tracked(i.to, R))
    /\ x = With(g, i.to, g[i.from]) /\ S = R
MoveLeads(i, rest, g, R, x, S, w) ==
    /\ i.do = "move" /\ Has(g, i.from) /\ ~Has(g, i.to)
    /\ R # <<>> /\ Last(R).kind = "MOVE" /\ Last(R).from = i.to /\ Last(R).to = i.from
    /\ w => i.from \in Temps
    /\ x = Renamed(g, i.from, i.to) /\ S = R
PublishLeads(i, rest, g, R, x, S, w) ==
    /\ i.do = "replace" /\ Has(g, i.from) /\ Tracked(i.from, R)
    /\ R # <<>> /\ Last(R).kind = "REPLACE" /\ Last(R).to = i.to /\ i.from \notin PathsOf(Last(R))
    /\ Has(g, Last(R).witness) /\ g[Last(R).witness] = g[i.from]
    /\ w => g[i.from] \in Payloads
    /\ x = Renamed(g, i.from, i.to) /\ S = R
Leads(i, rest, g, R, x, S, w) ==
    \/ LogLeads(i, rest, g, R, x, S, w) \/ WriteLeads(i, rest, g, R, x, S, w) \/ CopyLeads(i, rest, g, R, x, S, w)
    \/ MoveLeads(i, rest, g, R, x, S, w) \/ PublishLeads(i, rest, g, R, x, S, w)
Impossible(i, g) ==
    \/ i.do = "fail"
    \/ i.do = "copy" /\ ~Has(g, i.from)
    \/ i.do = "move" /\ ~(Has(g, i.from) /\ ~Has(g, i.to))
    \/ i.do = "replace" /\ ~Has(g, i.from)

\* Each primitive of todo leads on, up to one that is impossible.
Closed(Z, w) ==
    \A z \in Z :
        \/ z[1] = <<>> \/ Impossible(Head(z[1]), z[2])
        \/ \E x, S : Leads(Head(z[1]), Tail(z[1]), z[2], z[3], x, S, w) /\ <<Tail(z[1]), x, S>> \in Z
Ready(todo, g, R, w) == \E Z : <<todo, g, R>> \in Z /\ Closed(Z, w)

\* The first primitive of what is to do.
LEMMA ReadyHead ==
    ASSUME NEW todo, NEW g, NEW R, NEW w, todo # <<>>, Ready(todo, g, R, w)
    PROVE  \/ Impossible(Head(todo), g)
           \/ \E x, S : Leads(Head(todo), Tail(todo), g, R, x, S, w) /\ Ready(Tail(todo), x, S, w)
<1>1. PICK Z : <<todo, g, R>> \in Z /\ Closed(Z, w)
    BY DEF Ready
<1>2. \/ todo = <<>> \/ Impossible(Head(todo), g)
      \/ \E x, S : Leads(Head(todo), Tail(todo), g, R, x, S, w) /\ <<Tail(todo), x, S>> \in Z
  <2> DEFINE z == <<todo, g, R>>
  <2>1. z \in Z /\ z[1] = todo /\ z[2] = g /\ z[3] = R
      BY <1>1
  <2> HIDE DEF z
  <2>2. \/ z[1] = <<>> \/ Impossible(Head(z[1]), z[2])
        \/ \E x, S : Leads(Head(z[1]), Tail(z[1]), z[2], z[3], x, S, w) /\ <<Tail(z[1]), x, S>> \in Z
      BY <1>1, <2>1 DEF Closed
  <2> QED
      BY <2>1, <2>2
<1> QED
    BY <1>1, <1>2 DEF Ready

\* Nothing is to do.
LEMMA ReadyNothing ==
    ASSUME NEW g, NEW R, NEW w
    PROVE  Ready(<<>>, g, R, w)
<1>1. <<<<>>, g, R>> \in {<<<<>>, g, R>>} /\ Closed({<<<<>>, g, R>>}, w)
    BY DEF Closed
<1> QED
    BY <1>1 DEF Ready

\* One primitive more is to do.
LEMMA ReadyMore ==
    ASSUME NEW todo, NEW g, NEW R, NEW w,
           \/ Impossible(Head(todo), g)
           \/ \E x, S : Leads(Head(todo), Tail(todo), g, R, x, S, w) /\ Ready(Tail(todo), x, S, w)
    PROVE  Ready(todo, g, R, w)
<1> DEFINE a == <<todo, g, R>>
<1>1. a[1] = todo /\ a[2] = g /\ a[3] = R
    OBVIOUS
<1> HIDE DEF a
<1>2. CASE Impossible(Head(todo), g)
  <2>1. Closed({a}, w)
      BY <1>1, <1>2 DEF Closed
  <2>2. a \in {a}
      OBVIOUS
  <2> QED
      BY <2>1, <2>2 DEF Ready, a
<1>3. CASE \E x, S : Leads(Head(todo), Tail(todo), g, R, x, S, w) /\ Ready(Tail(todo), x, S, w)
  <2>1. PICK x, S, Z : Leads(Head(todo), Tail(todo), g, R, x, S, w) /\ <<Tail(todo), x, S>> \in Z /\ Closed(Z, w)
      BY <1>3 DEF Ready
  <2> DEFINE Y == Z \cup {a}
  <2>2. <<Tail(a[1]), x, S>> \in Y /\ Leads(Head(a[1]), Tail(a[1]), a[2], a[3], x, S, w)
      BY <1>1, <2>1
  <2>3. ASSUME NEW z \in Y
        PROVE  \/ z[1] = <<>> \/ Impossible(Head(z[1]), z[2])
               \/ \E y, T : Leads(Head(z[1]), Tail(z[1]), z[2], z[3], y, T, w) /\ <<Tail(z[1]), y, T>> \in Y
    <3>1. CASE z = a
        BY <2>2, <3>1
    <3>2. CASE z \in Z
        BY <2>1, <3>2 DEF Closed
    <3> QED
        BY <3>1, <3>2
  <2>4. Closed(Y, w) /\ a \in Y
      BY <2>3 DEF Closed
  <2> QED
      BY <2>4 DEF Ready, a
<1> QED
    BY <1>2, <1>3

\* A primitive that leads on is to do first.
LEMMA ReadyFirst ==
    ASSUME NEW todo, NEW i, NEW rest, Head(todo) = i, Tail(todo) = rest, NEW g, NEW R, NEW w,
           NEW x, NEW S, Leads(i, rest, g, R, x, S, w), Ready(rest, x, S, w)
    PROVE  Ready(todo, g, R, w)
BY ReadyMore

------------------------------------------------------------------------------
(* A primitive keeps what leads back. *)

\* More temporary files may be left.
LEMMA LooserBack ==
    ASSUME NEW R, NEW f, NEW o, NEW n, NEW J, NEW w, LeadsBack(f, R, o, n, J, w), NEW K, J \subseteq K
    PROVE  LeadsBack(f, R, o, n, K, w)
<1>1. \A g : Base(g, o, n, J) => Base(g, o, n, K)
    BY DEF Base
<1> QED
    BY <1>1 DEF LeadsBack

\* The records of primitives are undo records.
LEMMA ItemIs ==
    ASSUME NEW n \in Nat, NEW s \in Nat, NEW i \in Items(n, s)
    PROVE  /\ i.do = "log" => i.record \in Logged(n, s) /\ i = Log(i.record)
           /\ i.do = "write" => i.to \in Names(n, s) \cap Temps /\ i.data \in Contents
           /\ i.do = "copy" => i.from \in Names(n, s) /\ i.to \in Names(n, s) \cap Temps
           /\ i.do = "move" => i.from \in Names(n, s) /\ i.to \in Names(n, s) /\ i.later \in Seq(Temps)
           /\ i.do = "replace" => i.from \in Names(n, s) \cap Temps /\ i.to \in Files /\ i.later \in Seq(Temps)
           /\ i.do \in {"log", "write", "copy", "move", "replace", "fail"}
BY DEF Items, Log, Write, Copy, MoveTo, Publish, Fail

\* The names of a step.
LEMMA NamesAre ==
    ASSUME NEW n \in Nat, NEW s \in Nat
    PROVE  Names(n, s) \subseteq Paths /\ Paths \subseteq AllPaths /\ Files \subseteq UserPaths
BY TempNames DEF Names, Paths, AllPaths, UserPaths

\* A record that may be logged keeps the records readable.
LEMMA ReadableMore ==
    ASSUME NEW R \in Seq(UndoRecords), Readable(R), NEW r \in UndoRecords, r.kind = "REPLACE" => Prepared(r, R)
    PROVE  Readable(Append(R, r))
<1> DEFINE S == Append(R, r)
           N == Len(R)
<1>1. N \in Nat /\ Len(S) = N + 1 /\ S[N + 1] = r /\ \A i \in 1..N : S[i] = R[i]
    OBVIOUS
<1> HIDE DEF S
<1>2. ASSUME NEW i \in 1..N + 1, S[i].kind = "REPLACE"
      PROVE  /\ \A p \in {S[i].from, S[i].witness, S[i].staging} : \E k \in 1..i - 1 : S[k] = RemoveRecord(p)
             /\ \A k \in 1..i - 1 : S[k].kind = "REPLACE" => S[k].from # S[i].from
  <2>1. CASE i = N + 1
    <3>1. S[i] = r /\ Prepared(r, R) /\ i - 1 = N /\ DOMAIN R = 1..N
        BY <1>1, <1>2, <2>1
    <3> QED
        BY <1>1, <3>1 DEF Prepared, Removed, NotReplaced
  <2>2. CASE i \in 1..N
    <3>1. S[i] = R[i] /\ \A k \in 1..i - 1 : k \in 1..N /\ S[k] = R[k]
        BY <1>1, <2>2
    <3>2. /\ \A p \in {R[i].from, R[i].witness, R[i].staging} : \E k \in 1..i - 1 : R[k] = RemoveRecord(p)
          /\ \A k \in 1..i - 1 : R[k].kind = "REPLACE" => R[k].from # R[i].from
        BY <1>2, <2>2, <3>1 DEF Readable
    <3> QED
        BY <3>1, <3>2
  <2> QED
      BY <1>1, <2>1, <2>2
<1> QED
    BY <1>1, <1>2 DEF Readable, S

\* A primitive that is done keeps what leads back, and the records readable.
LEMMA LeadsKeep ==
    ASSUME NEW n \in Nat, NEW s \in Nat, NEW todo \in Seq(Items(n, s)), todo # <<>>,
           NEW R \in Seq(UndoRecords), Readable(R), NEW g, NEW o, NEW w \in BOOLEAN,
           LeadsBack(g, R, o, n, Loose(todo), w),
           NEW x, NEW S, Leads(Head(todo), Tail(todo), g, R, x, S, w)
    PROVE  S \in Seq(UndoRecords) /\ Readable(S) /\ LeadsBack(x, S, o, n, Loose(Tail(todo)), w)
<1> DEFINE i == Head(todo)
           rest == Tail(todo)
<1>1. i \in Items(n, s) /\ g \in Dirs
    BY BackIs
<1> HIDE DEF i, rest
<1>2. CASE LogLeads(i, rest, g, R, x, S, w)
  <2>1. /\ i = Log(i.record) /\ i.record \in UndoRecords /\ CanLog(i.record, g, R) /\ x = g /\ S = Append(R, i.record)
        /\ i.record.kind = "REPLACE" => Prepared(i.record, R)
      BY <1>1, <1>2, ItemIs DEF LogLeads, Logged
  <2> DEFINE r == i.record
  <2>2. S \in Seq(UndoRecords) /\ Readable(S)
      BY <2>1, ReadableMore
  <2>3. LeadsBack(x, S, o, n, IF r.kind = "REMOVE" THEN Loose(todo) \ {r.from} ELSE Loose(todo), w)
      BY <2>1, LogBack
  <2>4. (IF r.kind = "REMOVE" THEN Loose(todo) \ {r.from} ELSE Loose(todo)) = {}
    <3>1. \A p \in Loose(todo) : i = Log(RemoveRecord(p))
        BY DEF Loose, i
    <3>2. \A p \in Loose(todo) : r = RemoveRecord(p) /\ r.kind = "REMOVE" /\ r.from = p
        BY <2>1, <3>1 DEF Log, RemoveRecord, Record
    <3> QED
        BY <3>2
  <2> QED
      BY <2>2, <2>3, <2>4, LooserBack DEF rest
<1>3. ASSUME i.do # "log" PROVE Loose(todo) = {}
    BY <1>3 DEF Loose, Log, i
<1>4. CASE WriteLeads(i, rest, g, R, x, S, w)
  <2>1. /\ i.to \in Temps /\ i.data \in Contents /\ Unmentioned(i.to, R) /\ i.to \in Loose(rest)
        /\ x = With(g, i.to, i.data) /\ S = R /\ Loose(todo) = {}
      BY <1>1, <1>3, <1>4, ItemIs DEF WriteLeads
  <2>2. PICK p \in Temps \cup CutPaths, c \in Contents : p = i.to /\ c = i.data
      BY <2>1
  <2>3. LeadsBack(With(g, p, c), R, o, n, Loose(todo) \cup {p}, w)
    <3>1. Unmentioned(p, R)
        BY <2>1, <2>2
    <3> QED
        BY <3>1, FreshBack, ZenonT(30)
  <2>4. Loose(todo) \cup {p} \subseteq Loose(rest)
      BY <2>1, <2>2
  <2> QED
      BY <2>1, <2>2, <2>3, <2>4, LooserBack DEF rest
<1>5. CASE CopyLeads(i, rest, g, R, x, S, w)
  <2>1. /\ i.to \in Temps /\ ((Unmentioned(i.to, R) /\ i.to \in Loose(rest)) \/ Tracked(i.to, R))
        /\ x = With(g, i.to, g[i.from]) /\ S = R /\ Loose(todo) = {} /\ i.from \in DOMAIN g
      BY <1>1, <1>3, <1>5, ItemIs DEF CopyLeads, Has
  <2>2. PICK p \in Temps \cup CutPaths, c \in Contents : p = i.to /\ c = g[i.from]
    <3>1. g[i.from] \in Contents
        BY <1>1, <2>1, DirIs
    <3> QED
        BY <2>1, <3>1
  <2>3. ASSUME Unmentioned(p, R), p \in Loose(rest)
        PROVE  LeadsBack(With(g, p, c), R, o, n, Loose(rest), w)
    <3>1. LeadsBack(With(g, p, c), R, o, n, Loose(todo) \cup {p}, w)
        BY <2>3, FreshBack, ZenonT(30)
    <3>2. Loose(todo) \cup {p} \subseteq Loose(rest)
        BY <2>1, <2>3
    <3> QED
        BY <3>1, <3>2, LooserBack
  <2>4. ASSUME Tracked(p, R)
        PROVE  LeadsBack(With(g, p, c), R, o, n, Loose(rest), w)
    <3>1. LeadsBack(With(g, p, c), R, o, n, Loose(todo), w)
        BY <2>4, TrackedBack
    <3>2. Loose(todo) \subseteq Loose(rest)
        BY <2>1
    <3> QED
        BY <3>1, <3>2, LooserBack
  <2> QED
      BY <2>1, <2>2, <2>3, <2>4 DEF rest
<1>6. CASE MoveLeads(i, rest, g, R, x, S, w)
  <2>1. /\ i.from \in DOMAIN g /\ i.to \in AllPaths \ DOMAIN g /\ R # <<>> /\ Last(R).kind = "MOVE"
        /\ Last(R).from = i.to /\ Last(R).to = i.from /\ (w => i.from \in Temps)
        /\ x = Renamed(g, i.from, i.to) /\ S = R /\ Loose(todo) = {}
      BY <1>1, <1>3, <1>6, ItemIs, NamesAre DEF MoveLeads, Has
  <2>2. PICK p \in DOMAIN g, q \in AllPaths \ DOMAIN g : p = i.from /\ q = i.to
      BY <2>1
  <2>3. LeadsBack(Renamed(g, p, q), R, o, n, Loose(todo), w)
      BY <2>1, <2>2, MovedBack
  <2>4. Loose(todo) \subseteq Loose(rest)
      BY <2>1
  <2> QED
      BY <2>1, <2>2, <2>3, <2>4, LooserBack DEF rest
<1>7. CASE PublishLeads(i, rest, g, R, x, S, w)
  <2>1. /\ i.from \in Temps /\ i.from \in DOMAIN g /\ Tracked(i.from, R)
        /\ R # <<>> /\ Last(R).kind = "REPLACE" /\ Last(R).to = i.to /\ i.from \notin PathsOf(Last(R))
        /\ Last(R).witness \in DOMAIN g /\ g[Last(R).witness] = g[i.from] /\ (w => g[i.from] \in Payloads)
        /\ x = Renamed(g, i.from, i.to) /\ S = R /\ Loose(todo) = {}
      BY <1>1, <1>3, <1>7, ItemIs DEF PublishLeads, Has
  <2>2. PICK p \in Temps \cup CutPaths, c \in Contents : p = i.from /\ c = g[i.from]
    <3>1. g[i.from] \in Contents
        BY <1>1, <2>1, DirIs
    <3> QED
        BY <2>1, <3>1
  <2>3. LeadsBack(Without(g, p), R, o, n, Loose(todo), w)
      BY <2>1, <2>2, TrackedBack
  <2> DEFINE y == Without(g, p)
  <2>4. IsWithout(y, g, p)
      BY <1>1, WithoutIs
  <2> HIDE DEF y
  <2>5. Last(R).witness # p
    <3>1. Last(R) \in UndoRecords
        BY <2>1, FrontAndLast
    <3>2. Last(R).witness \in PathsOf(Last(R))
        BY <2>1, <3>1, PathsOfRecords, KindOfRecord
    <3> QED
        BY <2>1, <2>2, <3>2
  <2>6. Has(y, Last(R).witness) /\ y[Last(R).witness] = c
      BY <2>1, <2>2, <2>4, <2>5 DEF IsWithout, Has
  <2>7. LeadsBack(With(y, Last(R).to, c), R, o, n, Loose(todo), w)
      BY <2>1, <2>2, <2>3, <2>6, ReplacedBack DEF y
  <2>8. x = With(y, Last(R).to, c)
      BY <2>1, <2>2 DEF Renamed, y
  <2>9. Loose(todo) \subseteq Loose(rest)
      BY <2>1
  <2> QED
      BY <2>1, <2>7, <2>8, <2>9, LooserBack DEF rest
<1> QED
    BY <1>2, <1>4, <1>5, <1>6, <1>7 DEF Leads, i, rest

------------------------------------------------------------------------------
(* What the handlers are to do can be done. *)

\* A sequence is two others, one after the other.
LEMMA Together ==
    ASSUME NEW S, NEW x \in Seq(S), NEW y \in Seq(S), NEW z \in Seq(S), Len(z) = Len(x) + Len(y),
           \A i \in 1..Len(x) : z[i] = x[i], \A i \in 1..Len(y) : z[Len(x) + i] = y[i]
    PROVE  x \o y = z
<1> DEFINE xy == x \o y
<1>1. xy \in Seq(S) /\ Len(xy) = Len(x) + Len(y) /\ Len(x) \in Nat /\ Len(y) \in Nat
    BY ConcatProperties
<1>2. \A i \in 1..Len(x) + Len(y) : xy[i] = IF i <= Len(x) THEN x[i] ELSE y[i - Len(x)]
    BY ConcatProperties
<1> HIDE DEF xy
<1>3. ASSUME NEW i \in 1..Len(xy) PROVE xy[i] = z[i]
  <2>1. CASE i \in 1..Len(x)
      BY <1>1, <1>2, <2>1
  <2>2. CASE i \notin 1..Len(x)
    <3>1. i - Len(x) \in 1..Len(y) /\ Len(x) + (i - Len(x)) = i
        BY <1>1, <2>2
    <3>2. xy[i] = y[i - Len(x)]
        BY <1>1, <1>2, <2>2
    <3> QED
        BY <3>1, <3>2
  <2> QED
      BY <2>1, <2>2
<1>4. xy = z
    BY <1>1, <1>3, SeqEqual
<1> QED
    BY <1>4 DEF xy

\* Seven primitives, in three parts.
LEMMA Seven ==
    ASSUME NEW a, NEW b, NEW c, NEW d, NEW e, NEW f, NEW g
    PROVE  <<a, b>> \o (<<c, d>> \o <<e, f, g>>) = <<a, b, c, d, e, f, g>>
<1> DEFINE S == {a, b, c, d, e, f, g}
           x == <<a, b>>
           y == <<c, d>>
           v == <<e, f, g>>
           w == <<c, d, e, f, g>>
           z == <<a, b, c, d, e, f, g>>
<1>1. x \in Seq(S) /\ Len(x) = 2 /\ x[1] = a /\ x[2] = b
    OBVIOUS
<1>2. y \in Seq(S) /\ Len(y) = 2 /\ y[1] = c /\ y[2] = d
    OBVIOUS
<1>3. v \in Seq(S) /\ Len(v) = 3 /\ v[1] = e /\ v[2] = f /\ v[3] = g
    OBVIOUS
<1>4. w \in Seq(S) /\ Len(w) = 5 /\ w[1] = c /\ w[2] = d /\ w[3] = e /\ w[4] = f /\ w[5] = g
    OBVIOUS
<1>5. z \in Seq(S) /\ Len(z) = 7
    OBVIOUS
<1>6. z[1] = a /\ z[2] = b /\ z[3] = c /\ z[4] = d /\ z[5] = e /\ z[6] = f /\ z[7] = g
    OBVIOUS
<1> HIDE DEF S, x, y, v, w, z
<1>7. (\A i \in 1..2 : i = 1 \/ i = 2) /\ (\A i \in 1..3 : i = 1 \/ i = 2 \/ i = 3)
      /\ \A i \in 1..5 : i = 1 \/ i = 2 \/ i = 3 \/ i = 4 \/ i = 5
    OBVIOUS
<1>8. y \o v = w
  <2>1. Len(w) = Len(y) + Len(v) /\ (\A i \in 1..Len(y) : w[i] = y[i])
        /\ \A i \in 1..Len(v) : w[Len(y) + i] = v[i]
      BY <1>2, <1>3, <1>4, <1>7
  <2> QED
      BY <1>2, <1>3, <1>4, <2>1, Together, Zenon
<1>9. x \o w = z
  <2>1. Len(z) = Len(x) + Len(w) /\ (\A i \in 1..Len(x) : z[i] = x[i])
        /\ \A i \in 1..Len(w) : z[Len(x) + i] = w[i]
      BY <1>1, <1>4, <1>5, <1>6, <1>7
  <2> QED
      BY <1>1, <1>4, <1>5, <2>1, Together, Zenon
<1> QED
    BY <1>8, <1>9 DEF x, y, v, w, z

\* The records the handlers log.
LEMMA RecordsLogged ==
    /\ \A p \in Temps : RemoveRecord(p) \in UndoRecords /\ PathsOf(RemoveRecord(p)) = {p}
    /\ \A p \in Paths, q \in Paths : MoveRecord(p, q) \in UndoRecords /\ PathsOf(MoveRecord(p, q)) = {p, q}
    /\ \A o \in Temps, t \in Files, w \in Temps, s \in Temps :
          o # w /\ o # s /\ w # s =>
              ReplaceRecord(o, t, w, s) \in UndoRecords /\ PathsOf(ReplaceRecord(o, t, w, s)) = {o, t, w, s}
<1>1. Paths \subseteq AnyPath /\ CutPaths \subseteq AnyPath /\ Temps \subseteq Paths /\ Files \subseteq Paths
      /\ NoPath \in AnyPath /\ Paths \subseteq AllPaths
    BY DEF AnyPath, AllPaths, Paths, UserPaths
<1>2. \A p \in Temps : RemoveRecord(p) \in Records /\ IsRemove(RemoveRecord(p))
    BY <1>1 DEF Records, RemoveRecord, Record, IsRemove
<1>3. \A p \in Paths, q \in Paths : MoveRecord(p, q) \in Records /\ IsMove(MoveRecord(p, q))
    BY <1>1 DEF Records, MoveRecord, Record, IsMove
<1>4. \A o \in Temps, t \in Files, w \in Temps, s \in Temps :
          o # w /\ o # s /\ w # s => ReplaceRecord(o, t, w, s) \in Records /\ IsReplace(ReplaceRecord(o, t, w, s))
    BY <1>1 DEF Records, ReplaceRecord, Record, IsReplace
<1>5. \A r : r \in UndoRecords <=> r \in Records /\ (IsRemove(r) \/ IsMove(r) \/ IsReplace(r))
    BY DEF UndoRecords
<1> QED
    BY <1>2, <1>3, <1>4, <1>5, PathsOfRecords DEF RemoveRecord, MoveRecord, ReplaceRecord, Record

\* What is known of a temporary file once the record r follows the records R.
Remembers(A, R, r) ==
    /\ A \in Seq(UndoRecords) /\ A # <<>> /\ Last(A) = r
    /\ \A p \in Temps :
          /\ Unmentioned(p, R) /\ p \notin PathsOf(r) => Unmentioned(p, A)
          /\ Tracked(p, R) /\ p \notin PathsOf(r) => Tracked(p, A)
          /\ Removed(p, R) => Removed(p, A)
          /\ NotReplaced(p, R) /\ r.kind # "REPLACE" => NotReplaced(p, A)
          /\ r = RemoveRecord(p) => Tracked(p, A) /\ Removed(p, A)

\* A record is appended.
LEMMA LogRemembers ==
    ASSUME NEW R \in Seq(UndoRecords), NEW r \in UndoRecords
    PROVE  Remembers(Append(R, r), R, r)
<1> DEFINE A == Append(R, r)
           N == Len(R)
<1>1. /\ N \in Nat /\ A \in Seq(UndoRecords) /\ Len(A) = N + 1 /\ DOMAIN A = 1..N + 1 /\ DOMAIN R = 1..N
      /\ A[N + 1] = r /\ \A i \in 1..N : A[i] = R[i]
    OBVIOUS
<1> HIDE DEF A
<1>2. A # <<>> /\ Last(A) = r
    BY <1>1 DEF Last
<1>3. ASSUME NEW p \in Temps
      PROVE  /\ Unmentioned(p, R) /\ p \notin PathsOf(r) => Unmentioned(p, A)
             /\ Tracked(p, R) /\ p \notin PathsOf(r) => Tracked(p, A)
             /\ Removed(p, R) => Removed(p, A)
             /\ NotReplaced(p, R) /\ r.kind # "REPLACE" => NotReplaced(p, A)
             /\ r = RemoveRecord(p) => Tracked(p, A) /\ Removed(p, A)
  <2>1. Unmentioned(p, R) /\ p \notin PathsOf(r) => Unmentioned(p, A)
      BY <1>1 DEF Unmentioned
  <2>2. ASSUME Tracked(p, R), p \notin PathsOf(r) PROVE Tracked(p, A)
    <3>1. PICK k \in 1..N : R[k].kind = "REMOVE" /\ R[k].from = p /\ \A i \in 1..N : i > k => p \notin PathsOf(R[i])
        BY <1>1, <2>2 DEF Tracked
    <3>2. k \in 1..N + 1 /\ A[k].kind = "REMOVE" /\ A[k].from = p
        BY <1>1, <3>1
    <3>3. \A i \in 1..N + 1 : i > k => p \notin PathsOf(A[i])
        BY <1>1, <2>2, <3>1
    <3> QED
        BY <1>1, <3>2, <3>3 DEF Tracked
  <2>3. Removed(p, R) => Removed(p, A)
      BY <1>1 DEF Removed
  <2>4. NotReplaced(p, R) /\ r.kind # "REPLACE" => NotReplaced(p, A)
      BY <1>1 DEF NotReplaced
  <2>5. ASSUME r = RemoveRecord(p) PROVE Tracked(p, A) /\ Removed(p, A)
    <3>1. N + 1 \in 1..N + 1 /\ A[N + 1].kind = "REMOVE" /\ A[N + 1].from = p
        BY <1>1, <2>5 DEF RemoveRecord, Record
    <3>2. \A i \in 1..N + 1 : ~(i > N + 1)
        BY <1>1
    <3> QED
        BY <1>1, <2>5, <3>1, <3>2 DEF Tracked, Removed
  <2> QED
      BY <2>1, <2>2, <2>3, <2>4, <2>5
<1> QED
    BY <1>1, <1>2, <1>3 DEF Remembers, A

\* A move and the record before it.
LEMMA LogAndMove ==
    ASSUME NEW n \in Nat, NEW s \in Nat, NEW rest \in Seq(Items(n, s)), NEW g, NEW R \in Seq(UndoRecords), NEW w,
           NEW p \in Names(n, s), NEW q \in Names(n, s), NEW l \in Seq(Temps), ~Has(g, q),
           Has(g, p) => (w => p \in Temps) /\ Ready(rest, Renamed(g, p, q), Append(R, MoveRecord(q, p)), w)
    PROVE  /\ <<Log(MoveRecord(q, p)), MoveTo(p, q, l)>> \o rest \in Seq(Items(n, s))
           /\ <<Log(MoveRecord(q, p)), MoveTo(p, q, l)>> \in Seq(Items(n, s))
           /\ Ready(<<Log(MoveRecord(q, p)), MoveTo(p, q, l)>> \o rest, g, R, w)
<1> DEFINE r == MoveRecord(q, p)
           a == Log(r)
           b == MoveTo(p, q, l)
           A == Append(R, r)
<1>1. p \in Paths /\ q \in Paths
    BY NamesAre
<1>2. r \in UndoRecords /\ PathsOf(r) = {q, p} /\ r.ended /\ r.kind = "MOVE" /\ r.from = q /\ r.to = p
    BY <1>1, RecordsLogged DEF MoveRecord, Record
<1>3. a \in Items(n, s) /\ b \in Items(n, s)
    BY <1>2 DEF Items, Logged
<1>4. a.do = "log" /\ a.record = r /\ b.do = "move" /\ b.from = p /\ b.to = q
    BY DEF Log, MoveTo
<1>5. Remembers(A, R, r)
    BY <1>2, LogRemembers
<1> HIDE DEF a, b, r, A
<1>6. /\ <<a, b>> \o rest \in Seq(Items(n, s)) /\ <<a, b>> \in Seq(Items(n, s))
      /\ Head(<<a, b>> \o rest) = a /\ Tail(<<a, b>> \o rest) = <<b>> \o rest
      /\ Head(<<b>> \o rest) = b /\ Tail(<<b>> \o rest) = rest
    BY <1>3
<1>7. Ready(<<b>> \o rest, g, A, w)
  <2>1. CASE Has(g, p)
    <3>1. MoveLeads(b, rest, g, A, Renamed(g, p, q), A, w)
        BY <1>2, <1>4, <1>5, <2>1 DEF MoveLeads, Remembers
    <3>2. Ready(rest, Renamed(g, p, q), A, w)
        BY <2>1 DEF A, r
    <3> QED
        BY <1>6, <3>1, <3>2, ReadyFirst DEF Leads
  <2>2. CASE ~Has(g, p)
    <3>1. Impossible(b, g)
        BY <1>4, <2>2 DEF Impossible
    <3> QED
        BY <1>6, <3>1, ReadyMore
  <2> QED
      BY <2>1, <2>2
<1>8. LogLeads(a, <<b>> \o rest, g, R, g, A, w)
    BY <1>2, <1>4 DEF LogLeads, CanLog, A
<1>9. Ready(<<a, b>> \o rest, g, R, w)
    BY <1>6, <1>7, <1>8, ReadyFirst DEF Leads
<1> QED
    BY <1>6, <1>9 DEF a, b, r

\* The fields of the operations.
LEMMA ActionIs ==
    ASSUME NEW op \in Actions
    PROVE  /\ op.kind \in {"AtomicWrite", "RemovePath", "SafeReplace", "Rename", "CopyFile"} /\ op.dst \in Files
           /\ op.kind = "AtomicWrite" => op.data \in Payloads
           /\ op.kind \in {"SafeReplace", "Rename", "CopyFile"} => op.src \in UserPaths /\ op.backup \in BOOLEAN
<1>1. ASSUME NEW f \in Files, NEW c \in Payloads, op = AtomicWrite(f, c)
      PROVE  op.kind = "AtomicWrite" /\ op.dst \in Files /\ op.data \in Payloads
    BY <1>1 DEF AtomicWrite
<1>2. ASSUME NEW f \in Files, op = RemovePath(f)
      PROVE  op.kind = "RemovePath" /\ op.dst \in Files
    BY <1>2 DEF RemovePath
<1>3. ASSUME NEW p \in UserPaths, NEW f \in Files, NEW backup \in BOOLEAN, op = SafeReplace(p, f, backup)
      PROVE  op.kind = "SafeReplace" /\ op.dst \in Files /\ op.src \in UserPaths /\ op.backup \in BOOLEAN
    BY <1>3 DEF SafeReplace
<1>4. ASSUME NEW p \in UserPaths, NEW f \in Files, op = Rename(p, f)
      PROVE  op.kind = "Rename" /\ op.dst \in Files /\ op.src \in UserPaths /\ op.backup \in BOOLEAN
    BY <1>4 DEF Rename
<1>5. ASSUME NEW p \in UserPaths, NEW f \in Files, op = CopyFile(p, f)
      PROVE  op.kind = "CopyFile" /\ op.dst \in Files /\ op.src \in UserPaths /\ op.backup \in BOOLEAN
    BY <1>5 DEF CopyFile
<1> QED
    BY <1>1, <1>2, <1>3, <1>4, <1>5 DEF Actions

\* The temporary names of a step.
StepTemps(n, s) == [tag \in Tags |-> Temp(n, s, tag)]

\* They are temporary files of that step, one for each tag.
LEMMA StepTempsAre ==
    ASSUME NEW n \in Nat, NEW s \in Nat, NEW T, T = StepTemps(n, s)
    PROVE  /\ \A tag \in Tags : T[tag] \in Temps \cap Names(n, s) /\ T[tag].tag = tag /\ T[tag] \notin UserPaths
           /\ {"new", "old", "witness", "restore", "copy", "prior", "removed"} = Tags
<1>1. \A tag \in Tags : T[tag] = Temp(n, s, tag)
    BY DEF StepTemps
<1>2. \A tag \in Tags : T[tag] \in Temps /\ T[tag] \in Names(n, s) /\ T[tag].tag = tag
    BY <1>1, TempNames DEF Names
<1> QED
    BY <1>2, PathKinds DEF Tags

\* The primitives of a step.
LEMMA ItemsAre ==
    ASSUME NEW n \in Nat, NEW s \in Nat
    PROVE  /\ \A r \in Logged(n, s) : Log(r) \in Items(n, s) /\ Log(r).do = "log" /\ Log(r).record = r
           /\ \A p \in Names(n, s) \cap Temps, c \in Contents :
                 Write(p, c) \in Items(n, s) /\ Write(p, c).do = "write" /\ Write(p, c).to = p /\ Write(p, c).data = c
           /\ \A p \in Names(n, s), q \in Names(n, s) \cap Temps :
                 Copy(p, q) \in Items(n, s) /\ Copy(p, q).do = "copy" /\ Copy(p, q).from = p /\ Copy(p, q).to = q
           /\ \A p \in Names(n, s) \cap Temps, q \in Files, l \in Seq(Temps) :
                 /\ Publish(p, q, l) \in Items(n, s) /\ Publish(p, q, l).do = "replace"
                 /\ Publish(p, q, l).from = p /\ Publish(p, q, l).to = q
<1>1. \A r \in Logged(n, s) : Log(r) \in Items(n, s) /\ Log(r).do = "log" /\ Log(r).record = r
    BY DEF Items, Log
<1>2. \A p \in Names(n, s) \cap Temps, c \in Contents :
          Write(p, c) \in Items(n, s) /\ Write(p, c).do = "write" /\ Write(p, c).to = p /\ Write(p, c).data = c
    BY DEF Items, Write
<1>3. \A p \in Names(n, s), q \in Names(n, s) \cap Temps :
          Copy(p, q) \in Items(n, s) /\ Copy(p, q).do = "copy" /\ Copy(p, q).from = p /\ Copy(p, q).to = q
    BY DEF Items, Copy
<1>4. ASSUME NEW p \in Names(n, s) \cap Temps, NEW q \in Files, NEW l \in Seq(Temps)
      PROVE  /\ Publish(p, q, l) \in Items(n, s) /\ Publish(p, q, l).do = "replace"
             /\ Publish(p, q, l).from = p /\ Publish(p, q, l).to = q
  <2>1. Publish(p, q, l) \in {Publish(y, z, k) : y \in Names(n, s) \cap Temps, z \in Files, k \in Seq(Temps)}
      OBVIOUS
  <2> QED
      BY <2>1 DEF Items, Publish
<1> QED
    BY <1>1, <1>2, <1>3, <1>4

\* The last move of a handler.
LEMMA LastMove ==
    ASSUME NEW n \in Nat, NEW s \in Nat, NEW g, NEW R \in Seq(UndoRecords), NEW w,
           NEW p \in Names(n, s), NEW q \in Names(n, s), NEW l \in Seq(Temps), ~Has(g, q), w => p \in Temps
    PROVE  /\ <<Log(MoveRecord(q, p)), MoveTo(p, q, l)>> \in Seq(Items(n, s))
           /\ Ready(<<Log(MoveRecord(q, p)), MoveTo(p, q, l)>>, g, R, w)
<1> DEFINE todo == <<Log(MoveRecord(q, p)), MoveTo(p, q, l)>>
<1>1. <<>> \in Seq(Items(n, s)) /\ Ready(<<>>, Renamed(g, p, q), Append(R, MoveRecord(q, p)), w)
    BY ReadyNothing
<1>2. todo \o <<>> \in Seq(Items(n, s)) /\ todo \in Seq(Items(n, s)) /\ Ready(todo \o <<>>, g, R, w)
    BY <1>1, LogAndMove
<1>3. todo \o <<>> = todo
    OBVIOUS
<1> HIDE DEF todo
<1>4. Ready(todo, g, R, w)
    BY <1>2, <1>3
<1> QED
    BY <1>2, <1>4 DEF todo

\* The destination is moved to its backup, and from there on it is free.
LEMMA BackupReady ==
    ASSUME NEW n \in Nat, NEW s \in Nat, NEW T, T = StepTemps(n, s),
           NEW op \in Actions, op.kind \in {"SafeReplace", "Rename", "CopyFile"},
           NEW f, NEW g \in Dirs, \A p \in UserPaths : Has(f, p) <=> Has(g, p),
           ~Has(g, T["old"]), ~Has(g, T["prior"]),
           NEW R \in Seq(UndoRecords), NEW rest \in Seq(Items(n, s)),
           \A x \in Dirs, S \in Seq(UndoRecords) : ~Has(x, op.dst) => Ready(rest, x, S, FALSE)
    PROVE  /\ MoveExistingDestinationToBackup(op, f, T) \in Seq(Items(n, s))
           /\ MoveExistingDestinationToBackup(op, f, T) \o rest \in Seq(Items(n, s))
           /\ Ready(MoveExistingDestinationToBackup(op, f, T) \o rest, g, R, FALSE)
<1> DEFINE dst == op.dst
           b == IF op.backup THEN Backup(dst) ELSE T["old"]
           l == IF op.backup THEN <<>> ELSE <<b>>
           prior == <<Log(MoveRecord(T["prior"], b)), MoveTo(b, T["prior"], <<T["prior"]>>)>>
           move == <<Log(MoveRecord(b, dst)), MoveTo(dst, b, l)>>
           M == MoveExistingDestinationToBackup(op, f, T)
<1>1. /\ dst \in Files /\ dst \in UserPaths /\ dst \in Names(n, s) /\ op.backup \in BOOLEAN
      /\ Backup(dst) \in UserPaths /\ Backup(dst) # dst /\ dst \in Paths
    BY ActionIs, PathKinds DEF UserPaths, Names, Paths
<1>2. T["old"] \in Temps \cap Names(n, s) /\ T["prior"] \in Temps \cap Names(n, s)
      /\ T["old"].tag = "old" /\ T["prior"].tag = "prior" /\ T["old"] \notin UserPaths /\ T["prior"] \notin UserPaths
    BY StepTempsAre
<1>3. b \in Names(n, s) /\ b # dst /\ b # T["prior"] /\ T["prior"] # dst
      /\ l \in Seq(Temps) /\ <<T["prior"]>> \in Seq(Temps)
    BY <1>1, <1>2 DEF Names
<1>4. M = IF Has(f, dst) THEN (IF Has(f, b) THEN prior ELSE <<>>) \o move ELSE <<>>
    BY DEF MoveExistingDestinationToBackup
<1> HIDE DEF M, prior, move, b, l
<1>5. ASSUME NEW x \in Dirs, NEW S \in Seq(UndoRecords), ~Has(x, b), Has(x, dst)
      PROVE  move \in Seq(Items(n, s)) /\ move \o rest \in Seq(Items(n, s)) /\ Ready(move \o rest, x, S, FALSE)
  <2>1. IsRenamed(Renamed(x, dst, b), x, dst, b)
      BY <1>3, <1>5, RenamedIs, NamesAre DEF Has
  <2>2. Renamed(x, dst, b) \in Dirs /\ ~Has(Renamed(x, dst, b), dst)
      BY <1>3, <2>1 DEF IsRenamed, Has
  <2>3. Append(S, MoveRecord(b, dst)) \in Seq(UndoRecords)
    <3>1. MoveRecord(b, dst) \in UndoRecords
        BY <1>1, <1>3, NamesAre, RecordsLogged
    <3> QED
        BY <3>1
  <2>4. Ready(rest, Renamed(x, dst, b), Append(S, MoveRecord(b, dst)), FALSE)
      BY <2>2, <2>3
  <2> QED
      BY <1>1, <1>3, <1>5, <2>4, LogAndMove DEF move
<1>6. CASE ~Has(f, dst)
  <2>1. M = <<>> /\ M \o rest = rest /\ ~Has(g, dst)
      BY <1>1, <1>4, <1>6
  <2>2. Ready(rest, g, R, FALSE)
      BY <2>1
  <2>3. M \in Seq(Items(n, s))
      BY <2>1
  <2> QED
      BY <2>1, <2>2, <2>3 DEF M
<1>7. CASE Has(f, dst) /\ ~Has(f, b)
  <2>1. Has(g, dst) /\ ~Has(g, b)
    <3>1. CASE op.backup
        BY <1>1, <1>7, <3>1 DEF b
    <3>2. CASE ~op.backup
        BY <1>1, <1>7, <3>2 DEF b
    <3> QED
        BY <3>1, <3>2
  <2>2. M = <<>> \o move
      BY <1>4, <1>7
  <2>3. move \in Seq(Items(n, s)) /\ move \o rest \in Seq(Items(n, s)) /\ Ready(move \o rest, g, R, FALSE)
      BY <1>5, <2>1
  <2>4. <<>> \o move = move
      BY <2>3
  <2> QED
      BY <2>2, <2>3, <2>4 DEF M
<1>8. CASE Has(f, dst) /\ Has(f, b)
  <2> DEFINE x == Renamed(g, b, T["prior"])
  <2>1. Has(g, dst) /\ b \in AllPaths
      BY <1>1, <1>3, <1>8, NamesAre
  <2>2. ASSUME Has(g, b) PROVE x \in Dirs /\ ~Has(x, b) /\ Has(x, dst)
    <3>1. IsRenamed(x, g, b, T["prior"])
        BY <1>2, <2>2, RenamedIs, NamesAre DEF Has
    <3> QED
        BY <1>3, <2>1, <3>1 DEF IsRenamed, Has
  <2>3. Append(R, MoveRecord(T["prior"], b)) \in Seq(UndoRecords)
    <3>1. MoveRecord(T["prior"], b) \in UndoRecords
        BY <1>2, <1>3, NamesAre, RecordsLogged
    <3> QED
        BY <3>1
  <2>4. ASSUME Has(g, b) PROVE Ready(move \o rest, x, Append(R, MoveRecord(T["prior"], b)), FALSE)
      BY <1>5, <2>2, <2>3, <2>4
  <2>5. move \in Seq(Items(n, s)) /\ move \o rest \in Seq(Items(n, s))
    <3>1. dst \in Names(n, s) /\ b \in Names(n, s)
        BY <1>1, <1>3
    <3>2. Log(MoveRecord(b, dst)) \in Items(n, s) /\ MoveTo(dst, b, l) \in Items(n, s)
      <4>1. MoveRecord(b, dst) \in UndoRecords /\ PathsOf(MoveRecord(b, dst)) = {b, dst} /\ MoveRecord(b, dst).ended
          BY <1>1, <1>3, NamesAre, RecordsLogged DEF MoveRecord, Record
      <4> QED
          BY <1>3, <3>1, <4>1 DEF Items, Logged
    <3>3. move \in Seq(Items(n, s))
        BY <3>2 DEF move
    <3> QED
        BY <3>3
  <2>6. /\ prior \o (move \o rest) \in Seq(Items(n, s)) /\ prior \in Seq(Items(n, s))
        /\ Ready(prior \o (move \o rest), g, R, FALSE)
      BY <1>2, <1>3, <2>4, <2>5, LogAndMove DEF prior
  <2>7. M = prior \o move /\ (prior \o move) \o rest = prior \o (move \o rest)
    <3>1. M = prior \o move
        BY <1>4, <1>8
    <3> QED
        BY <2>5, <2>6, <3>1, SMTT(30)
  <2>8. M \in Seq(Items(n, s))
      BY <2>5, <2>6, <2>7
  <2> QED
      BY <2>6, <2>7, <2>8 DEF M
<1> QED
    BY <1>6, <1>7, <1>8

\* A temporary file is written and its REMOVE record logged.
LEMMA FreshFile ==
    ASSUME NEW n \in Nat, NEW s \in Nat, NEW rest \in Seq(Items(n, s)), NEW g, NEW R \in Seq(UndoRecords), NEW w,
           NEW p \in Names(n, s) \cap Temps, p.tag \in {"new", "copy"}, Unmentioned(p, R),
           NEW a \in Items(n, s), NEW x,
           \/ a.do = "write" /\ a.to = p /\ x = With(g, p, a.data)
           \/ a.do = "copy" /\ a.to = p /\ Has(g, a.from) /\ x = With(g, p, g[a.from]),
           Ready(rest, x, Append(R, RemoveRecord(p)), w)
    PROVE  /\ <<a, Log(RemoveRecord(p))>> \o rest \in Seq(Items(n, s))
           /\ Ready(<<a, Log(RemoveRecord(p))>> \o rest, g, R, w)
<1> DEFINE r == RemoveRecord(p)
           b == Log(r)
           A == Append(R, r)
<1>1. r \in UndoRecords /\ PathsOf(r) = {p} /\ r.ended /\ r.kind = "REMOVE" /\ r.from = p
    BY RecordsLogged DEF RemoveRecord, Record
<1>2. b \in Items(n, s) /\ b.do = "log" /\ b.record = r
    BY <1>1 DEF Items, Logged, Log
<1>3. Ready(rest, x, A, w)
    OBVIOUS
<1>4. \A todo : todo # <<>> /\ Head(todo) = b => p \in Loose(todo)
    BY DEF Loose
<1> HIDE DEF b, r, A
<1>5. /\ <<a, b>> \o rest \in Seq(Items(n, s)) /\ <<b>> \o rest # <<>>
      /\ Head(<<a, b>> \o rest) = a /\ Tail(<<a, b>> \o rest) = <<b>> \o rest
      /\ Head(<<b>> \o rest) = b /\ Tail(<<b>> \o rest) = rest
    BY <1>2
<1>6. LogLeads(b, rest, x, R, x, A, w)
    BY <1>1, <1>2 DEF LogLeads, CanLog, A
<1>7. Ready(<<b>> \o rest, x, R, w)
    BY <1>3, <1>5, <1>6, ReadyFirst DEF Leads
<1>8. p \in Loose(<<b>> \o rest)
    BY <1>4, <1>5
<1>9. Leads(a, <<b>> \o rest, g, R, x, R, w)
    BY <1>8 DEF Leads, WriteLeads, CopyLeads
<1>10. Ready(<<a, b>> \o rest, g, R, w)
    BY <1>5, <1>7, <1>9, ReadyFirst
<1> QED
    BY <1>5, <1>10 DEF b, r

\* A private copy is made after its REMOVE record.
LEMMA TrackedCopy ==
    ASSUME NEW n \in Nat, NEW s \in Nat, NEW rest \in Seq(Items(n, s)), NEW g, NEW R \in Seq(UndoRecords), NEW w,
           NEW p \in Names(n, s) \cap Temps, Unmentioned(p, R), NEW q \in Names(n, s), Has(g, q),
           Ready(rest, With(g, p, g[q]), Append(R, RemoveRecord(p)), w)
    PROVE  /\ <<Log(RemoveRecord(p)), Copy(q, p)>> \o rest \in Seq(Items(n, s))
           /\ Ready(<<Log(RemoveRecord(p)), Copy(q, p)>> \o rest, g, R, w)
<1> DEFINE r == RemoveRecord(p)
           a == Log(r)
           b == Copy(q, p)
           A == Append(R, r)
           x == With(g, p, g[q])
<1>1. r \in UndoRecords /\ PathsOf(r) = {p} /\ r.ended /\ r.kind = "REMOVE" /\ r.from = p
    BY RecordsLogged DEF RemoveRecord, Record
<1>2. a \in Items(n, s) /\ a.do = "log" /\ a.record = r
    BY <1>1 DEF Items, Logged, Log
<1>3. b \in Items(n, s) /\ b.do = "copy" /\ b.from = q /\ b.to = p
    BY DEF Items, Copy
<1>4. Ready(rest, x, A, w)
    OBVIOUS
<1>5. Tracked(p, A)
    BY <1>1, LogRemembers DEF Remembers
<1>6. CopyLeads(b, rest, g, A, x, A, w)
    BY <1>3, <1>5 DEF CopyLeads
<1>7. LogLeads(a, <<b>> \o rest, g, R, g, A, w)
    BY <1>1, <1>2 DEF LogLeads, CanLog
<1> HIDE DEF a, b, r, A, x
<1>8. /\ <<a, b>> \o rest \in Seq(Items(n, s))
      /\ Head(<<a, b>> \o rest) = a /\ Tail(<<a, b>> \o rest) = <<b>> \o rest
      /\ Head(<<b>> \o rest) = b /\ Tail(<<b>> \o rest) = rest
    BY <1>2, <1>3
<1>9. Ready(<<b>> \o rest, g, A, w)
    BY <1>4, <1>6, <1>8, ReadyFirst DEF Leads
<1>10. Ready(<<a, b>> \o rest, g, R, w)
    BY <1>7, <1>8, <1>9, ReadyFirst DEF Leads
<1> QED
    BY <1>8, <1>10 DEF a, b, r

\* The target is replaced once its old and its new contents are retained.
LEMMA LastReplace ==
    ASSUME NEW n \in Nat, NEW s \in Nat, NEW g, NEW R \in Seq(UndoRecords), NEW w,
           NEW p \in Names(n, s) \cap Temps, NEW o \in Names(n, s) \cap Temps, NEW v \in Names(n, s) \cap Temps,
           NEW r \in Names(n, s) \cap Temps, NEW t \in Files,
           p # o /\ p # v /\ p # r /\ o # v /\ o # r /\ v # r,
           Tracked(p, R), Removed(o, R), Removed(v, R), NotReplaced(o, R), Unmentioned(r, R),
           {p, o, v, t} \subseteq DOMAIN g, ~Has(g, r), g[o] = g[t], g[v] = g[p], w => g[p] \in Payloads,
           NEW todo,
           todo = <<Log(RemoveRecord(r)), Log(ReplaceRecord(o, t, v, r)), Publish(p, t, <<o, v>>)>>
    PROVE  todo \in Seq(Items(n, s)) /\ Ready(todo, g, R, w)
<1> DEFINE r1 == RemoveRecord(r)
           r2 == ReplaceRecord(o, t, v, r)
           a == Log(r1)
           b == Log(r2)
           c == Publish(p, t, <<o, v>>)
           A == Append(R, r1)
           B == Append(A, r2)
           x == Renamed(g, p, t)
<1>1. r1 \in UndoRecords /\ PathsOf(r1) = {r} /\ r1.ended /\ r1.kind = "REMOVE" /\ r1.from = r
    BY RecordsLogged DEF RemoveRecord, Record
<1>2. /\ r2 \in UndoRecords /\ PathsOf(r2) = {o, t, v, r} /\ r2.ended /\ r2.kind = "REPLACE"
      /\ r2.from = o /\ r2.to = t /\ r2.witness = v /\ r2.staging = r
    BY RecordsLogged DEF ReplaceRecord, Record
<1>3. t \in Names(n, s) /\ t \notin Temps
    BY PathKinds DEF Names, UserPaths
<1>4. a \in Items(n, s) /\ a.do = "log" /\ a.record = r1 /\ b \in Items(n, s) /\ b.do = "log" /\ b.record = r2
  <2>1. r1 \in Logged(n, s) /\ r2 \in Logged(n, s)
      BY <1>1, <1>2, <1>3 DEF Logged
  <2> QED
      BY <2>1, ItemsAre
<1>5. c \in Items(n, s) /\ c.do = "replace" /\ c.from = p /\ c.to = t
  <2>1. PICK l \in Seq(Temps) : l = <<o, v>>
    <3>1. <<o, v>> \in Seq(Temps)
        OBVIOUS
    <3> QED
        BY <3>1, Zenon
  <2>2. /\ Publish(p, t, l) \in Items(n, s) /\ Publish(p, t, l).do = "replace"
        /\ Publish(p, t, l).from = p /\ Publish(p, t, l).to = t
      BY ItemsAre
  <2> QED
      BY <2>1, <2>2
<1>6. Remembers(A, R, r1) /\ A \in Seq(UndoRecords)
    BY <1>1, LogRemembers DEF Remembers
<1>7. Remembers(B, A, r2)
    BY <1>2, <1>6, LogRemembers
<1>8. Tracked(p, A) /\ Removed(o, A) /\ Removed(v, A) /\ Removed(r, A) /\ NotReplaced(o, A)
    BY <1>1, <1>6 DEF Remembers
<1>9. Tracked(p, B) /\ B # <<>> /\ Last(B) = r2
    BY <1>2, <1>3, <1>7, <1>8 DEF Remembers
<1>10. LogLeads(a, <<b, c>>, g, R, g, A, w)
    BY <1>1, <1>4 DEF LogLeads, CanLog
<1>11. LogLeads(b, <<c>>, g, A, g, B, w)
    BY <1>2, <1>4, <1>8 DEF LogLeads, CanLog, Prepared
<1>12. PublishLeads(c, <<>>, g, B, x, B, w)
    BY <1>2, <1>3, <1>5, <1>9 DEF PublishLeads, Has
<1> HIDE DEF a, b, c, A, B, r1, r2, x
<1>13. /\ <<a, b, c>> \in Seq(Items(n, s))
       /\ Head(<<a, b, c>>) = a /\ Tail(<<a, b, c>>) = <<b, c>>
       /\ Head(<<b, c>>) = b /\ Tail(<<b, c>>) = <<c>>
       /\ Head(<<c>>) = c /\ Tail(<<c>>) = <<>>
    BY <1>4, <1>5
<1>14. Ready(<<c>>, g, B, w)
    BY <1>12, <1>13, ReadyNothing, ReadyFirst, ZenonT(30) DEF Leads
<1>15. Ready(<<b, c>>, g, A, w)
    BY <1>11, <1>13, <1>14, ReadyFirst DEF Leads
<1>16. Ready(<<a, b, c>>, g, R, w)
    BY <1>10, <1>13, <1>15, ReadyFirst DEF Leads
<1> QED
    BY <1>13, <1>16 DEF a, b, c, r1, r2

\* Nobody has the temporary names of a step.
FreshNames(T, f, R) == \A tag \in Tags : ~Has(f, T[tag]) /\ Unmentioned(T[tag], R)

\* safe_replace_file and rename_file
LEMMA MoveFileReady ==
    ASSUME NEW n \in Nat, NEW s \in Nat, NEW T, T = StepTemps(n, s), NEW f \in Dirs, NEW R \in Seq(UndoRecords),
           FreshNames(T, f, R), NEW op \in Actions, op.kind \in {"SafeReplace", "Rename"}
    PROVE  MoveFile(op, f, T) \in Seq(Items(n, s)) /\ Ready(MoveFile(op, f, T), f, R, FALSE)
<1> DEFINE last == <<Log(MoveRecord(op.dst, op.src)), MoveTo(op.src, op.dst, <<>>)>>
           M == MoveExistingDestinationToBackup(op, f, T)
<1>1. op.src \in Names(n, s) /\ op.dst \in Names(n, s) /\ <<>> \in Seq(Temps)
    BY ActionIs DEF Names, UserPaths
<1>2. ASSUME NEW S \in Seq(UndoRecords), NEW x, ~Has(x, op.dst)
      PROVE  last \in Seq(Items(n, s)) /\ Ready(last, x, S, FALSE)
    BY <1>1, <1>2, LastMove
<1> HIDE DEF last, M
<1>3. last \in Seq(Items(n, s))
  <2>1. ~Has([p \in {} |-> Foreign], op.dst)
      BY DEF Has
  <2> QED
      BY <1>2, <2>1
<1>4. ~Has(f, T["old"]) /\ ~Has(f, T["prior"])
    BY DEF FreshNames, Tags
<1>5. \A x \in Dirs, S \in Seq(UndoRecords) : ~Has(x, op.dst) => Ready(last, x, S, FALSE)
    BY <1>2
<1>6. M \in Seq(Items(n, s)) /\ M \o last \in Seq(Items(n, s)) /\ Ready(M \o last, f, R, FALSE)
    BY <1>3, <1>4, <1>5, BackupReady DEF M
<1>7. MoveFile(op, f, T) = M \o last
    BY DEF MoveFile, M, last
<1> QED
    BY <1>6, <1>7

\* copy_file_tracked
LEMMA CopyFileReady ==
    ASSUME NEW n \in Nat, NEW s \in Nat, NEW T, T = StepTemps(n, s), NEW f \in Dirs, NEW R \in Seq(UndoRecords),
           FreshNames(T, f, R), NEW op \in Actions, op.kind = "CopyFile", Has(f, op.src)
    PROVE  CopyFileTracked(op, f, T) \in Seq(Items(n, s)) /\ Ready(CopyFileTracked(op, f, T), f, R, FALSE)
<1> DEFINE c == T["copy"]
           first == <<Copy(op.src, c), Log(RemoveRecord(c))>>
           last == <<Log(MoveRecord(op.dst, c)), MoveTo(c, op.dst, <<>>)>>
           M == MoveExistingDestinationToBackup(op, f, T)
           x == With(f, c, f[op.src])
           A == Append(R, RemoveRecord(c))
<1>1. op.src \in UserPaths /\ op.src \in Names(n, s) /\ op.dst \in Names(n, s) /\ <<>> \in Seq(Temps)
    BY ActionIs DEF Names, UserPaths
<1>2. /\ c \in Names(n, s) \cap Temps /\ c.tag = "copy" /\ c \notin UserPaths
      /\ T["old"] \in Temps /\ T["old"] # c /\ T["prior"] \in Temps /\ T["prior"] # c
    BY StepTempsAre
<1>3. /\ ~Has(f, c) /\ Unmentioned(c, R) /\ ~Has(f, T["old"]) /\ ~Has(f, T["prior"])
    BY DEF FreshNames, Tags
<1>4. ASSUME NEW S \in Seq(UndoRecords), NEW y, ~Has(y, op.dst)
      PROVE  last \in Seq(Items(n, s)) /\ Ready(last, y, S, FALSE)
    BY <1>1, <1>2, <1>4, LastMove
<1>5. IsWith(x, f, c, f[op.src])
  <2>1. f[op.src] \in Contents /\ c \in AllPaths
      BY <1>2, DirIs DEF Has, AllPaths, Paths
  <2> QED
      BY <2>1, WithIs
<1>6. A \in Seq(UndoRecords)
  <2>1. RemoveRecord(c) \in UndoRecords
      BY <1>2, RecordsLogged
  <2> QED
      BY <2>1
<1>7. Copy(op.src, c) \in Items(n, s) /\ Copy(op.src, c).do = "copy" /\ Copy(op.src, c).from = op.src
      /\ Copy(op.src, c).to = c
    BY <1>1, <1>2, ItemsAre
<1> HIDE DEF last, M, x, A
<1>8. last \in Seq(Items(n, s))
  <2>1. ~Has([p \in {} |-> Foreign], op.dst)
      BY DEF Has
  <2> QED
      BY <1>4, <2>1
<1>9. x \in Dirs /\ ~Has(x, T["old"]) /\ ~Has(x, T["prior"]) /\ \A p \in UserPaths : Has(f, p) <=> Has(x, p)
    BY <1>2, <1>3, <1>5 DEF IsWith, Has
<1>10. \A y \in Dirs, S \in Seq(UndoRecords) : ~Has(y, op.dst) => Ready(last, y, S, FALSE)
    BY <1>4
<1>11. M \in Seq(Items(n, s)) /\ M \o last \in Seq(Items(n, s)) /\ Ready(M \o last, x, A, FALSE)
    BY <1>6, <1>8, <1>9, <1>10, BackupReady DEF M
<1>12. first \o (M \o last) \in Seq(Items(n, s)) /\ Ready(first \o (M \o last), f, R, FALSE)
    BY <1>2, <1>3, <1>7, <1>11, FreshFile, ZenonT(30) DEF x, A
<1>13. CopyFileTracked(op, f, T) = (first \o M) \o last
    BY DEF CopyFileTracked, M, last
<1>14. (first \o M) \o last = first \o (M \o last)
  <2>1. Log(RemoveRecord(c)) \in Items(n, s)
    <3>1. RemoveRecord(c) \in Logged(n, s)
        BY <1>2, RecordsLogged DEF Logged, RemoveRecord, Record
    <3> QED
        BY <3>1, ItemsAre
  <2>2. first \in Seq(Items(n, s))
      BY <1>7, <2>1
  <2> HIDE DEF first
  <2> QED
      BY <1>8, <1>11, <2>2, SMTT(30)
<1> QED
    BY <1>12, <1>13, <1>14

\* remove_path_tracked
LEMMA RemovePathReady ==
    ASSUME NEW n \in Nat, NEW s \in Nat, NEW T, T = StepTemps(n, s), NEW f \in Dirs, NEW R \in Seq(UndoRecords),
           FreshNames(T, f, R), NEW op \in Actions
    PROVE  RemovePathTracked(op, T) \in Seq(Items(n, s)) /\ Ready(RemovePathTracked(op, T), f, R, FALSE)
<1>1. op.dst \in Names(n, s)
    BY ActionIs DEF Names, UserPaths
<1>2. T["removed"] \in Names(n, s) \cap Temps /\ ~Has(f, T["removed"])
    BY StepTempsAre DEF FreshNames
<1> DEFINE q == T["removed"]
<1> HIDE DEF q
<1>3. q \in Names(n, s) /\ <<q>> \in Seq(Temps) /\ ~Has(f, q)
    BY <1>2 DEF q
<1>4. /\ <<Log(MoveRecord(q, op.dst)), MoveTo(op.dst, q, <<q>>)>> \in Seq(Items(n, s))
      /\ Ready(<<Log(MoveRecord(q, op.dst)), MoveTo(op.dst, q, <<q>>)>>, f, R, FALSE)
    BY <1>1, <1>3, LastMove
<1> QED
    BY <1>4 DEF RemovePathTracked, q

\* write_file_atomic
LEMMA WriteFileReady ==
    ASSUME NEW n \in Nat, NEW s \in Nat, NEW T, T = StepTemps(n, s), NEW f \in Dirs, NEW R \in Seq(UndoRecords),
           FreshNames(T, f, R), NEW op \in Actions, op.kind = "AtomicWrite", NEW w \in BOOLEAN
    PROVE  WriteFileAtomic(op, f, T) \in Seq(Items(n, s)) /\ Ready(WriteFileAtomic(op, f, T), f, R, w)
<1> DEFINE p == T["new"]
           o == T["old"]
           v == T["witness"]
           r == T["restore"]
           t == op.dst
           c == op.data
           first == <<Write(p, c), Log(RemoveRecord(p))>>
           x == With(f, p, c)
           A == Append(R, RemoveRecord(p))
<1>1. t \in Files /\ t \in Names(n, s) /\ t \in UserPaths /\ c \in Payloads /\ c \in Contents
    BY ActionIs DEF Names, UserPaths, Contents
<1>2. /\ p \in Names(n, s) \cap Temps /\ o \in Names(n, s) \cap Temps /\ v \in Names(n, s) \cap Temps
      /\ r \in Names(n, s) \cap Temps /\ p.tag = "new" /\ t \notin {p, o, v, r}
      /\ p # o /\ p # v /\ p # r /\ o # v /\ o # r /\ v # r
    BY <1>1, StepTempsAre
<1>3. /\ ~Has(f, p) /\ ~Has(f, o) /\ ~Has(f, v) /\ ~Has(f, r)
      /\ Unmentioned(p, R) /\ Unmentioned(o, R) /\ Unmentioned(v, R) /\ Unmentioned(r, R)
    BY DEF FreshNames, Tags
<1>4. Temps \subseteq AllPaths /\ \A q \in Temps : PathsOf(RemoveRecord(q)) = {q} /\ RemoveRecord(q).kind = "REMOVE"
    BY RecordsLogged DEF AllPaths, Paths, RemoveRecord, Record
<1>5. Write(p, c) \in Items(n, s) /\ Write(p, c).do = "write" /\ Write(p, c).to = p /\ Write(p, c).data = c
    BY <1>1, <1>2, ItemsAre
<1> HIDE DEF p, o, v, r, t, c, x, A
<1>6. IsWith(x, f, p, c)
    BY <1>1, <1>2, <1>4, WithIs DEF x
<1>7. RemoveRecord(p) \in UndoRecords /\ Remembers(A, R, RemoveRecord(p)) /\ A \in Seq(UndoRecords)
    BY <1>2, RecordsLogged, LogRemembers DEF A, Remembers
<1>8. Log(RemoveRecord(p)) \in Items(n, s)
  <2>1. RemoveRecord(p) \in Logged(n, s)
      BY <1>2, RecordsLogged DEF Logged, RemoveRecord, Record
  <2> QED
      BY <2>1, ItemsAre
<1>9. ASSUME NEW rest \in Seq(Items(n, s)), Ready(rest, x, A, w)
      PROVE  first \o rest \in Seq(Items(n, s)) /\ Ready(first \o rest, f, R, w)
    BY <1>2, <1>3, <1>5, <1>9, FreshFile DEF x, A
<1>10. CASE ~Has(f, t)
  <2> DEFINE last == <<Log(MoveRecord(t, p)), MoveTo(p, t, <<>>)>>
  <2>1. ~Has(x, t)
      BY <1>2, <1>6, <1>10 DEF IsWith, Has
  <2>2. last \in Seq(Items(n, s)) /\ Ready(last, x, A, w)
    <3>1. <<>> \in Seq(Temps)
        OBVIOUS
    <3> QED
        BY <1>1, <1>2, <1>7, <2>1, <3>1, LastMove
  <2>3. WriteFileAtomic(op, f, T) = first \o last
      BY <1>10 DEF WriteFileAtomic, p, t, c
  <2> QED
      BY <1>9, <2>2, <2>3
<1>11. CASE Has(f, t)
  <2> DEFINE y == With(x, o, x[t])
             z == With(y, v, y[p])
             B == Append(A, RemoveRecord(o))
             C == Append(B, RemoveRecord(v))
             last == <<Log(RemoveRecord(r)), Log(ReplaceRecord(o, t, v, r)), Publish(p, t, <<o, v>>)>>
             third == <<Log(RemoveRecord(v)), Copy(p, v)>>
             second == <<Log(RemoveRecord(o)), Copy(t, o)>>
  <2> HIDE DEF y, z, B, C
  <2>1. RemoveRecord(o) \in UndoRecords /\ Remembers(B, A, RemoveRecord(o)) /\ B \in Seq(UndoRecords)
      BY <1>2, <1>7, RecordsLogged, LogRemembers DEF B, Remembers
  <2>2. RemoveRecord(v) \in UndoRecords /\ Remembers(C, B, RemoveRecord(v)) /\ C \in Seq(UndoRecords)
      BY <1>2, <2>1, RecordsLogged, LogRemembers DEF C, Remembers
  <2>3. x \in Dirs /\ DOMAIN x = DOMAIN f \cup {p} /\ x[p] = c /\ t \in DOMAIN x
      BY <1>6, <1>11 DEF IsWith, Has
  <2>4. IsWith(y, x, o, x[t])
    <3>1. x[t] \in Contents /\ o \in AllPaths
        BY <1>2, <1>4, <2>3, DirIs
    <3> QED
        BY <2>3, <3>1, WithIs DEF y
  <2>5. y \in Dirs /\ DOMAIN y = DOMAIN f \cup {p, o} /\ y[p] = c /\ y[o] = y[t] /\ t \in DOMAIN y
      BY <1>2, <2>3, <2>4 DEF IsWith
  <2>6. IsWith(z, y, v, y[p])
    <3>1. y[p] \in Contents /\ v \in AllPaths
        BY <1>1, <1>2, <1>4, <2>5
    <3> QED
        BY <2>5, <3>1, WithIs DEF z
  <2>7. /\ DOMAIN z = DOMAIN f \cup {p, o, v} /\ z[p] = c /\ z[v] = z[p] /\ z[o] = z[t] /\ t \in DOMAIN z
      BY <1>2, <2>5, <2>6 DEF IsWith
  <2>8. Tracked(p, C)
    <3>1. Tracked(p, A)
        BY <1>2, <1>7 DEF Remembers
    <3>2. Tracked(p, B)
        BY <1>2, <1>4, <2>1, <3>1 DEF Remembers
    <3> QED
        BY <1>2, <1>4, <2>2, <3>2 DEF Remembers
  <2>9. Removed(o, C) /\ Removed(v, C)
    <3>1. Removed(o, B)
        BY <1>2, <2>1 DEF Remembers
    <3> QED
        BY <1>2, <2>2, <3>1 DEF Remembers
  <2>10. NotReplaced(o, C)
    <3>1. NotReplaced(o, R)
      <4>1. \A k \in DOMAIN R : R[k].kind = "REPLACE" => R[k].from \in PathsOf(R[k])
          BY PathsOfRecords, KindOfRecord
      <4> QED
          BY <1>3, <4>1 DEF NotReplaced, Unmentioned
    <3>2. NotReplaced(o, A)
        BY <1>2, <1>4, <1>7, <3>1 DEF Remembers
    <3>3. NotReplaced(o, B)
        BY <1>2, <1>4, <2>1, <3>2 DEF Remembers
    <3> QED
        BY <1>2, <1>4, <2>2, <3>3 DEF Remembers
  <2>11. Unmentioned(o, A) /\ Unmentioned(v, B) /\ Unmentioned(r, C)
    <3>1. Unmentioned(o, A) /\ Unmentioned(v, A) /\ Unmentioned(r, A)
        BY <1>2, <1>3, <1>4, <1>7 DEF Remembers
    <3>2. Unmentioned(v, B) /\ Unmentioned(r, B)
        BY <1>2, <1>4, <2>1, <3>1 DEF Remembers
    <3>3. Unmentioned(r, C)
        BY <1>2, <1>4, <2>2, <3>2 DEF Remembers
    <3> QED
        BY <3>1, <3>2, <3>3
  <2>12. {p, o, v, t} \subseteq DOMAIN z /\ ~Has(z, r)
      BY <1>2, <1>3, <2>7 DEF Has
  <2>13. last \in Seq(Items(n, s)) /\ Ready(last, z, C, w)
      BY <1>1, <1>2, <2>2, <2>7, <2>8, <2>9, <2>10, <2>11, <2>12, LastReplace, ZenonT(30)
  <2> HIDE DEF last
  <2>14. third \o last \in Seq(Items(n, s)) /\ Ready(third \o last, y, B, w)
    <3>1. p \in Names(n, s) /\ Has(y, p)
        BY <1>2, <2>5 DEF Has
    <3>2. Ready(last, With(y, v, y[p]), Append(B, RemoveRecord(v)), w)
        BY <2>13 DEF z, C
    <3> QED
        BY <1>2, <2>1, <2>11, <2>13, <3>1, <3>2, TrackedCopy
  <2> HIDE DEF third
  <2>15. second \o (third \o last) \in Seq(Items(n, s)) /\ Ready(second \o (third \o last), x, A, w)
    <3>1. t \in Names(n, s) /\ Has(x, t)
        BY <1>1, <2>3 DEF Has
    <3>2. Ready(third \o last, With(x, o, x[t]), Append(A, RemoveRecord(o)), w)
        BY <2>14 DEF y, B
    <3> QED
        BY <1>2, <1>7, <2>11, <2>14, <3>1, <3>2, TrackedCopy
  <2>16. WriteFileAtomic(op, f, T) = first \o (second \o (third \o last))
    <3> DEFINE b1 == Log(RemoveRecord(o))
               b2 == Copy(t, o)
               b3 == Log(RemoveRecord(v))
               b4 == Copy(p, v)
               b5 == Log(RemoveRecord(r))
               b6 == Log(ReplaceRecord(o, t, v, r))
               b7 == Publish(p, t, <<o, v>>)
    <3> HIDE DEF b1, b2, b3, b4, b5, b6, b7
    <3>1. <<b1, b2>> \o (<<b3, b4>> \o <<b5, b6, b7>>) = <<b1, b2, b3, b4, b5, b6, b7>>
        BY Seven
    <3>2. second = <<b1, b2>> /\ third = <<b3, b4>> /\ last = <<b5, b6, b7>>
        BY DEF third, last, b1, b2, b3, b4, b5, b6, b7
    <3>3. WriteFileAtomic(op, f, T) = first \o <<b1, b2, b3, b4, b5, b6, b7>>
        BY <1>11 DEF WriteFileAtomic, p, o, v, r, t, c, b1, b2, b3, b4, b5, b6, b7
    <3> HIDE DEF first, second
    <3> QED
        BY <3>1, <3>2, <3>3
  <2> QED
      BY <1>9, <2>15, <2>16
<1> QED
    BY <1>10, <1>11

\* Whatever a handler is to do when its step begins can be done.
LEMMA HandlerReady ==
    ASSUME NEW n \in Nat, NEW s \in Nat, NEW T, T = StepTemps(n, s), NEW f \in Dirs, NEW R \in Seq(UndoRecords),
           FreshNames(T, f, R), NEW op \in Actions, NEW policy, NEW w \in BOOLEAN, w => op.kind = "AtomicWrite"
    PROVE  Handler(op, policy, f, T) \in Seq(Items(n, s)) /\ Ready(Handler(op, policy, f, T), f, R, w)
<1>1. CASE Fails(op, policy, f)
  <2>1. Handler(op, policy, f, T) = <<Fail>>
      BY <1>1 DEF Handler
  <2>2. Fail \in Items(n, s) /\ Head(<<Fail>>) = Fail /\ Impossible(Fail, f)
      BY DEF Items, Impossible, Fail
  <2>3. <<Fail>> \in Seq(Items(n, s)) /\ Ready(<<Fail>>, f, R, w)
      BY <2>2, ReadyMore
  <2> QED
      BY <2>1, <2>3
<1>2. CASE ~Fails(op, policy, f) /\ Skips(op, policy, f)
    BY <1>2, ReadyNothing DEF Handler
<1>3. CASE ~Fails(op, policy, f) /\ ~Skips(op, policy, f)
  <2>1. op.kind \in {"AtomicWrite", "RemovePath", "SafeReplace", "Rename", "CopyFile"}
      BY ActionIs
  <2>2. CASE op.kind = "AtomicWrite"
    <3>1. Handler(op, policy, f, T) = WriteFileAtomic(op, f, T)
        BY <1>3, <2>2 DEF Handler
    <3> QED
        BY <2>2, <3>1, WriteFileReady
  <2>3. CASE op.kind = "CopyFile"
    <3>1. Handler(op, policy, f, T) = CopyFileTracked(op, f, T) /\ w = FALSE
        BY <1>3, <2>3 DEF Handler
    <3>2. Has(f, op.src)
        BY <1>3, <2>3 DEF Fails, TakesSource
    <3> QED
        BY <2>3, <3>1, <3>2, CopyFileReady
  <2>4. CASE op.kind = "RemovePath"
    <3>1. Handler(op, policy, f, T) = RemovePathTracked(op, T) /\ w = FALSE
        BY <1>3, <2>4 DEF Handler
    <3> QED
        BY <3>1, RemovePathReady
  <2>5. CASE op.kind \in {"SafeReplace", "Rename"}
    <3>1. Handler(op, policy, f, T) = MoveFile(op, f, T) /\ w = FALSE
        BY <1>3, <2>5 DEF Handler
    <3> QED
        BY <2>5, <3>1, MoveFileReady
  <2> QED
      BY <2>1, <2>2, <2>3, <2>4, <2>5
<1> QED
    BY <1>1, <1>2, <1>3

------------------------------------------------------------------------------
(* The types of the variables. *)

\* What run n may have named, and with it the runs before.
Used(n) == {p \in AllPaths : p \in Temps => p.run <= n}
\* What it may have named up to its step s.
Named(n, s) == {p \in AllPaths : p \in Temps => p.run < n \/ (p.run = n /\ p.step <= s)}
Undoable(n) == {r \in UndoRecords : PathsOf(r) \subseteq Used(n)}
JournalRecords(n) == {r \in Records : PathsOf(r) \subseteq Used(n) /\ (IsUndo(r) => r \in UndoRecords)}

RunCalls(n, s) ==
    [phase : {"run"}, plan : Plans, policy : Policies, failFast : FailFast, mode : Modes, step : {s},
     todo : Seq(Items(n, s)), undo : Seq(Undoable(n)), later : Seq(Temps), failed : BOOLEAN]
CleanupCalls == [phase : {"cleanup"}, later : Seq(Temps)]
UndoCalls(n) ==
    [phase : {"rollback", "recover"}, todo : Seq(Undoable(n)), mode : {"BestEffort", "Strict"}, at : {"check", "swap", "mark"},
     blocked : SUBSET AllPaths, ok : BOOLEAN, again : BOOLEAN]

CallTypes ==
    /\ call.phase \in {"idle", "run", "cleanup", "rollback", "recover"}
    /\ InPhase("run") => call.step \in Nat /\ call \in RunCalls(spent.runs, call.step) /\ call.step <= Len(call.plan)
    /\ InPhase("cleanup") => call \in CleanupCalls
    /\ Undoing =>
          /\ call \in UndoCalls(spent.runs)
          /\ call.at # "check" => call.todo # <<>> /\ Last(call.todo).kind = "REPLACE"
          /\ call.at = "swap" => Has(fs, Last(call.todo).staging)
FileTypes ==
    /\ fs \in Dirs /\ DOMAIN fs \subseteq Used(spent.runs)
    /\ InPhase("run") => DOMAIN fs \subseteq Named(spent.runs, call.step)
JournalTypes ==
    /\ journal \in Seq(JournalRecords(spent.runs)) \cup {NoJournal}
    /\ ~InPhase("idle") => journal \in Seq(JournalRecords(spent.runs))
HistoryTypes ==
    /\ spent \in [runs : Nat, faults : Nat, crashes : Nat, foreign : Nat]
    /\ planned \in Plans \cup {<<>>}
    /\ original \in Dirs /\ DOMAIN original \subseteq UserPaths
    /\ undone \in BOOLEAN
    /\ result \in {"none", "ok", "failed", "rolledBack", "recovered", "stuck", "crashed"}
Types == CallTypes /\ FileTypes /\ JournalTypes /\ HistoryTypes

\* What one run has named, the next ones have.
LEMMA UsedMore ==
    ASSUME NEW n \in Nat
    PROVE  /\ Used(n) \subseteq Used(n + 1) /\ Seq(JournalRecords(n)) \subseteq Seq(JournalRecords(n + 1))
           /\ UserPaths \cup CutPaths \subseteq Used(n) /\ Used(n) \subseteq AllPaths
           /\ \A s \in Nat : Names(n, s) \subseteq Used(n) /\ Logged(n, s) \subseteq Undoable(n)
           /\ Undoable(n) \subseteq JournalRecords(n) /\ Undoable(n) \subseteq UndoRecords
<1>1. \A t \in Temps : t.run \in Nat
    BY DEF Temps
<1>2. Used(n) \subseteq Used(n + 1) /\ UserPaths \cup CutPaths \subseteq Used(n) /\ Used(n) \subseteq AllPaths
    BY <1>1, PathKinds DEF Used, AllPaths, Paths
<1>3. JournalRecords(n) \subseteq JournalRecords(n + 1)
    BY <1>2 DEF JournalRecords
<1>4. Seq(JournalRecords(n)) \subseteq Seq(JournalRecords(n + 1))
    BY <1>3, SeqMonotonic
<1>5. ASSUME NEW s \in Nat PROVE Names(n, s) \subseteq Used(n)
  <2>1. \A tag \in Tags : Temp(n, s, tag) \in Temps /\ Temp(n, s, tag).run <= n
      BY TempNames
  <2> QED
      BY <1>2, <2>1 DEF Names, Used, AllPaths, Paths
<1>6. \A s \in Nat : Logged(n, s) \subseteq Undoable(n)
    BY <1>5 DEF Logged, Undoable
<1>7. Undoable(n) \subseteq JournalRecords(n) /\ Undoable(n) \subseteq UndoRecords
    BY DEF Undoable, JournalRecords, UndoRecords
<1> QED
    BY <1>2, <1>4, <1>5, <1>6, <1>7

\* What a step has named, the next ones have, and so has every later run; no step has named what a later one will.
LEMMA NamedMore ==
    ASSUME NEW n \in Nat, NEW s \in Nat
    PROVE  /\ Named(n, s) \subseteq Used(n) /\ Named(n, s) \subseteq Named(n, s + 1) /\ Names(n, s) \subseteq Named(n, s)
           /\ Used(n) \subseteq Named(n + 1, s) /\ UserPaths \cup CutPaths \subseteq Named(n, s)
           /\ \A tag \in Tags : Temp(n, s + 1, tag) \notin Named(n, s)
<1>1. \A t \in Temps : t.run \in Nat /\ t.step \in Nat
    BY DEF Temps
<1>2. /\ Named(n, s) \subseteq Used(n) /\ Named(n, s) \subseteq Named(n, s + 1)
      /\ Used(n) \subseteq Named(n + 1, s) /\ UserPaths \cup CutPaths \subseteq Named(n, s)
    BY <1>1, PathKinds DEF Named, Used, AllPaths, Paths
<1>3. \A tag \in Tags : Temp(n, s, tag) \in Named(n, s)
  <2>1. \A tag \in Tags : Temp(n, s, tag) \in Temps /\ Temp(n, s, tag).run = n /\ Temp(n, s, tag).step = s
      BY TempNames
  <2> QED
      BY <2>1 DEF Named, AllPaths, Paths
<1>4. \A tag \in Tags : Temp(n, s + 1, tag) \notin Named(n, s)
  <2>1. \A tag \in Tags : Temp(n, s + 1, tag) \in Temps /\ Temp(n, s + 1, tag).run = n
                          /\ Temp(n, s + 1, tag).step = s + 1
      BY TempNames
  <2> QED
      BY <2>1 DEF Named
<1> QED
    BY <1>2, <1>3, <1>4 DEF Names

\* The records besides the undo records.
LEMMA OtherRecords ==
    ASSUME NEW n \in Nat
    PROVE  /\ CommitRecord \in JournalRecords(n) /\ TornRecord \in JournalRecords(n)
           /\ \A u \in Undoable(n) : u.kind = "REPLACE" => RestoredRecord(u) \in JournalRecords(n)
<1>1. NoPath \in AnyPath /\ AllPaths \subseteq AnyPath
    BY DEF AnyPath
<1>2. CommitRecord \in JournalRecords(n)
    BY <1>1 DEF CommitRecord, Record, JournalRecords, Records, IsUndo, PathsOf
<1>3. TornRecord \in JournalRecords(n)
    BY <1>1 DEF TornRecord, Record, JournalRecords, Records, IsUndo, PathsOf
<1>4. ASSUME NEW u \in Undoable(n), u.kind = "REPLACE" PROVE RestoredRecord(u) \in JournalRecords(n)
  <2>1. u \in UndoRecords /\ PathsOf(u) \subseteq Used(n) /\ Used(n) \subseteq AllPaths
      BY UsedMore DEF Undoable
  <2>2. u.from \in Used(n)
      BY <1>4, <2>1, PathsOfRecords, KindOfRecord
  <2> DEFINE r == RestoredRecord(u)
  <2>3. /\ r.kind = "RESTORED" /\ r.from = u.from /\ r.to = NoPath /\ r.witness = NoPath /\ r.staging = NoPath
        /\ r \in Records
      BY <1>1, <2>1, <2>2 DEF RestoredRecord, Record, Records
  <2> HIDE DEF r
  <2>4. PathsOf(r) \subseteq Used(n) /\ ~IsUndo(r)
      BY <2>2, <2>3 DEF PathsOf, IsUndo
  <2> QED
      BY <2>3, <2>4 DEF JournalRecords, r
<1> QED
    BY <1>2, <1>3, <1>4

\* What a record that was cut short reads as.
CutOf(c, r) ==
    \/ c.kind = "TORN"
    \/ /\ ~c.ended /\ c.kind = r.kind
       /\ c.from = r.from \/ (r.kind = "REMOVE" /\ c.from \in CutPaths)
       /\ c.to = r.to \/ (r.kind = "MOVE" /\ c.to \in CutPaths)
       /\ c.witness = r.witness /\ c.staging = r.staging

\* It is one of these records.
LEMMA CutsAre ==
    ASSUME NEW n \in Nat, NEW r \in JournalRecords(n), NEW c \in Cuts(r)
    PROVE  c \in JournalRecords(n) /\ CutOf(c, r)
<1> DEFINE open == [r EXCEPT !.ended = FALSE]
           torn == [TornRecord EXCEPT !.ended = FALSE]
<1>0. CutPaths \subseteq Used(n) /\ CutPaths \subseteq AnyPath
    BY UsedMore DEF AnyPath, AllPaths
<1>1. /\ open \in Records /\ open.kind = r.kind /\ open.from = r.from /\ open.to = r.to /\ open.witness = r.witness
      /\ open.staging = r.staging /\ open.ended = FALSE
    BY DEF JournalRecords, Records
<1>2. torn \in JournalRecords(n) /\ torn.kind = "TORN"
  <2>1. TornRecord \in JournalRecords(n) /\ TornRecord.kind = "TORN"
      BY OtherRecords DEF TornRecord, Record
  <2>2. TornRecord \in Records
      BY <2>1 DEF JournalRecords
  <2> HIDE DEF torn
  <2>3. torn \in Records /\ torn.kind = "TORN" /\ PathsOf(torn) = PathsOf(TornRecord)
      BY <2>1, <2>2 DEF torn, Records, PathsOf
  <2> QED
      BY <2>1, <2>3 DEF JournalRecords, IsUndo
<1> HIDE DEF open, torn
<1>3. open \in JournalRecords(n)
  <2>1. PathsOf(open) = PathsOf(r) /\ (IsUndo(open) <=> IsUndo(r))
      BY <1>1 DEF PathsOf, IsUndo
  <2>2. r \in UndoRecords => open \in UndoRecords
      BY <1>1 DEF UndoRecords, IsRemove, IsMove, IsReplace
  <2> QED
      BY <1>1, <2>1, <2>2 DEF JournalRecords
<1>4. ASSUME r.kind = "REMOVE", NEW p \in CutPaths, c = [open EXCEPT !.from = p]
      PROVE  c \in JournalRecords(n) /\ CutOf(c, r)
  <2>1. /\ c \in Records /\ c.kind = "REMOVE" /\ c.from = p /\ c.to = r.to /\ c.witness = r.witness
        /\ c.staging = r.staging /\ ~c.ended
      BY <1>0, <1>1, <1>4 DEF Records
  <2>2. r \in UndoRecords /\ IsRemove(r)
      BY <1>4, KindOfRecord DEF JournalRecords, IsUndo
  <2>3. IsRemove(c) /\ c \in UndoRecords
      BY <2>1, <2>2 DEF IsRemove, UndoRecords
  <2>4. PathsOf(c) = {p}
      BY <2>1, <2>3, PathsOfRecords
  <2> QED
      BY <1>0, <1>4, <2>1, <2>3, <2>4 DEF JournalRecords, CutOf
<1>5. ASSUME r.kind = "MOVE", NEW p \in CutPaths, c = [open EXCEPT !.to = p]
      PROVE  c \in JournalRecords(n) /\ CutOf(c, r)
  <2>1. /\ c \in Records /\ c.kind = "MOVE" /\ c.from = r.from /\ c.to = p /\ c.witness = r.witness
        /\ c.staging = r.staging /\ ~c.ended
      BY <1>0, <1>1, <1>5 DEF Records
  <2>2. r \in UndoRecords /\ IsMove(r) /\ PathsOf(r) \subseteq Used(n)
      BY <1>5, KindOfRecord DEF JournalRecords, IsUndo
  <2>3. IsMove(c) /\ c \in UndoRecords
      BY <2>1, <2>2 DEF IsMove, UndoRecords, AllPaths
  <2>4. PathsOf(c) = {r.from, p} /\ r.from \in PathsOf(r)
      BY <2>1, <2>2, <2>3, PathsOfRecords
  <2> QED
      BY <1>0, <1>5, <2>1, <2>2, <2>3, <2>4 DEF JournalRecords, CutOf
<1>6. CutOf(open, r) /\ CutOf(torn, r)
    BY <1>1, <1>2 DEF CutOf
<1>7. \/ c = open \/ c = torn
      \/ r.kind = "REMOVE" /\ \E p \in CutPaths : c = [open EXCEPT !.from = p]
      \/ r.kind = "MOVE" /\ \E p \in CutPaths : c = [open EXCEPT !.to = p]
    BY DEF Cuts, open, torn
<1> QED
    BY <1>2, <1>3, <1>4, <1>5, <1>6, <1>7

\* A record is appended, or makes a line that nobody can read of what was left without its end.
LEMMA AppendedIs ==
    ASSUME NEW n \in Nat, journal \in Seq(JournalRecords(n)), NEW r \in JournalRecords(n)
    PROVE  /\ Appended(r) \in Seq(JournalRecords(n))
           /\ \/ Appended(r) = Append(journal, r) /\ (journal = <<>> \/ Last(journal).ended)
              \/ "TORN" \in Kinds(Appended(r)) /\ journal # <<>> /\ ~Last(journal).ended
           /\ "TORN" \in Kinds(journal) => "TORN" \in Kinds(Appended(r))
           /\ Kinds(Appended(r)) \subseteq Kinds(journal) \cup {r.kind, "TORN"}
<1>1. ASSUME NEW j \in Seq(JournalRecords(n)), NEW c \in JournalRecords(n)
      PROVE  Append(j, c) \in Seq(JournalRecords(n)) /\ Kinds(Append(j, c)) = Kinds(j) \cup {c.kind}
  <2> DEFINE x == Append(j, c)
             N == Len(j)
  <2>1. /\ x \in Seq(JournalRecords(n)) /\ N \in Nat /\ DOMAIN x = 1..N + 1 /\ DOMAIN j = 1..N
        /\ x[N + 1] = c /\ \A i \in 1..N : x[i] = j[i]
      OBVIOUS
  <2> HIDE DEF x
  <2>2. Kinds(x) = Kinds(j) \cup {c.kind}
      BY <2>1, SMTT(30) DEF Kinds
  <2> QED
      BY <2>1, <2>2 DEF x
<1>2. CASE journal = <<>> \/ Last(journal).ended
  <2>1. Appended(r) = Append(journal, r)
      BY <1>2 DEF Appended
  <2> QED
      BY <1>1, <1>2, <2>1
<1>3. CASE journal # <<>> /\ ~Last(journal).ended
  <2>1. Appended(r) = Append(Front(journal), TornRecord) /\ TornRecord \in JournalRecords(n) /\ TornRecord.kind = "TORN"
      BY <1>3, OtherRecords DEF Appended, TornRecord, Record
  <2>2. /\ Front(journal) \in Seq(JournalRecords(n)) /\ DOMAIN Front(journal) = 1..Len(journal) - 1
        /\ Len(journal) \in Nat /\ \A i \in 1..Len(journal) - 1 : Front(journal)[i] = journal[i]
      BY <1>3, FrontAndLast
  <2>3. Kinds(Front(journal)) \subseteq Kinds(journal)
      BY <2>2 DEF Kinds
  <2> QED
      BY <1>1, <1>3, <2>1, <2>2, <2>3
<1> QED
    BY <1>2, <1>3

\* A failed append leaves the journal, or appends the record or what was left of it.
LEMMA FailedAppendIs ==
    ASSUME NEW n \in Nat, NEW r \in JournalRecords(n), NEW j \in AfterFailedAppend(r)
    PROVE  j = journal \/ \E c \in JournalRecords(n) : (c = r \/ CutOf(c, r)) /\ j = Appended(c)
<1>1. j = journal \/ j = Appended(r) \/ \E c \in Cuts(r) : j = Appended(c)
    BY DEF AfterFailedAppend
<1> QED
    BY <1>1, CutsAre

------------------------------------------------------------------------------
(* The undo records of a journal. *)

\* A number that is reached one by one is passed.
LEMMA Reached ==
    ASSUME NEW N \in Nat, NEW f \in [0..N -> Nat], f[0] = 0,
           \A i \in 1..N : f[i] \in {f[i - 1], f[i - 1] + 1},
           NEW k \in 1..f[N]
    PROVE  \E i \in 1..N : f[i] = k /\ f[i - 1] = k - 1
<1> DEFINE T == {i \in 0..N : f[i] >= k}
<1>1. N \in T /\ T \subseteq Nat
    OBVIOUS
<1>2. PICK i \in T : \A j \in T : ~(<<j, i>> \in OpToRel(<, Nat))
    BY <1>1, NatLessThanWellFounded, WFMin
<1>3. \A j \in T : ~(j < i)
    BY <1>1, <1>2 DEF OpToRel
<1>4. i \in 0..N /\ f[i] >= k
    BY <1>2
<1>5. i # 0
    BY <1>4
<1>6. i - 1 \in 0..N /\ f[i - 1] < k
    BY <1>3, <1>4, <1>5
<1>7. f[i] = k /\ f[i - 1] = k - 1
    BY <1>4, <1>5, <1>6, SMTT(30)
<1> QED
    BY <1>4, <1>5, <1>7

\* The undo records of the journal, for recovery.
LEMMA UndosAre ==
    ASSUME NEW n \in Nat, journal \in Seq(JournalRecords(n))
    PROVE  Undos \in Seq(Undoable(n)) /\ (journal \in Seq(UndoRecords) => Undos = journal)
<1> DEFINE S == {i \in DOMAIN journal : IsUndo(journal[i])}
           N == Len(journal)
           f == [i \in 0..N |-> Cardinality(S \cap 1..i)]
           Nth(k) == CHOOSE i \in S : Cardinality(S \cap 1..i) = k
<1>1. N \in Nat /\ DOMAIN journal = 1..N /\ \A i \in 1..N : journal[i] \in JournalRecords(n)
    OBVIOUS
<1>2. S \subseteq 1..N /\ S = S \cap 1..N
    BY <1>1
<1>3. ASSUME NEW i \in 0..N PROVE IsFiniteSet(S \cap 1..i) /\ Cardinality(S \cap 1..i) \in Nat
  <2>1. IsFiniteSet(1..i) /\ S \cap 1..i \in SUBSET (1..i)
      BY FS_Interval
  <2> QED
      BY <2>1, FS_Subset, FS_CardinalityType
<1>4. f \in [0..N -> Nat] /\ f[N] = Cardinality(S) /\ \A i \in 0..N : f[i] = Cardinality(S \cap 1..i)
  <2>1. \A i \in 0..N : Cardinality(S \cap 1..i) \in Nat
      BY <1>3
  <2>2. N \in 0..N
      BY <1>1
  <2> HIDE DEF S
  <2> QED
      BY <1>2, <2>1, <2>2
<1>5. f[0] = 0
  <2>1. S \cap 1..0 = {}
      OBVIOUS
  <2> QED
      BY <1>1, <1>4, <2>1, FS_EmptySet
<1>6. ASSUME NEW i \in 1..N PROVE f[i] = IF i \in S THEN f[i - 1] + 1 ELSE f[i - 1]
  <2> DEFINE A == S \cap 1..(i - 1)
  <2>1. S \cap 1..i = IF i \in S THEN A \cup {i} ELSE A
      BY <1>1
  <2>2. i \notin A
      BY <1>1
  <2>3. i \in 0..N /\ i - 1 \in 0..N
      BY <1>1
  <2>4. IsFiniteSet(A)
      BY <1>3, <2>3
  <2> HIDE DEF A
  <2>5. Cardinality(A \cup {i}) = Cardinality(A) + 1
      BY <2>2, <2>4, FS_AddElement
  <2>6. f[i] = Cardinality(S \cap 1..i) /\ f[i - 1] = Cardinality(A)
      BY <1>4, <2>3 DEF A
  <2> HIDE DEF S, f
  <2> QED
      BY <2>1, <2>5, <2>6
<1> HIDE DEF f
<1>7. ASSUME NEW k \in 1..Cardinality(S) PROVE \E i \in S : Cardinality(S \cap 1..i) = k
  <2>1. PICK i \in 1..N : f[i] = k /\ f[i - 1] = k - 1
    <3>1. \A i \in 1..N : f[i] \in {f[i - 1], f[i - 1] + 1}
        BY <1>6
    <3> HIDE DEF S
    <3> QED
        BY <1>1, <1>4, <1>5, <3>1, Reached, ZenonT(30)
  <2>2. i \in S
    <3> HIDE DEF S
    <3> QED
        BY <1>6, <2>1
  <2>3. i \in 0..N
      BY <1>1
  <2> HIDE DEF S
  <2> QED
      BY <1>4, <2>1, <2>2, <2>3
<1>8. Cardinality(S) \in Nat
    BY <1>1, <1>4
<1>9. Undos = [k \in 1..Cardinality(S) |-> journal[Nth(k)]]
    BY DEF Undos
<1>10. ASSUME NEW k \in 1..Cardinality(S) PROVE Nth(k) \in S /\ Cardinality(S \cap 1..Nth(k)) = k
    BY <1>7
<1>11. \A k \in 1..Cardinality(S) : journal[Nth(k)] \in Undoable(n)
  <2>1. \A i \in S : journal[i] \in Undoable(n)
      BY <1>1 DEF JournalRecords, Undoable
  <2> HIDE DEF S
  <2> QED
      BY <1>10, <2>1
<1>12. Undos \in Seq(Undoable(n))
  <2> HIDE DEF S, Nth
  <2> QED
      BY <1>8, <1>9, <1>11
<1>13. ASSUME journal \in Seq(UndoRecords) PROVE Undos = journal
  <2>1. \A i \in 1..N : IsUndo(journal[i])
      BY <1>1, <1>13 DEF UndoRecords, IsUndo, IsRemove, IsMove, IsReplace
  <2>2. S = 1..N
      BY <1>1, <2>1
  <2>3. Cardinality(S) = N /\ \A i \in 1..N : S \cap 1..i = 1..i /\ Cardinality(1..i) = i
    <3>1. \A i \in 1..N : S \cap 1..i = 1..i
        BY <1>1, <2>2
    <3>2. \A i \in Nat : Cardinality(1..i) = i
        BY FS_Interval
    <3> HIDE DEF S
    <3> QED
        BY <1>1, <2>2, <3>1, <3>2
  <2>4. \A k \in 1..N : Nth(k) = k
    <3> HIDE DEF S, Nth
    <3> QED
        BY <1>10, <2>2, <2>3, ZenonT(30)
  <2>5. Undos = [k \in 1..N |-> journal[k]]
    <3> HIDE DEF S, Nth
    <3> QED
        BY <1>9, <2>3, <2>4
  <2> QED
      BY <1>1, <2>5
<1> QED
    BY <1>12, <1>13

------------------------------------------------------------------------------
(* Every action keeps the types. *)

\* A bound is used once more.
LEMMA SpentTypes ==
    ASSUME HistoryTypes
    PROVE  /\ spent.runs \in Nat /\ spent.faults \in Nat /\ spent.crashes \in Nat /\ spent.foreign \in Nat
           /\ \A what \in {"runs", "faults", "crashes", "foreign"} :
                 /\ SpentOne(what) \in [runs : Nat, faults : Nat, crashes : Nat, foreign : Nat]
                 /\ SpentOne(what)[what] = spent[what] + 1
                 /\ \A other \in {"runs", "faults", "crashes", "foreign"} \ {what} :
                       SpentOne(what)[other] = spent[other]
BY DEF HistoryTypes, SpentOne

\* The user's files of a directory.
LEMMA UserFilesAre ==
    ASSUME NEW f \in Dirs
    PROVE  /\ UserFiles(f) \in Dirs /\ DOMAIN UserFiles(f) = DOMAIN f \cap UserPaths
           /\ \A p \in DOMAIN UserFiles(f) : UserFiles(f)[p] = f[p]
BY DirIs DEF UserFiles

\* The start.
LEMMA InitTypes == Init => Types
<1> SUFFICES ASSUME Init PROVE Types
    OBVIOUS
<1>1. PICK S \in SUBSET Files : fs = [f \in S |-> f]
    BY DEF Init
<1>2. spent = [runs |-> 0, faults |-> 0, crashes |-> 0, foreign |-> 0] /\ spent.runs = 0
    BY DEF Init
<1>3. Files \subseteq Used(0) /\ Files \subseteq Contents /\ Files \subseteq AllPaths
    BY UsedMore DEF UserPaths, Contents, AllPaths, Paths
<1>4. FileTypes
  <2>1. ~InPhase("run")
      BY DEF Init, InPhase, Idle
  <2> QED
      BY <1>1, <1>2, <1>3, <2>1, DirIs DEF FileTypes
<1>5. HistoryTypes
  <2>1. original \in Dirs /\ DOMAIN original \subseteq UserPaths
      BY <1>4, UserFilesAre DEF Init, FileTypes
  <2>2. spent \in [runs : Nat, faults : Nat, crashes : Nat, foreign : Nat]
      BY <1>2
  <2>3. planned = <<>> /\ undone = FALSE /\ result = "none"
      BY DEF Init
  <2> QED
      BY <2>1, <2>2, <2>3 DEF HistoryTypes
<1>6. CallTypes /\ JournalTypes
    BY DEF Init, CallTypes, JournalTypes, Idle, InPhase, Undoing
<1> QED
    BY <1>4, <1>5, <1>6 DEF Types

\* Run begins.
LEMMA BeginTypes ==
    ASSUME Types, NEW plan \in Plans, NEW policy \in Policies, NEW failFast \in FailFast, NEW mode \in Modes,
           Begin(plan, policy, failFast, mode)
    PROVE  Types'
<1> DEFINE n == spent.runs
<1>1. /\ n \in Nat /\ spent' \in [runs : Nat, faults : Nat, crashes : Nat, foreign : Nat] /\ spent'.runs = n + 1
    BY SpentTypes DEF Types, Begin
<1>2. FileTypes'
    BY <1>1, UsedMore, NamedMore DEF Types, FileTypes, Begin, RunCall
<1>3. JournalTypes'
    BY <1>1 DEF JournalTypes, Begin
<1>4. CallTypes'
  <2>1. /\ call' = [phase |-> "run", plan |-> plan, policy |-> policy, failFast |-> failFast, mode |-> mode,
                    step |-> 0, todo |-> <<>>, undo |-> <<>>, later |-> <<>>, failed |-> FALSE]
      BY DEF Begin, RunCall
  <2>2. call' \in RunCalls(n + 1, 0) /\ call'.step = 0 /\ call'.phase = "run" /\ call'.plan = plan
      BY <2>1 DEF RunCalls
  <2>3. Len(plan) \in Nat
      BY PathAssumption
  <2> QED
      BY <1>1, <2>2, <2>3 DEF CallTypes, InPhase, Undoing
<1>5. HistoryTypes'
    BY <1>1, UserFilesAre DEF Types, FileTypes, HistoryTypes, Begin
<1> QED
    BY <1>2, <1>3, <1>4, <1>5 DEF Types

\* Run fails to begin.
LEMMA BeginFailsTypes ==
    ASSUME Types, BeginFails
    PROVE  Types'
<1> DEFINE n == spent.runs
<1>1. n \in Nat /\ spent' \in [runs : Nat, faults : Nat, crashes : Nat, foreign : Nat] /\ spent'.runs = n + 1
  <2>1. spent \in [runs : Nat, faults : Nat, crashes : Nat, foreign : Nat]
      BY DEF Types, HistoryTypes
  <2>2. spent' = [spent EXCEPT !.runs = spent.runs + 1, !.faults = spent.faults + 1]
      BY DEF BeginFails
  <2>3. PICK k \in Nat, m \in Nat : k = spent.runs + 1 /\ m = spent.faults + 1
      BY <2>1
  <2>4. spent' = [spent EXCEPT !.runs = k, !.faults = m]
      BY <2>2, <2>3
  <2>5. \A s \in [runs : Nat, faults : Nat, crashes : Nat, foreign : Nat] :
          LET t == [s EXCEPT !.runs = k, !.faults = m]
          IN  t \in [runs : Nat, faults : Nat, crashes : Nat, foreign : Nat] /\ t.runs = k
      OBVIOUS
  <2> QED
      BY <2>1, <2>3, <2>4, <2>5
<1>2. FileTypes'
    BY <1>1, UsedMore DEF Types, FileTypes, BeginFails, InPhase
<1>3. JournalTypes'
  <2>1. journal \in Seq(JournalRecords(n + 1)) \cup {NoJournal}
      BY <1>1, UsedMore DEF Types, JournalTypes
  <2>2. TornRecord \in JournalRecords(n + 1)
      BY <1>1, OtherRecords
  <2>3. <<>> \in Seq(JournalRecords(n + 1)) /\ <<TornRecord>> \in Seq(JournalRecords(n + 1))
      BY <2>2
  <2>4. journal' \in {journal, NoJournal, <<>>, <<TornRecord>>}
      BY DEF BeginFails
  <2> QED
      BY <1>1, <2>1, <2>3, <2>4 DEF JournalTypes, BeginFails, InPhase
<1>4. CallTypes'
    BY DEF CallTypes, BeginFails, InPhase, Undoing
<1>5. HistoryTypes'
    BY <1>1, UserFilesAre DEF Types, FileTypes, HistoryTypes, BeginFails
<1> QED
    BY <1>2, <1>3, <1>4, <1>5 DEF Types

\* The fields of a run that goes on.
RunFields(c, n, s) ==
    /\ c.phase = "run" /\ c.plan \in Plans /\ c.policy \in Policies /\ c.failFast \in FailFast /\ c.mode \in Modes
    /\ c.step = s /\ c.todo \in Seq(Items(n, s)) /\ c.undo \in Seq(Undoable(n)) /\ c.later \in Seq(Temps)
    /\ c.failed \in BOOLEAN

\* A run has these fields.
LEMMA RunCallIs ==
    ASSUME NEW n \in Nat, NEW s \in Nat, NEW c \in RunCalls(n, s)
    PROVE  RunFields(c, n, s)
BY DEF RunCalls, RunFields

\* d is the run c, as far as it stays the same.
SameCall(d, c, n, s) ==
    /\ d \in RunCalls(n, s) /\ d.phase = "run" /\ d.plan = c.plan /\ d.failFast = c.failFast /\ d.step = s
\* d is c after one primitive more, with undo logged.
NextItem(d, c, n, s, undo) ==
    SameCall(d, c, n, s) /\ d.todo = Tail(c.todo) /\ d.undo = undo /\ d.failed = c.failed

\* d is c after a step that has failed.
StepOver(d, c, n, s) == SameCall(d, c, n, s) /\ d.todo = <<>> /\ d.undo = c.undo /\ d.failed = TRUE

\* The next step of the plan.
LEMMA CallBegins ==
    ASSUME NEW n \in Nat, NEW s \in Nat, NEW c \in RunCalls(n, s), NEW t \in Nat, NEW todo \in Seq(Items(n, t)),
           NEW d, d = [c EXCEPT !.step = t, !.todo = todo]
    PROVE  SameCall(d, c, n, t) /\ d.todo = todo /\ d.undo = c.undo /\ d.failed = c.failed
BY DEF RunCalls, SameCall

\* The next primitive.
LEMMA CallGoesOn ==
    ASSUME NEW n \in Nat, NEW s \in Nat, NEW c \in RunCalls(n, s), c.todo # <<>>, NEW d, d = [c EXCEPT !.todo = Tail(@)]
    PROVE  NextItem(d, c, n, s, c.undo) /\ d.later = c.later
<1>1. Tail(c.todo) \in Seq(Items(n, s))
    BY RunCallIs, HeadTailProperties DEF RunFields
<1> QED
    BY <1>1 DEF RunCalls, SameCall, NextItem

\* A record is logged.
LEMMA CallLogs ==
    ASSUME NEW n \in Nat, NEW s \in Nat, NEW c \in RunCalls(n, s), c.todo # <<>>, NEW r \in Undoable(n),
           NEW d, d = [[c EXCEPT !.todo = Tail(@)] EXCEPT !.undo = Append(@, r)]
    PROVE  NextItem(d, c, n, s, Append(c.undo, r))
<1> DEFINE e == [c EXCEPT !.todo = Tail(@)]
<1>1. SameCall(e, c, n, s) /\ e.todo = Tail(c.todo) /\ e.undo = c.undo /\ e.failed = c.failed
    BY CallGoesOn DEF NextItem
<1>2. d = [e EXCEPT !.undo = Append(@, r)]
    OBVIOUS
<1> HIDE DEF e
<1>3. Append(e.undo, r) \in Seq(Undoable(n))
    BY <1>1 DEF RunCalls, SameCall
<1> QED
    BY <1>1, <1>2, <1>3 DEF RunCalls, SameCall, NextItem

\* A file is moved.
LEMMA CallMoves ==
    ASSUME NEW n \in Nat, NEW s \in Nat, NEW c \in RunCalls(n, s), c.todo # <<>>, NEW l \in Seq(Temps),
           NEW d, d = [[c EXCEPT !.todo = Tail(@)] EXCEPT !.later = @ \o l]
    PROVE  NextItem(d, c, n, s, c.undo)
<1> DEFINE e == [c EXCEPT !.todo = Tail(@)]
<1>1. SameCall(e, c, n, s) /\ e.todo = Tail(c.todo) /\ e.undo = c.undo /\ e.failed = c.failed
    BY CallGoesOn DEF NextItem
<1>2. d = [e EXCEPT !.later = @ \o l]
    OBVIOUS
<1> HIDE DEF e
<1>3. e.later \o l \in Seq(Temps)
    BY <1>1 DEF RunCalls, SameCall
<1> QED
    BY <1>1, <1>2, <1>3 DEF RunCalls, SameCall, NextItem

\* A step has failed.
LEMMA CallFails ==
    ASSUME NEW n \in Nat, NEW s \in Nat, NEW c \in RunCalls(n, s), NEW d, d = [c EXCEPT !.todo = <<>>, !.failed = TRUE]
    PROVE  StepOver(d, c, n, s)
<1>1. <<>> \in Seq(Items(n, s)) /\ TRUE \in BOOLEAN
    OBVIOUS
<1> QED
    BY <1>1 DEF RunCalls, SameCall, StepOver

\* No step but the first of a run changes the run or what it began with.
Results == {"none", "ok", "failed", "rolledBack", "recovered", "stuck", "crashed"}
SameRun ==
    /\ spent' = spent \/ \E what \in {"faults", "crashes", "foreign"} : spent' = SpentOne(what)
    /\ planned' = planned /\ original' = original /\ undone' \in BOOLEAN /\ result' \in Results

\* The types of what is kept of a run.
LEMMA HistoryKept ==
    ASSUME HistoryTypes, SameRun
    PROVE  HistoryTypes' /\ spent'.runs = spent.runs
<1>1. spent' \in [runs : Nat, faults : Nat, crashes : Nat, foreign : Nat] /\ spent'.runs = spent.runs
  <2>1. CASE spent' = spent
      BY <2>1 DEF HistoryTypes
  <2>2. CASE \E what \in {"faults", "crashes", "foreign"} : spent' = SpentOne(what)
      BY <2>2, SpentTypes
  <2> QED
      BY <2>1, <2>2 DEF SameRun
<1> QED
    BY <1>1 DEF HistoryTypes, SameRun, Results

\* What is to be done next, in a run.
LEMMA RunItem ==
    ASSUME Types, InPhase("run")
    PROVE  /\ spent.runs \in Nat /\ call.step \in Nat /\ RunFields(call, spent.runs, call.step)
           /\ call \in RunCalls(spent.runs, call.step) /\ call.step <= Len(call.plan)
           /\ fs \in Dirs /\ DOMAIN fs \subseteq Named(spent.runs, call.step)
           /\ journal \in Seq(JournalRecords(spent.runs))
           /\ call.todo # <<>> => Head(call.todo) \in Items(spent.runs, call.step)
<1>1. spent.runs \in Nat /\ call.step \in Nat /\ call \in RunCalls(spent.runs, call.step)
    BY SpentTypes DEF Types, CallTypes
<1>2. RunFields(call, spent.runs, call.step)
    BY <1>1, RunCallIs
<1>3. call.todo # <<>> => Head(call.todo) \in Items(spent.runs, call.step)
    BY <1>2 DEF RunFields
<1>4. ~InPhase("idle")
    BY DEF InPhase
<1> QED
    BY <1>1, <1>2, <1>3, <1>4 DEF Types, CallTypes, FileTypes, JournalTypes

\* A run goes on.
LEMMA RunOn ==
    ASSUME Types, InPhase("run"), SameRun, NEW s \in Nat, call' \in RunCalls(spent.runs, s), s <= Len(call'.plan),
           fs' \in Dirs, DOMAIN fs' \subseteq Named(spent.runs, s), journal' \in Seq(JournalRecords(spent.runs))
    PROVE  Types'
<1>1. HistoryTypes' /\ spent'.runs = spent.runs /\ spent.runs \in Nat
    BY HistoryKept, SpentTypes DEF Types
<1>2. RunFields(call', spent.runs, s)
    BY <1>1, RunCallIs
<1>3. call'.phase = "run" /\ call'.step = s
    BY <1>2 DEF RunFields
<1>4. CallTypes'
    BY <1>1, <1>3 DEF CallTypes, InPhase, Undoing
<1>5. FileTypes'
    BY <1>1, <1>3, NamedMore DEF FileTypes
<1>6. JournalTypes'
    BY <1>1 DEF JournalTypes
<1> QED
    BY <1>1, <1>4, <1>5, <1>6 DEF Types

\* A step begins.
LEMMA BeginStepTypes ==
    ASSUME Types, BeginStep
    PROVE  Types'
<1> DEFINE n == spent.runs
           s == call.step + 1
           T == StepTemps(n, s)
           todo == Handler(call.plan[s], call.policy, fs, T)
<1>1. InPhase("run") /\ call.step < Len(call.plan)
      /\ call' = [call EXCEPT !.step = s, !.todo = todo]
    BY DEF BeginStep, StepTemps
<1>2. n \in Nat /\ call.step \in Nat /\ s \in Nat /\ RunFields(call, n, call.step) /\ call \in RunCalls(n, call.step)
      /\ fs \in Dirs /\ DOMAIN fs \subseteq Named(n, call.step) /\ journal \in Seq(JournalRecords(n))
    BY <1>1, RunItem
<1>3. call.plan[s] \in Actions /\ s <= Len(call.plan)
  <2>1. call.plan \in Seq(Actions) /\ s \in 1..Len(call.plan)
      BY <1>1, <1>2, PathAssumption DEF RunFields
  <2> QED
      BY <2>1
<1>4. DOMAIN fs \subseteq Named(n, s)
    BY <1>2, NamedMore
<1> HIDE DEF s
<1>5. FreshNames(T, fs, <<>>)
  <2>1. \A tag \in Tags : T[tag] \notin Named(n, call.step)
      BY <1>2, NamedMore DEF StepTemps, s
  <2> QED
      BY <1>2, <2>1 DEF FreshNames, Has, Unmentioned
<1>6. todo \in Seq(Items(n, s))
  <2>1. <<>> \in Seq(UndoRecords) /\ FALSE \in BOOLEAN
      OBVIOUS
  <2> QED
      BY <1>2, <1>3, <1>5, <2>1, HandlerReady
<1> HIDE DEF T, todo
<1>7. SameCall(call', call, n, s)
    BY <1>1, <1>2, <1>6, CallBegins
<1>8. SameRun
    BY DEF BeginStep, SameRun, Types, HistoryTypes, Results
<1>9. fs' = fs /\ journal' = journal
    BY DEF BeginStep
<1> QED
    BY <1>1, <1>2, <1>3, <1>4, <1>7, <1>8, <1>9, RunOn DEF SameCall

\* An undo record is appended.
LEMMA AppendUndoTypes ==
    ASSUME Types, AppendUndo
    PROVE  Types'
<1> DEFINE n == spent.runs
           s == call.step
           r == Head(call.todo).record
<1>1. /\ InPhase("run") /\ call.todo # <<>> /\ Head(call.todo).do = "log" /\ journal' = Appended(r)
      /\ call' = [[call EXCEPT !.todo = Tail(@)] EXCEPT !.undo = Append(@, r)]
      /\ fs' = fs /\ SameRun
    BY DEF AppendUndo, Doing, Done, SameRun, Types, HistoryTypes, Results
<1>2. n \in Nat /\ s \in Nat /\ call \in RunCalls(n, s) /\ s <= Len(call.plan)
      /\ fs \in Dirs /\ DOMAIN fs \subseteq Named(n, s) /\ journal \in Seq(JournalRecords(n))
      /\ Head(call.todo) \in Items(n, s)
    BY <1>1, RunItem
<1>3. r \in Undoable(n) /\ r \in JournalRecords(n)
    BY <1>1, <1>2, ItemIs, UsedMore
<1> HIDE DEF r
<1>4. SameCall(call', call, n, s)
    BY <1>1, <1>2, <1>3, CallLogs DEF NextItem
<1>5. journal' \in Seq(JournalRecords(n))
    BY <1>1, <1>2, <1>3, AppendedIs
<1> QED
    BY <1>1, <1>2, <1>4, <1>5, RunOn DEF SameCall

\* A temporary file is written.
LEMMA WriteTemporaryTypes ==
    ASSUME Types, WriteTemporary
    PROVE  Types'
<1> DEFINE n == spent.runs
           s == call.step
           i == Head(call.todo)
<1>1. /\ InPhase("run") /\ call.todo # <<>> /\ call' = [call EXCEPT !.todo = Tail(@)]
      /\ journal' = journal /\ SameRun
    BY DEF WriteTemporary, Doing, Done, SameRun, Types, HistoryTypes, Results
<1>2. n \in Nat /\ s \in Nat /\ call \in RunCalls(n, s) /\ s <= Len(call.plan)
      /\ fs \in Dirs /\ DOMAIN fs \subseteq Named(n, s) /\ journal \in Seq(JournalRecords(n)) /\ i \in Items(n, s)
    BY <1>1, RunItem
<1>3. SameCall(call', call, n, s)
    BY <1>1, <1>2, CallGoesOn DEF NextItem
<1>4. PICK c \in Contents : i.to \in Names(n, s) \cap Temps /\ fs' = With(fs, i.to, c)
  <2>1. CASE Doing("write") /\ fs' = With(fs, i.to, i.data)
      BY <1>2, <2>1, ItemIs DEF Doing
  <2>2. CASE Doing("copy") /\ Has(fs, i.from) /\ fs' = With(fs, i.to, fs[i.from])
      BY <1>2, <2>2, ItemIs, DirIs DEF Doing, Has
  <2> QED
      BY <2>1, <2>2 DEF WriteTemporary
<1>5. i.to \in Named(n, s) /\ i.to \in AllPaths
    BY <1>2, <1>4, NamedMore, NamesAre
<1>6. fs' \in Dirs /\ DOMAIN fs' \subseteq Named(n, s)
  <2>1. PICK p \in AllPaths : p = i.to
      BY <1>5
  <2>2. IsWith(With(fs, p, c), fs, p, c)
      BY <1>2, WithIs
  <2> QED
      BY <1>2, <1>4, <1>5, <2>1, <2>2 DEF IsWith
<1> QED
    BY <1>1, <1>2, <1>3, <1>6, RunOn DEF SameCall

\* A file is moved, or replaces another.
LEMMA MoveOrReplaceTypes ==
    ASSUME Types, MoveOrReplace
    PROVE  Types'
<1> DEFINE n == spent.runs
           s == call.step
           i == Head(call.todo)
<1>1. /\ InPhase("run") /\ call.todo # <<>> /\ i.do \in {"move", "replace"} /\ Has(fs, i.from)
      /\ fs' = Renamed(fs, i.from, i.to)
      /\ call' = [[call EXCEPT !.todo = Tail(@)] EXCEPT !.later = @ \o i.later]
      /\ journal' = journal /\ SameRun
    BY DEF MoveOrReplace, MayMove, Doing, Done, SameRun, Types, HistoryTypes, Results
<1>2. n \in Nat /\ s \in Nat /\ call \in RunCalls(n, s) /\ s <= Len(call.plan)
      /\ fs \in Dirs /\ DOMAIN fs \subseteq Named(n, s) /\ journal \in Seq(JournalRecords(n)) /\ i \in Items(n, s)
    BY <1>1, RunItem
<1>3. i.to \in Names(n, s) /\ i.later \in Seq(Temps)
    BY <1>1, <1>2, ItemIs DEF Names, UserPaths
<1>4. SameCall(call', call, n, s)
    BY <1>1, <1>2, <1>3, CallMoves DEF NextItem
<1>5. i.to \in Named(n, s) /\ i.to \in AllPaths
    BY <1>2, <1>3, NamedMore, NamesAre
<1>6. fs' \in Dirs /\ DOMAIN fs' \subseteq Named(n, s)
  <2>1. i.from \in DOMAIN fs
      BY <1>1 DEF Has
  <2>2. IsRenamed(fs', fs, i.from, i.to)
      BY <1>1, <1>2, <1>5, <2>1, RenamedIs
  <2> QED
      BY <1>2, <1>5, <2>2 DEF IsRenamed
<1> QED
    BY <1>1, <1>2, <1>4, <1>6, RunOn DEF SameCall

\* A call returns.
LEMMA Returned ==
    ASSUME Types, SameRun, call' = Idle, fs' \in Dirs, DOMAIN fs' \subseteq Used(spent.runs),
           journal' \in Seq(JournalRecords(spent.runs)) \cup {NoJournal}
    PROVE  Types'
<1>1. HistoryTypes' /\ spent'.runs = spent.runs
    BY HistoryKept DEF Types
<1>2. call'.phase = "idle"
    BY DEF Idle
<1> QED
    BY <1>1, <1>2 DEF Types, CallTypes, FileTypes, JournalTypes, InPhase, Undoing

\* The undo loop is entered or goes on.
LEMMA UndoOn ==
    ASSUME Types, SameRun, call' \in UndoCalls(spent.runs),
           call'.at # "check" => call'.todo # <<>> /\ Last(call'.todo).kind = "REPLACE",
           call'.at = "swap" => Has(fs', Last(call'.todo).staging),
           fs' \in Dirs, DOMAIN fs' \subseteq Used(spent.runs), journal' \in Seq(JournalRecords(spent.runs))
    PROVE  Types'
<1>1. HistoryTypes' /\ spent'.runs = spent.runs
    BY HistoryKept DEF Types
<1>2. call'.phase \in {"rollback", "recover"}
    BY DEF UndoCalls
<1>3. CallTypes'
    BY <1>1, <1>2 DEF CallTypes, InPhase, Undoing
<1>4. FileTypes' /\ JournalTypes'
    BY <1>1, <1>2 DEF FileTypes, JournalTypes, InPhase
<1> QED
    BY <1>1, <1>3, <1>4 DEF Types

\* Whatever a failed append leaves is a journal.
LEMMA FailedAppendTypes ==
    ASSUME NEW n \in Nat, journal \in Seq(JournalRecords(n)), NEW r \in JournalRecords(n), NEW j \in AfterFailedAppend(r)
    PROVE  j \in Seq(JournalRecords(n))
BY FailedAppendIs, AppendedIs

\* A step fails.
LEMMA StepFailsTypes ==
    ASSUME Types, StepFails
    PROVE  Types'
<1> DEFINE n == spent.runs
           s == call.step
           i == Head(call.todo)
<1>1. /\ InPhase("run") /\ call.todo # <<>> /\ SameRun
      /\ journal' \in IF i.do = "log" THEN AfterFailedAppend(i.record) ELSE {journal}
      /\ fs' = IF i.do = "log" /\ i.record.kind = "REMOVE" THEN Without(fs, i.record.from) ELSE fs
    BY DEF StepFails, SameRun, Types, HistoryTypes, Results
<1>2. n \in Nat /\ s \in Nat /\ call \in RunCalls(n, s) /\ s <= Len(call.plan)
      /\ fs \in Dirs /\ DOMAIN fs \subseteq Named(n, s) /\ journal \in Seq(JournalRecords(n)) /\ i \in Items(n, s)
      /\ RunFields(call, n, s)
    BY <1>1, RunItem
<1>3. journal' \in Seq(JournalRecords(n))
  <2>1. i.do = "log" => i.record \in JournalRecords(n)
      BY <1>2, ItemIs, UsedMore
  <2> QED
      BY <1>1, <1>2, <2>1, FailedAppendTypes
<1>4. fs' \in Dirs /\ DOMAIN fs' \subseteq Named(n, s)
    BY <1>1, <1>2, WithoutIs, ZenonT(30) DEF IsWithout
<1>5. CASE call.failFast
  <2>1. call' = UndoCall("rollback", call.undo, call.mode, FALSE)
      BY <1>5 DEF StepFails
  <2>2. call' \in UndoCalls(n) /\ call'.at = "check"
    <3>1. call.undo \in Seq(Undoable(n)) /\ call.mode \in {"BestEffort", "Strict"}
        BY <1>2, OptionAssumption DEF RunFields
    <3> QED
        BY <2>1, <3>1 DEF UndoCall, UndoCalls
  <2>3. DOMAIN fs' \subseteq Used(n)
      BY <1>2, <1>4, NamedMore
  <2> QED
      BY <1>1, <1>3, <1>4, <2>2, <2>3, UndoOn
<1>6. CASE ~call.failFast
  <2>1. call' = [call EXCEPT !.todo = <<>>, !.failed = TRUE]
      BY <1>6 DEF StepFails
  <2>2. SameCall(call', call, n, s)
      BY <1>2, <2>1, CallFails DEF StepOver
  <2> QED
      BY <1>1, <1>2, <1>3, <1>4, <2>2, RunOn DEF SameCall
<1> QED
    BY <1>5, <1>6

\* A run ends without COMMIT.
LEMMA EndFailedTypes ==
    ASSUME Types, EndFailed
    PROVE  Types'
<1>1. InPhase("run") /\ call' = Idle /\ fs' = fs /\ journal' = journal /\ SameRun
    BY DEF EndFailed, StepsDone, Return, SameRun, Types, HistoryTypes, Results
<1>2. fs \in Dirs /\ DOMAIN fs \subseteq Used(spent.runs) /\ journal \in Seq(JournalRecords(spent.runs))
    BY <1>1, RunItem DEF Types, FileTypes
<1> QED
    BY <1>1, <1>2, Returned

\* COMMIT is written.
LEMMA CommitTypes ==
    ASSUME Types, Commit
    PROVE  Types'
<1>1. InPhase("run") /\ fs' = fs /\ journal' = Appended(CommitRecord) /\ SameRun
      /\ call' = [phase |-> "cleanup", later |-> call.later]
    BY DEF Commit, StepsDone, SameRun, Types, HistoryTypes, Results
<1>2. spent.runs \in Nat /\ journal \in Seq(JournalRecords(spent.runs)) /\ call.later \in Seq(Temps)
    BY <1>1, RunItem DEF RunFields
<1>3. journal' \in Seq(JournalRecords(spent.runs))
    BY <1>1, <1>2, OtherRecords, AppendedIs
<1>4. HistoryTypes' /\ spent'.runs = spent.runs
    BY <1>1, HistoryKept DEF Types
<1>5. CallTypes'
    BY <1>1, <1>2 DEF CallTypes, CleanupCalls, InPhase, Undoing
<1> QED
    BY <1>1, <1>3, <1>4, <1>5 DEF Types, FileTypes, JournalTypes, InPhase

\* Or what a failed append left of it.
LEMMA CommitFailsTypes ==
    ASSUME Types, CommitFails
    PROVE  Types'
<1>1. /\ InPhase("run") /\ call' = Idle /\ fs' = fs /\ SameRun /\ journal' \in AfterFailedAppend(CommitRecord)
    BY DEF CommitFails, StepsDone, Return, SameRun, Types, HistoryTypes, Results
<1>2. /\ spent.runs \in Nat /\ fs \in Dirs /\ DOMAIN fs \subseteq Used(spent.runs)
      /\ journal \in Seq(JournalRecords(spent.runs))
    BY <1>1, RunItem DEF Types, FileTypes
<1>3. journal' \in Seq(JournalRecords(spent.runs))
    BY <1>1, <1>2, OtherRecords, FailedAppendTypes
<1> QED
    BY <1>1, <1>2, <1>3, Returned

\* What the batch set aside is removed.
LEMMA CleanupTypes ==
    ASSUME Types, Cleanup
    PROVE  Types'
<1>1. /\ InPhase("cleanup") /\ call.later # <<>> /\ call' = [call EXCEPT !.later = Tail(@)] /\ journal' = journal
      /\ SameRun /\ fs' \in {fs, Without(fs, Head(call.later))}
    BY DEF Cleanup, SameRun, Types, HistoryTypes, Results
<1>2. HistoryTypes' /\ spent'.runs = spent.runs
    BY <1>1, HistoryKept DEF Types
<1>3. call \in CleanupCalls /\ call.later \in Seq(Temps) /\ Tail(call.later) \in Seq(Temps)
    BY <1>1, HeadTailProperties DEF Types, CallTypes, CleanupCalls
<1>4. call' \in CleanupCalls /\ call'.phase = "cleanup"
    BY <1>1, <1>3 DEF CleanupCalls
<1>5. fs' \in Dirs /\ DOMAIN fs' \subseteq Used(spent.runs)
  <2>1. fs \in Dirs /\ DOMAIN fs \subseteq Used(spent.runs)
      BY DEF Types, FileTypes
  <2>2. \A p : IsWithout(Without(fs, p), fs, p)
      BY <2>1, WithoutIs
  <2> QED
      BY <1>1, <2>1, <2>2 DEF IsWithout
<1>6. CallTypes' /\ FileTypes'
    BY <1>2, <1>4, <1>5 DEF CallTypes, FileTypes, InPhase, Undoing
<1>7. JournalTypes'
    BY <1>1, <1>2 DEF Types, JournalTypes, InPhase
<1> QED
    BY <1>2, <1>6, <1>7 DEF Types

\* A committed batch ends.
LEMMA EndCommittedTypes ==
    ASSUME Types, EndCommitted
    PROVE  Types'
<1>1. /\ call' = Idle /\ fs' = fs /\ SameRun /\ journal' \in {journal, NoJournal}
    BY DEF EndCommitted, Return, SameRun, Types, HistoryTypes, Results
<1> QED
    BY <1>1, Returned DEF Types, FileTypes, JournalTypes

\* What is undone next.
LEMMA UndoItem ==
    ASSUME Types, Undoing
    PROVE  /\ spent.runs \in Nat /\ call \in UndoCalls(spent.runs) /\ call.todo \in Seq(Undoable(spent.runs))
           /\ fs \in Dirs /\ DOMAIN fs \subseteq Used(spent.runs) /\ journal \in Seq(JournalRecords(spent.runs))
           /\ call.todo # <<>> => /\ Current \in Undoable(spent.runs) /\ Current \in UndoRecords
                                  /\ PathsOf(Current) \subseteq Used(spent.runs)
                                  /\ Front(call.todo) \in Seq(Undoable(spent.runs))
<1>1. spent.runs \in Nat /\ call \in UndoCalls(spent.runs) /\ call.todo \in Seq(Undoable(spent.runs))
    BY SpentTypes DEF Types, CallTypes, UndoCalls
<1>2. ~InPhase("idle") /\ ~InPhase("run")
    BY DEF InPhase, Undoing
<1>3. call.todo # <<>> => Current \in Undoable(spent.runs) /\ Front(call.todo) \in Seq(Undoable(spent.runs))
    BY <1>1, FrontAndLast DEF Current
<1>4. \A r \in Undoable(spent.runs) : r \in UndoRecords /\ PathsOf(r) \subseteq Used(spent.runs)
    BY DEF Undoable
<1> QED
    BY <1>1, <1>2, <1>3, <1>4 DEF Types, FileTypes, JournalTypes

\* The records an undo loop has still to undo.
LEMMA TodoIs ==
    ASSUME NEW n \in Nat, NEW c \in UndoCalls(n)
    PROVE  c.todo \in Seq(Undoable(n)) /\ c.todo \in Seq(UndoRecords)
<1>1. c.todo \in Seq(Undoable(n))
    BY DEF UndoCalls
<1>2. Undoable(n) \subseteq UndoRecords
    BY DEF Undoable
<1>3. Seq(Undoable(n)) \subseteq Seq(UndoRecords)
    BY <1>2, SeqMonotonic
<1> QED
    BY <1>1, <1>3

\* The last one, which is undone next.
LEMMA LastItem ==
    ASSUME NEW n \in Nat, NEW c \in UndoCalls(n), c.todo # <<>>
    PROVE  /\ DOMAIN c.todo = 1..Len(c.todo) /\ Len(c.todo) \in DOMAIN c.todo /\ c.todo[Len(c.todo)] = Last(c.todo)
           /\ Last(c.todo) \in UndoRecords /\ Front(c.todo) \in Seq(UndoRecords)
<1>1. PICK R \in Seq(UndoRecords) : R = c.todo
    BY TodoIs
<1>2. Len(R) \in Nat \ {0} /\ Last(R) = R[Len(R)] /\ Front(R) \in Seq(UndoRecords)
    BY <1>1, FrontAndLast
<1>3. DOMAIN R = 1..Len(R)
    OBVIOUS
<1>4. R[Len(R)] \in UndoRecords
    BY <1>2, <1>3
<1> QED
    BY <1>1, <1>2, <1>3, <1>4

\* d is the undo c after one record more; at the next stage of the same record; with b blocked.
SameUndo(d, c, n) == d \in UndoCalls(n) /\ d.phase = c.phase /\ d.mode = c.mode /\ d.again = c.again
NextRecord(d, c, n) ==
    SameUndo(d, c, n) /\ d.todo = Front(c.todo) /\ d.at = "check" /\ d.blocked = c.blocked /\ d.ok = c.ok
NextStage(d, c, n, at) ==
    SameUndo(d, c, n) /\ d.todo = c.todo /\ d.at = at /\ d.blocked = c.blocked /\ d.ok = c.ok
GivesUp(d, c, n, b) ==
    SameUndo(d, c, n) /\ d.todo = c.todo /\ d.at = c.at /\ d.blocked = c.blocked \cup b /\ d.ok = FALSE

\* The undo loop is over one record.
LEMMA UndidIs ==
    ASSUME NEW n \in Nat, NEW c \in UndoCalls(n), c.todo # <<>>,
           NEW d, d = [c EXCEPT !.todo = Front(@), !.at = "check"]
    PROVE  NextRecord(d, c, n)
<1>1. Front(c.todo) \in Seq(Undoable(n))
    BY FrontAndLast DEF UndoCalls
<1> QED
    BY <1>1 DEF UndoCalls, SameUndo, NextRecord

\* It goes on with the same record.
LEMMA AtIs ==
    ASSUME NEW n \in Nat, NEW c \in UndoCalls(n), NEW at \in {"check", "swap", "mark"}, NEW d, d = [c EXCEPT !.at = at]
    PROVE  NextStage(d, c, n, at)
BY DEF UndoCalls, SameUndo, NextStage

\* It gives a record up.
LEMMA GivenUp ==
    ASSUME NEW n \in Nat, NEW c \in UndoCalls(n), NEW b, b \subseteq AllPaths,
           NEW d, d = [c EXCEPT !.blocked = @ \cup b, !.ok = FALSE]
    PROVE  GivesUp(d, c, n, b)
<1>1. c.blocked \cup b \in SUBSET AllPaths /\ FALSE \in BOOLEAN
    BY DEF UndoCalls
<1> QED
    BY <1>1 DEF UndoCalls, SameUndo, GivesUp

\* It gives a record up and is over it.
PassesOver(d, c, n, b) ==
    SameUndo(d, c, n) /\ d.todo = Front(c.todo) /\ d.at = "check" /\ d.blocked = c.blocked \cup b /\ d.ok = FALSE

\* Best effort goes on with the record before the one it gives up.
LEMMA PassedOver ==
    ASSUME NEW n \in Nat, NEW c \in UndoCalls(n), c.todo # <<>>, NEW b, b \subseteq AllPaths,
           NEW d, d = [[c EXCEPT !.todo = Front(@), !.at = "check"] EXCEPT !.blocked = @ \cup b, !.ok = FALSE]
    PROVE  PassesOver(d, c, n, b)
<1>1. PICK e : e = [c EXCEPT !.todo = Front(@), !.at = "check"]
    OBVIOUS
<1>2. NextRecord(e, c, n)
    BY <1>1, UndidIs, Zenon
<1>3. e \in UndoCalls(n)
    BY <1>2 DEF NextRecord, SameUndo
<1>4. d = [e EXCEPT !.blocked = @ \cup b, !.ok = FALSE]
    BY <1>1
<1>5. GivesUp(d, e, n, b)
    BY <1>3, <1>4, GivenUp, Zenon
<1> QED
    BY <1>2, <1>5 DEF NextRecord, GivesUp, SameUndo, PassesOver

\* Undoing a REMOVE or MOVE record.
LEMMA UndoneTypes ==
    ASSUME NEW n \in Nat, NEW u \in Undoable(n), u.kind \in {"REMOVE", "MOVE"}, NEW f \in Dirs, DOMAIN f \subseteq Used(n)
    PROVE  Undone(u, f) \in Dirs /\ DOMAIN Undone(u, f) \subseteq Used(n)
<1>1. u \in UndoRecords /\ PathsOf(u) \subseteq Used(n) /\ Used(n) \subseteq AllPaths
    BY UsedMore DEF Undoable
<1>2. CASE u.kind = "REMOVE"
  <2>1. Undone(u, f) = Without(f, u.from)
      BY <1>2 DEF Undone
  <2>2. IsWithout(Without(f, u.from), f, u.from)
      BY WithoutIs
  <2> QED
      BY <2>1, <2>2 DEF IsWithout
<1>3. CASE u.kind = "MOVE"
  <2>1. Undone(u, f) = IF Has(f, u.from) THEN Renamed(f, u.from, u.to) ELSE f
      BY <1>3 DEF Undone
  <2>2. u.to \in Used(n) /\ u.to \in AllPaths
      BY <1>1, <1>3, PathsOfRecords, KindOfRecord
  <2>3. ASSUME Has(f, u.from) PROVE IsRenamed(Renamed(f, u.from, u.to), f, u.from, u.to)
      BY <2>2, <2>3, RenamedIs DEF Has
  <2> QED
      BY <2>1, <2>2, <2>3 DEF IsRenamed
<1> QED
    BY <1>2, <1>3

\* One record is undone.
LEMMA UndoRemoveOrMoveTypes ==
    ASSUME Types, UndoRemoveOrMove
    PROVE  Types'
<1> DEFINE n == spent.runs
<1>1. /\ Undoing /\ call.todo # <<>> /\ Current.kind \in {"REMOVE", "MOVE"} /\ fs' = Undone(Current, fs)
      /\ call' = [call EXCEPT !.todo = Front(@), !.at = "check"] /\ journal' = journal /\ SameRun
    BY DEF UndoRemoveOrMove, At, Undid, SameRun, Types, HistoryTypes, Results
<1>2. /\ n \in Nat /\ call \in UndoCalls(n) /\ fs \in Dirs /\ DOMAIN fs \subseteq Used(n)
      /\ journal \in Seq(JournalRecords(n)) /\ Current \in Undoable(n)
    BY <1>1, UndoItem
<1>3. call' \in UndoCalls(n) /\ call'.at = "check"
    BY <1>1, <1>2, UndidIs DEF NextRecord, SameUndo
<1>4. fs' \in Dirs /\ DOMAIN fs' \subseteq Used(n)
    BY <1>1, <1>2, UndoneTypes
<1> QED
    BY <1>1, <1>2, <1>3, <1>4, UndoOn

\* A replaced file has been restored, or its old contents are staged.
LEMMA UndoReplaceTypes ==
    ASSUME Types, UndoReplace
    PROVE  Types'
<1> DEFINE n == spent.runs
           u == Current
<1>1. /\ Undoing /\ call.todo # <<>> /\ u.kind = "REPLACE" /\ journal' = journal /\ SameRun
    BY DEF UndoReplace, At, SameRun, Types, HistoryTypes, Results
<1>2. /\ n \in Nat /\ call \in UndoCalls(n) /\ fs \in Dirs /\ DOMAIN fs \subseteq Used(n)
      /\ journal \in Seq(JournalRecords(n)) /\ u \in UndoRecords /\ PathsOf(u) \subseteq Used(n)
    BY <1>1, UndoItem
<1>3. CASE fs' = fs /\ call' = Undid
  <2>1. call' \in UndoCalls(n) /\ call'.at = "check"
      BY <1>1, <1>2, <1>3, UndidIs DEF Undid, NextRecord, SameUndo
  <2> QED
      BY <1>1, <1>2, <1>3, <2>1, UndoOn
<1>4. CASE fs' = fs /\ call' = [call EXCEPT !.at = "mark"]
  <2>1. call' \in UndoCalls(n) /\ call'.at = "mark" /\ call'.todo = call.todo
      BY <1>1, <1>2, <1>4, AtIs DEF NextStage, SameUndo
  <2> QED
      BY <1>1, <1>2, <1>4, <2>1, UndoOn DEF Current
<1>5. CASE /\ Changed(u, fs) /\ fs' = With(fs, u.staging, fs[u.from])
           /\ call' = [call EXCEPT !.at = "swap"]
  <2>1. call' \in UndoCalls(n) /\ call'.at = "swap" /\ call'.todo = call.todo
      BY <1>1, <1>2, <1>5, AtIs DEF NextStage, SameUndo
  <2>2. u.staging \in Used(n) /\ u.staging \in AllPaths
      BY <1>1, <1>2, PathsOfRecords, KindOfRecord, UsedMore
  <2>3. fs[u.from] \in Contents
      BY <1>2, <1>5, DirIs DEF Changed
  <2>4. IsWith(fs', fs, u.staging, fs[u.from])
      BY <1>2, <1>5, <2>2, <2>3, WithIs
  <2>5. fs' \in Dirs /\ DOMAIN fs' \subseteq Used(n) /\ Has(fs', u.staging)
      BY <1>2, <2>2, <2>4 DEF IsWith, Has
  <2> QED
      BY <1>1, <1>2, <2>1, <2>5, UndoOn DEF Current
<1> QED
    BY <1>3, <1>4, <1>5 DEF UndoReplace

\* The staged contents take the place of the new ones.
LEMMA SwapStagingTypes ==
    ASSUME Types, SwapStaging
    PROVE  Types'
<1> DEFINE n == spent.runs
           u == Current
<1>1. /\ Undoing /\ call.todo # <<>> /\ u.kind = "REPLACE" /\ call.at = "swap" /\ journal' = journal /\ SameRun
      /\ fs' = Renamed(fs, u.staging, u.to) /\ call' = [call EXCEPT !.at = "mark"]
    BY DEF SwapStaging, At, SameRun, Types, HistoryTypes, Results
<1>2. /\ n \in Nat /\ call \in UndoCalls(n) /\ fs \in Dirs /\ DOMAIN fs \subseteq Used(n)
      /\ journal \in Seq(JournalRecords(n)) /\ u \in UndoRecords /\ PathsOf(u) \subseteq Used(n)
    BY <1>1, UndoItem
<1>3. call' \in UndoCalls(n) /\ call'.at = "mark" /\ call'.todo = call.todo
    BY <1>1, <1>2, AtIs DEF NextStage, SameUndo
<1>4. u.staging \in DOMAIN fs
    BY <1>1 DEF Types, CallTypes, Current, Has
<1>5. u.to \in Used(n) /\ u.to \in AllPaths
    BY <1>1, <1>2, PathsOfRecords, KindOfRecord, UsedMore
<1>6. IsRenamed(fs', fs, u.staging, u.to)
    BY <1>1, <1>2, <1>4, <1>5, RenamedIs
<1>7. fs' \in Dirs /\ DOMAIN fs' \subseteq Used(n)
    BY <1>2, <1>5, <1>6 DEF IsRenamed
<1> QED
    BY <1>1, <1>2, <1>3, <1>7, UndoOn DEF Current

\* The restored file is marked.
LEMMA MarkRestoredTypes ==
    ASSUME Types, MarkRestored
    PROVE  Types'
<1> DEFINE n == spent.runs
<1>1. /\ Undoing /\ call.todo # <<>> /\ Current.kind = "REPLACE" /\ SameRun /\ fs' = fs
      /\ journal' = Appended(RestoredRecord(Current)) /\ call' = [call EXCEPT !.todo = Front(@), !.at = "check"]
    BY DEF MarkRestored, At, Undid, SameRun, Types, HistoryTypes, Results
<1>2. /\ n \in Nat /\ call \in UndoCalls(n) /\ fs \in Dirs /\ DOMAIN fs \subseteq Used(n)
      /\ journal \in Seq(JournalRecords(n)) /\ Current \in Undoable(n)
    BY <1>1, UndoItem
<1>3. call' \in UndoCalls(n) /\ call'.at = "check"
    BY <1>1, <1>2, UndidIs DEF NextRecord, SameUndo
<1>4. journal' \in Seq(JournalRecords(n))
    BY <1>1, <1>2, OtherRecords, AppendedIs
<1> QED
    BY <1>1, <1>2, <1>3, <1>4, UndoOn

\* A record is not undone.
LEMMA UndoFailsTypes ==
    ASSUME Types, UndoFails
    PROVE  Types'
<1> DEFINE n == spent.runs
<1>1. /\ Undoing /\ call.todo # <<>> /\ fs' = fs
      /\ journal' = journal \/ (call.at = "mark" /\ journal' \in AfterFailedAppend(RestoredRecord(Current)))
    BY DEF UndoFails
<1>2. SameRun
    BY DEF UndoFails, Return, SameRun, Types, HistoryTypes, Results
<1>3. /\ n \in Nat /\ call \in UndoCalls(n) /\ fs \in Dirs /\ DOMAIN fs \subseteq Used(n)
      /\ journal \in Seq(JournalRecords(n)) /\ Current \in Undoable(n) /\ PathsOf(Current) \subseteq Used(n)
    BY <1>1, UndoItem
<1>4. journal' \in Seq(JournalRecords(n))
  <2>1. CASE journal' = journal
      BY <1>3, <2>1
  <2>2. CASE call.at = "mark" /\ journal' \in AfterFailedAppend(RestoredRecord(Current))
    <3>1. Current.kind = "REPLACE"
        BY <1>1, <2>2 DEF Types, CallTypes, Current
    <3>2. RestoredRecord(Current) \in JournalRecords(n)
        BY <1>3, <3>1, OtherRecords
    <3> QED
        BY <1>3, <2>2, <3>2, FailedAppendTypes
  <2> QED
      BY <1>1, <2>1, <2>2
<1>5. CASE call.mode = "BestEffort"
  <2>1. call' = [[call EXCEPT !.todo = Front(@), !.at = "check"]
                     EXCEPT !.blocked = @ \cup PathsOf(Current), !.ok = FALSE]
      BY <1>5 DEF UndoFails, Undid
  <2>2. PICK d, b : d = call' /\ b = PathsOf(Current)
      OBVIOUS
  <2>3. d = [[call EXCEPT !.todo = Front(@), !.at = "check"] EXCEPT !.blocked = @ \cup b, !.ok = FALSE]
        /\ b \subseteq AllPaths
      BY <1>3, <2>1, <2>2, UsedMore
  <2>4. PassesOver(d, call, n, b)
      BY <1>1, <1>3, <2>3, PassedOver, Zenon
  <2> QED
      BY <1>1, <1>2, <1>3, <1>4, <2>2, <2>4, UndoOn DEF PassesOver, SameUndo
<1>6. CASE call.mode # "BestEffort"
  <2>1. call' = Idle
      BY <1>6 DEF UndoFails, Return
  <2> QED
      BY <1>1, <1>2, <1>3, <1>4, <2>1, Returned
<1> QED
    BY <1>5, <1>6

\* The undo loop is over.
LEMMA EndUndoTypes ==
    ASSUME Types, EndUndo
    PROVE  Types'
<1>1. Undoing /\ call' = Idle /\ fs' = fs /\ journal' \in {journal, NoJournal} /\ SameRun
    BY DEF EndUndo, Return, SameRun, Types, HistoryTypes, Results
<1> QED
    BY <1>1, Returned DEF Types, FileTypes, JournalTypes

\* Recovery begins, for a journal that can be read and does not end in COMMIT.
LEMMA RecoverTypes ==
    ASSUME Types, RecoverFromJournal
    PROVE  Types'
<1> DEFINE n == spent.runs
<1>1. /\ InPhase("idle") /\ Unfinished /\ call' = UndoCall("recover", Undos, "Strict", undone) /\ fs' = fs
      /\ journal' = journal /\ SameRun
    BY DEF RecoverFromJournal, SameRun, Types, HistoryTypes, Results
<1>2. n \in Nat /\ journal \in Seq(JournalRecords(n)) /\ fs \in Dirs /\ DOMAIN fs \subseteq Used(n) /\ undone \in BOOLEAN
    BY <1>1, SpentTypes DEF Types, FileTypes, JournalTypes, HistoryTypes, Unfinished, Missing
<1>3. Undos \in Seq(Undoable(n))
    BY <1>2, UndosAre
<1>4. call' \in UndoCalls(n) /\ call'.at = "check"
  <2>1. PICK R \in Seq(Undoable(n)) : R = Undos
      BY <1>3
  <2> QED
      BY <1>1, <1>2, <2>1 DEF UndoCall, UndoCalls
<1> QED
    BY <1>1, <1>2, <1>4, UndoOn

\* The process stops.
LEMMA CrashTypes ==
    ASSUME Types, Crash
    PROVE  Types'
<1>1. call' = Idle /\ fs' = fs /\ journal' = journal /\ SameRun
    BY DEF Crash, Return, SameRun, Types, HistoryTypes, Results
<1> QED
    BY <1>1, Returned DEF Types, FileTypes, JournalTypes

\* Another program creates a file.
LEMMA AppearsTypes ==
    ASSUME Types, NEW f \in Files, Appears(f)
    PROVE  Types'
<1> DEFINE n == spent.runs
<1>1. fs' = With(fs, f, Foreign) /\ call' = call /\ journal' = journal /\ SameRun
    BY DEF Appears, SameRun, Types, HistoryTypes, Results
<1>2. HistoryTypes' /\ spent'.runs = n /\ n \in Nat
    BY <1>1, HistoryKept, SpentTypes DEF Types
<1>3. f \in UserPaths /\ f \in AllPaths /\ Foreign \in Contents
    BY DEF UserPaths, AllPaths, Paths, Contents
<1>4. IsWith(fs', fs, f, Foreign)
    BY <1>1, <1>3, WithIs DEF Types, FileTypes
<1>5. f \in Used(n) /\ (InPhase("run") => f \in Named(n, call.step))
  <2>1. InPhase("run") => call.step \in Nat
      BY DEF Types, CallTypes
  <2> QED
      BY <1>2, <1>3, <2>1, UsedMore, NamedMore
<1>6. FileTypes'
    BY <1>1, <1>2, <1>4, <1>5 DEF Types, FileTypes, IsWith, InPhase
<1>7. CallTypes'
  <2>1. \A p : Has(fs, p) => Has(fs', p)
      BY <1>4 DEF Has, IsWith
  <2> QED
      BY <1>1, <1>2, <2>1 DEF Types, CallTypes, InPhase, Undoing
<1>8. JournalTypes'
    BY <1>1, <1>2 DEF Types, JournalTypes, InPhase
<1> QED
    BY <1>2, <1>6, <1>7, <1>8 DEF Types

\* Every step keeps the types.
LEMMA NextTypes ==
    ASSUME Types, [Next]_vars
    PROVE  Types'
<1>1. CASE UNCHANGED vars
  <2>1. /\ fs' = fs /\ journal' = journal /\ call' = call /\ planned' = planned /\ original' = original
        /\ undone' = undone /\ result' = result /\ spent' = spent
      BY <1>1 DEF vars
  <2> QED
      BY <2>1 DEF Types, CallTypes, FileTypes, JournalTypes, HistoryTypes, InPhase, Undoing
<1>2. CASE Forward
    BY <1>2, BeginTypes, BeginFailsTypes, BeginStepTypes, AppendUndoTypes, WriteTemporaryTypes, MoveOrReplaceTypes,
       StepFailsTypes, EndFailedTypes, CommitTypes, CommitFailsTypes, CleanupTypes, EndCommittedTypes DEF Forward
<1>3. CASE Backward
    BY <1>3, RecoverTypes, UndoRemoveOrMoveTypes, UndoReplaceTypes, SwapStagingTypes, MarkRestoredTypes,
       UndoFailsTypes, EndUndoTypes DEF Backward
<1>4. CASE Crash
    BY <1>4, CrashTypes
<1>5. CASE \E f \in Files : Appears(f)
    BY <1>5, AppearsTypes
<1> QED
    BY <1>1, <1>2, <1>3, <1>4, <1>5 DEF Next

\* The variables keep their types, whatever the plans, the options and the bounds are (Run, RecoverFromJournal).
THEOREM TypeCorrect == Spec => []TypeOK
<1>1. Init => Types
    BY InitTypes
<1>2. Types /\ [Next]_vars => Types'
    BY NextTypes
<1>3. Types => TypeOK
  <2> SUFFICES ASSUME Types PROVE TypeOK
      OBVIOUS
  <2>1. DOMAIN fs \subseteq Paths \cup CutPaths /\ \A p \in DOMAIN fs : fs[p] \in Contents
      BY DirIs DEF Types, FileTypes, AllPaths
  <2>2. Missing \/ \A i \in DOMAIN journal : PathsOf(journal[i]) \subseteq Paths \cup CutPaths
    <3>1. spent.runs \in Nat /\ Used(spent.runs) \subseteq Paths \cup CutPaths
        BY SpentTypes, UsedMore DEF Types, AllPaths
    <3>2. \A r \in JournalRecords(spent.runs) : PathsOf(r) \subseteq Used(spent.runs)
        BY DEF JournalRecords
    <3>3. journal # NoJournal => \A i \in DOMAIN journal : journal[i] \in JournalRecords(spent.runs)
        BY DEF Types, JournalTypes
    <3> QED
        BY <3>1, <3>2, <3>3 DEF Missing
  <2>3. (Undoing /\ call.at # "check") => (call.todo # <<>> /\ Current.kind = "REPLACE")
      BY DEF Types, CallTypes, Current
  <2>4. original = UserFiles(original)
    <3>1. original \in Dirs /\ DOMAIN original \subseteq UserPaths
        BY DEF Types, HistoryTypes
    <3>2. UserFiles(original) \in Dirs /\ DOMAIN UserFiles(original) = DOMAIN original
          /\ \A p \in DOMAIN original : UserFiles(original)[p] = original[p]
        BY <3>1, UserFilesAre
    <3> QED
        BY <3>1, <3>2, DirEqual
  <2> QED
      BY <2>1, <2>2, <2>3, <2>4 DEF TypeOK, Types, CallTypes, HistoryTypes
<1> QED
    BY <1>1, <1>2, <1>3, PTL DEF Spec

------------------------------------------------------------------------------
(* What is led back from holds everything that is led back to. *)

\* Every contents of o is somewhere in f.
Kept(f, o) == \A p \in DOMAIN o : Holds(f, o[p])

\* The missing journal is no journal.
LEMMA NoRecords == NoJournal \notin Seq(Records)
<1>1. AnyPath = Paths \cup CutPaths \cup {NoPath}
    BY DEF AnyPath, AllPaths
<1> QED
    BY <1>1, JournalAssumption DEF Records

\* Undoing a record loses nothing that was there before the undo but what it removes: what is there after it was
\* there before.
LEMMA StepKeeps ==
    ASSUME NEW u \in UndoRecords, NEW g \in Dirs, NEW h \in Dirs, StepsBack(u, g, h), NEW c, Holds(g, c)
    PROVE  Holds(h, c)
<1>1. PICK q \in DOMAIN g : g[q] = c
    BY DEF Holds
<1>2. \/ Has(h, q) /\ h[q] = c
      \/ Has(h, u.from) /\ h[u.from] = c
    BY <1>1, StepCarries
<1> QED
    BY <1>2 DEF Holds, Has

\* The first directory of a trail is kept in the last one.
LEMMA TrailKeeps ==
    ASSUME NEW R \in Seq(UndoRecords), NEW h, Trail(h, R), NEW c, Holds(h[0], c)
    PROVE  Holds(h[Len(R)], c)
<1> DEFINE N == Len(R)
           T == {i \in 0..N : ~Holds(h[i], c)}
<1>1. N \in Nat /\ h \in [0..N -> Dirs] /\ \A i \in 1..N : R[i] \in UndoRecords /\ StepsBack(R[i], h[i - 1], h[i])
    BY DEF Trail
<1>2. SUFFICES ASSUME ~Holds(h[N], c) PROVE FALSE
    OBVIOUS
<1>3. N \in T /\ T \subseteq Nat
    BY <1>1, <1>2
<1>4. PICK i \in T : \A j \in T : ~(<<j, i>> \in OpToRel(<, Nat))
    BY <1>3, NatLessThanWellFounded, WFMin
<1>5. \A j \in T : ~(j < i)
    BY <1>3, <1>4 DEF OpToRel
<1>6. i \in 0..N /\ ~Holds(h[i], c) /\ i # 0
    OBVIOUS
<1>7. i \in 1..N /\ i - 1 \in 0..N /\ i - 1 < i
    BY <1>1, <1>6
<1>8. Holds(h[i - 1], c)
    BY <1>5, <1>7
<1>9. R[i] \in UndoRecords /\ h[i - 1] \in Dirs /\ h[i] \in Dirs /\ StepsBack(R[i], h[i - 1], h[i])
    BY <1>1, <1>6, <1>7
<1> QED
    BY <1>6, <1>8, <1>9, StepKeeps

\* What is led back from holds the files that are led back to.
LEMMA BackKeeps ==
    ASSUME NEW R \in Seq(UndoRecords), NEW f, NEW o, NEW n, NEW J, NEW w, LeadsBack(f, R, o, n, J, w)
    PROVE  Kept(f, o)
<1>1. PICK h : Trail(h, R) /\ h[Len(R)] = f /\ Base(h[0], o, n, J)
    BY DEF LeadsBack
<1>2. ASSUME NEW p \in DOMAIN o PROVE Holds(h[0], o[p])
    BY <1>1 DEF Base, Holds
<1> QED
    BY <1>1, <1>2, TrailKeeps DEF Kept

\* When nothing is left to undo, the files are restored.
LEMMA BackAtLast ==
    ASSUME NEW f, NEW o, NEW n, NEW J, NEW w, LeadsBack(f, <<>>, o, n, J, w)
    PROVE  Base(f, o, n, J)
BY DEF LeadsBack

------------------------------------------------------------------------------
(* The undo loop, with paths it has given up. *)

\* f is X but for the paths E; there, f has every contents that X has there.
Meets(f, X, E) ==
    /\ \A p \in AllPaths \ E : (Has(f, p) <=> Has(X, p)) /\ (Has(X, p) => f[p] = X[p])
    /\ \A q \in DOMAIN X \cap E : \E p \in DOMAIN f \cap E : f[p] = X[q]

\* f and g are the same at the paths E.
Alike(f, g, E) == \A p \in E : (Has(g, p) <=> Has(f, p)) /\ (Has(f, p) => g[p] = f[p])

\* A directory meets itself, and no other where nothing is given up.
LEMMA MeetsItself ==
    ASSUME NEW f \in Dirs
    PROVE  /\ \A E : Meets(f, f, E)
           /\ \A X \in Dirs : Meets(f, X, {}) => f = X
<1>1. \A E : Meets(f, f, E)
    BY DEF Meets
<1>2. ASSUME NEW X \in Dirs, Meets(f, X, {}) PROVE f = X
  <2>1. \A p \in AllPaths : (Has(f, p) <=> Has(X, p)) /\ (Has(X, p) => f[p] = X[p])
      BY <1>2 DEF Meets
  <2>2. DOMAIN f \subseteq AllPaths /\ DOMAIN X \subseteq AllPaths
      BY DirIs
  <2>3. DOMAIN f = DOMAIN X /\ \A p \in DOMAIN f : f[p] = X[p]
      BY <2>1, <2>2 DEF Has
  <2> QED
      BY <2>3, DirEqual
<1> QED
    BY <1>1, <1>2

\* What X holds, f holds.
LEMMA MeetsKept ==
    ASSUME NEW f \in Dirs, NEW X \in Dirs, NEW E, Meets(f, X, E), NEW o, Kept(X, o)
    PROVE  Kept(f, o)
<1>1. ASSUME NEW q \in DOMAIN X PROVE Holds(f, X[q])
  <2>1. q \in AllPaths
      BY DirIs
  <2> QED
      BY <2>1 DEF Meets, Holds, Has
<1>2. ASSUME NEW p \in DOMAIN o PROVE Holds(f, o[p])
  <2>1. PICK q \in DOMAIN X : X[q] = o[p]
      BY DEF Kept, Holds
  <2> QED
      BY <1>1, <2>1
<1> QED
    BY <1>2 DEF Kept

\* The targets of X are f's.
LEMMA MeetsTargets ==
    ASSUME NEW f, NEW x, NEW X, NEW E, Meets(x, X, E), Alike(f, x, E), NEW o, Targets(f, o), Targets(X, o)
    PROVE  Targets(x, o)
<1>1. Files \subseteq AllPaths
    BY DEF AllPaths, Paths, UserPaths
<1>2. ASSUME NEW p \in DOMAIN o \cap Files PROVE Has(x, p) /\ x[p] \in {o[p]} \cup Payloads
  <2>1. CASE p \in E
      BY <2>1 DEF Alike, Targets
  <2>2. CASE p \notin E
      BY <1>1, <2>2 DEF Meets, Targets
  <2> QED
      BY <2>1, <2>2
<1> QED
    BY <1>2 DEF Targets

\* A record is given up.
LEMMA MeetsLess ==
    ASSUME NEW u \in UndoRecords, NEW g \in Dirs, NEW X \in Dirs, StepsBack(u, g, X), NEW f, NEW E, Meets(f, X, E)
    PROVE  Meets(f, g, E \cup PathsOf(u))
<1> DEFINE F == E \cup PathsOf(u)
<1>1. Elsewhere(u, g, X)
    BY StepElsewhere
<1>2. ASSUME NEW p \in AllPaths \ F PROVE (Has(f, p) <=> Has(g, p)) /\ (Has(g, p) => f[p] = g[p])
    BY <1>1 DEF Elsewhere, Meets
<1>3. ASSUME NEW q \in DOMAIN X, q \in F PROVE \E p \in DOMAIN f : p \in F /\ f[p] = X[q]
  <2>1. q \in AllPaths
      BY DirIs
  <2>2. CASE q \in E
      BY <2>2 DEF Meets
  <2>3. CASE q \notin E
      BY <1>3, <2>1, <2>3 DEF Meets, Has
  <2> QED
      BY <2>2, <2>3
<1>4. ASSUME NEW q \in DOMAIN g, q \in F PROVE \E p \in DOMAIN f : p \in F /\ f[p] = g[q]
  <2>1. \/ Has(X, q) /\ X[q] = g[q]
        \/ u.from \in PathsOf(u) /\ Has(X, u.from) /\ X[u.from] = g[q]
      BY StepCarries
  <2>2. PICK y \in DOMAIN X : y \in F /\ X[y] = g[q]
      BY <1>4, <2>1 DEF Has
  <2> QED
      BY <1>3, <2>2
<1> QED
    BY <1>2, <1>4 DEF Meets

\* Giving up more paths.
LEMMA MeetsMore ==
    ASSUME NEW f \in Dirs, NEW X \in Dirs, NEW E, Meets(f, X, E), NEW b
    PROVE  Meets(f, X, E \cup b)
<1>1. ASSUME NEW q \in DOMAIN X, q \in E \cup b PROVE \E p \in DOMAIN f : p \in E \cup b /\ f[p] = X[q]
  <2>1. q \in AllPaths
      BY DirIs
  <2>2. CASE q \in E
      BY <2>2 DEF Meets
  <2>3. CASE q \notin E
      BY <1>1, <2>1, <2>3 DEF Meets, Has
  <2> QED
      BY <2>2, <2>3
<1> QED
    BY <1>1 DEF Meets

\* A REMOVE or MOVE record is undone.
LEMMA UndoneMeets ==
    ASSUME NEW u \in UndoRecords, u.kind \in {"REMOVE", "MOVE"}, NEW g \in Dirs, NEW X \in Dirs, StepsBack(u, g, X),
           NEW f \in Dirs, NEW E, PathsOf(u) \cap E = {}, Meets(f, X, E)
    PROVE  Undone(u, f) \in Dirs /\ Meets(Undone(u, f), g, E) /\ Alike(f, Undone(u, f), E)
<1>0. StepFacts(u, g, X)
    BY StepIs
<1>1. CASE u.kind = "REMOVE"
  <2>1. u.from \notin E /\ IsWithout(g, X, u.from)
      BY <1>0, <1>1 DEF StepFacts, StepsBack, Removes, MovesBack, WasNotMoved, PutsBack
  <2>2. Undone(u, f) = Without(f, u.from)
      BY <1>1 DEF Undone
  <2>3. PICK x : x = Undone(u, f)
      OBVIOUS
  <2>4. IsWithout(x, f, u.from)
      BY <2>2, <2>3, WithoutIs
  <2>5. \A p \in AllPaths \ E : (Has(x, p) <=> Has(g, p)) /\ (Has(g, p) => x[p] = g[p])
      BY <2>1, <2>4 DEF IsWithout, Meets, Has
  <2>6. ASSUME NEW q \in DOMAIN g, q \in E PROVE \E p \in DOMAIN x : p \in E /\ x[p] = g[q]
    <3>1. q \in DOMAIN X /\ X[q] = g[q]
        BY <2>1, <2>6 DEF IsWithout
    <3>2. PICK p \in DOMAIN f : p \in E /\ f[p] = X[q]
        BY <2>6, <3>1 DEF Meets
    <3> QED
        BY <2>1, <2>4, <3>1, <3>2 DEF IsWithout
  <2>7. Alike(f, x, E)
      BY <2>1, <2>4 DEF Alike, IsWithout, Has
  <2> QED
      BY <2>3, <2>4, <2>5, <2>6, <2>7 DEF Meets, IsWithout
<1>2. CASE u.kind = "MOVE" /\ Has(X, u.from)
  <2>1. /\ PathsOf(u) = {u.from, u.to} /\ u.to \notin DOMAIN X /\ IsRenamed(g, X, u.from, u.to)
        /\ u.from \notin E /\ u.to \notin E /\ u.from \in DOMAIN X
      BY <1>0, <1>2 DEF StepFacts, StepsBack, Removes, MovesBack, WasNotMoved, PutsBack, Has
  <2>2. u.from \in AllPaths /\ u.to \in AllPaths
      BY <2>1, PathsOfRecords
  <2>3. u.from \in DOMAIN f /\ f[u.from] = X[u.from] /\ u.to \notin DOMAIN f
      BY <2>1, <2>2 DEF Meets, Has
  <2>4. Undone(u, f) = Renamed(f, u.from, u.to)
      BY <1>2, <2>3 DEF Undone, Has
  <2>5. PICK x : x = Undone(u, f)
      OBVIOUS
  <2>6. IsRenamed(x, f, u.from, u.to)
      BY <2>2, <2>3, <2>4, <2>5, RenamedIs
  <2>7. \A p \in AllPaths \ E : (Has(x, p) <=> Has(g, p)) /\ (Has(g, p) => x[p] = g[p])
      BY <2>1, <2>3, <2>6 DEF IsRenamed, Meets, Has
  <2>8. ASSUME NEW q \in DOMAIN g, q \in E PROVE \E p \in DOMAIN x : p \in E /\ x[p] = g[q]
    <3>1. q \in DOMAIN X /\ X[q] = g[q]
        BY <2>1, <2>8 DEF IsRenamed
    <3>2. PICK p \in DOMAIN f : p \in E /\ f[p] = X[q]
        BY <2>8, <3>1 DEF Meets
    <3> QED
        BY <2>1, <2>6, <3>1, <3>2 DEF IsRenamed
  <2>9. Alike(f, x, E)
      BY <2>1, <2>6 DEF Alike, IsRenamed, Has
  <2> QED
      BY <2>5, <2>6, <2>7, <2>8, <2>9 DEF Meets, IsRenamed
<1>3. CASE u.kind = "MOVE" /\ ~Has(X, u.from)
  <2>1. g = X /\ u.from \in PathsOf(u) /\ u.from \in AllPaths
      BY <1>0, <1>3, PathsOfRecords, KindOfRecord DEF StepsBack, Removes, MovesBack, WasNotMoved, PutsBack
  <2>2. ~Has(f, u.from)
      BY <1>3, <2>1 DEF Meets
  <2>3. Undone(u, f) = f
      BY <1>3, <2>2 DEF Undone
  <2> QED
      BY <2>1, <2>3 DEF Alike
<1> QED
    BY <1>1, <1>2, <1>3

\* What a REPLACE record is about.
LEMMA ReplaceIs ==
    ASSUME NEW u \in UndoRecords, u.kind = "REPLACE", NEW g \in Dirs, NEW X \in Dirs, StepsBack(u, g, X)
    PROVE  /\ PathsOf(u) = {u.from, u.to, u.witness, u.staging} /\ PathsOf(u) \subseteq AllPaths
           /\ u.to \in Files /\ u.staging \in Temps /\ u.staging # u.from /\ u.staging # u.witness
           /\ u.staging # u.to /\ u.from # u.to
           /\ {u.from, u.to, u.witness} \subseteq DOMAIN X /\ u.staging \notin DOMAIN X
           /\ X[u.to] \in {X[u.from], X[u.witness]} /\ X[u.from] \in Contents
           /\ IsWith(g, X, u.to, X[u.from])
<1>0. StepFacts(u, g, X)
    BY StepIs
<1>1. PutsBack(u, g, X)
    BY DEF StepsBack, Removes, MovesBack, WasNotMoved
<1>2. IsReplace(u)
    BY KindOfRecord
<1>3. u.to \notin Temps
    BY <1>2, PathKinds DEF IsReplace, UserPaths
<1> QED
    BY <1>0, <1>1, <1>2, <1>3, PathsOfRecords, DirIs DEF StepFacts, PutsBack, IsReplace

\* A REPLACE record finds its target restored, or its new contents, and stages the old ones.
LEMMA StagedMeets ==
    ASSUME NEW u \in UndoRecords, u.kind = "REPLACE", NEW g \in Dirs, NEW X \in Dirs, StepsBack(u, g, X),
           NEW f \in Dirs, NEW E, PathsOf(u) \cap E = {}, Meets(f, X, E)
    PROVE  /\ {u.from, u.to, u.witness} \subseteq DOMAIN f /\ f[u.to] \in {f[u.from], f[u.witness]}
           /\ f[u.to] = f[u.from] => Meets(f, g, E)
           /\ LET x == With(f, u.staging, f[u.from])
                  Y == With(X, u.staging, X[u.from])
              IN  x \in Dirs /\ Y \in Dirs /\ Meets(x, Y, E) /\ Alike(f, x, E)
<1>1. /\ PathsOf(u) = {u.from, u.to, u.witness, u.staging} /\ PathsOf(u) \subseteq AllPaths
      /\ u.staging # u.from /\ u.staging # u.witness /\ u.staging # u.to /\ u.from # u.to
      /\ {u.from, u.to, u.witness} \subseteq DOMAIN X /\ u.staging \notin DOMAIN X
      /\ X[u.to] \in {X[u.from], X[u.witness]} /\ X[u.from] \in Contents
      /\ IsWith(g, X, u.to, X[u.from])
    BY ReplaceIs
<1>2. ASSUME NEW p \in {u.from, u.to, u.witness} PROVE p \in DOMAIN f /\ f[p] = X[p]
    BY <1>1 DEF Meets, Has
<1>3. {u.from, u.to, u.witness} \subseteq DOMAIN f /\ f[u.to] \in {f[u.from], f[u.witness]} /\ f[u.from] = X[u.from]
    BY <1>1, <1>2
<1>4. ASSUME f[u.to] = f[u.from] PROVE Meets(f, g, E)
  <2>1. X[u.to] = X[u.from]
      BY <1>2, <1>4
  <2>2. DOMAIN g = DOMAIN X /\ \A p \in DOMAIN X : g[p] = X[p]
      BY <1>1, <2>1 DEF IsWith
  <2>3. g = X
      BY <2>2, DirEqual
  <2> QED
      BY <2>3
<1>5. PICK p, c : p = u.staging /\ c = X[u.from]
    OBVIOUS
<1>6. p \in AllPaths /\ p \notin E /\ c \in Contents
    BY <1>1, <1>5
<1>7. PICK x, Y : x = With(f, p, c) /\ Y = With(X, p, c)
    OBVIOUS
<1>8. IsWith(x, f, p, c) /\ IsWith(Y, X, p, c)
    BY <1>6, <1>7, WithIs
<1>9. \A q \in AllPaths \ E : (Has(x, q) <=> Has(Y, q)) /\ (Has(Y, q) => x[q] = Y[q])
    BY <1>6, <1>8 DEF IsWith, Meets, Has
<1>10. ASSUME NEW q \in DOMAIN Y, q \in E PROVE \E y \in DOMAIN x : y \in E /\ x[y] = Y[q]
  <2>1. q \in DOMAIN X /\ X[q] = Y[q]
      BY <1>6, <1>8, <1>10 DEF IsWith
  <2>2. PICK y \in DOMAIN f : y \in E /\ f[y] = X[q]
      BY <1>10, <2>1 DEF Meets
  <2> QED
      BY <1>6, <1>8, <2>1, <2>2 DEF IsWith
<1>11. Alike(f, x, E)
    BY <1>6, <1>8 DEF Alike, IsWith, Has
<1>12. x \in Dirs /\ Y \in Dirs /\ Meets(x, Y, E)
    BY <1>8, <1>9, <1>10 DEF Meets, IsWith
<1> QED
    BY <1>3, <1>4, <1>5, <1>7, <1>11, <1>12

\* The staged contents take the place of the new ones.
LEMMA SwappedMeets ==
    ASSUME NEW u \in UndoRecords, u.kind = "REPLACE", NEW g \in Dirs, NEW X \in Dirs, StepsBack(u, g, X),
           NEW f \in Dirs, NEW E, PathsOf(u) \cap E = {}, Meets(f, With(X, u.staging, X[u.from]), E)
    PROVE  LET x == Renamed(f, u.staging, u.to) IN x \in Dirs /\ Meets(x, g, E) /\ Alike(f, x, E)
<1>1. /\ PathsOf(u) = {u.from, u.to, u.witness, u.staging} /\ PathsOf(u) \subseteq AllPaths
      /\ u.staging # u.to /\ u.to \in DOMAIN X /\ u.staging \notin DOMAIN X
      /\ X[u.from] \in Contents /\ IsWith(g, X, u.to, X[u.from])
    BY ReplaceIs
<1>2. PICK p, t, c, Y : p = u.staging /\ t = u.to /\ c = X[u.from] /\ Y = With(X, p, c)
    OBVIOUS
<1>3. /\ p \in AllPaths /\ p \notin E /\ t \in AllPaths /\ t \notin E /\ p # t /\ c \in Contents
      /\ Meets(f, Y, E) /\ IsWith(g, X, t, c) /\ t \in DOMAIN X /\ p \notin DOMAIN X
    BY <1>1, <1>2
<1>4. IsWith(Y, X, p, c)
    BY <1>2, <1>3, WithIs
<1>5. p \in DOMAIN f /\ f[p] = c
    BY <1>3, <1>4 DEF IsWith, Meets, Has
<1>6. PICK x : x = Renamed(f, p, t)
    OBVIOUS
<1>7. IsRenamed(x, f, p, t)
    BY <1>3, <1>5, <1>6, RenamedIs
<1>8. \A q \in AllPaths \ E : (Has(x, q) <=> Has(g, q)) /\ (Has(g, q) => x[q] = g[q])
  <2>1. \A q \in AllPaths \ E : (Has(f, q) <=> Has(Y, q)) /\ (Has(Y, q) => f[q] = Y[q])
      BY <1>3 DEF Meets
  <2> QED
      BY <1>3, <1>4, <1>5, <1>7, <2>1 DEF IsWith, IsRenamed, Has
<1>9. ASSUME NEW q \in DOMAIN g, q \in E PROVE \E y \in DOMAIN x : y \in E /\ x[y] = g[q]
  <2>1. q \in DOMAIN Y /\ Y[q] = g[q]
      BY <1>3, <1>4, <1>9 DEF IsWith
  <2>2. PICK y \in DOMAIN f : y \in E /\ f[y] = Y[q]
      BY <1>3, <1>9, <2>1 DEF Meets
  <2> QED
      BY <1>3, <1>7, <2>1, <2>2 DEF IsRenamed
<1>10. Alike(f, x, E)
    BY <1>3, <1>7 DEF Alike, IsRenamed, Has
<1> QED
    BY <1>2, <1>6, <1>7, <1>8, <1>9, <1>10 DEF Meets, IsRenamed

\* A REPLACE record is given up after its old contents have been staged.
LEMMA StagedLess ==
    ASSUME NEW u \in UndoRecords, u.kind = "REPLACE", NEW g \in Dirs, NEW X \in Dirs, StepsBack(u, g, X),
           NEW f \in Dirs, NEW E, Meets(f, With(X, u.staging, X[u.from]), E)
    PROVE  Meets(f, g, E \cup PathsOf(u)) /\ (\A o : Kept(X, o) => Kept(f, o))
<1>1. /\ PathsOf(u) \subseteq AllPaths /\ u.staging \in PathsOf(u) /\ u.staging \notin DOMAIN X
      /\ X[u.from] \in Contents
    BY ReplaceIs
<1>2. PICK p, c, Y, F : p = u.staging /\ c = X[u.from] /\ Y = With(X, p, c) /\ F = E \cup PathsOf(u)
    OBVIOUS
<1>3. p \in AllPaths /\ p \in F /\ c \in Contents /\ p \notin DOMAIN X
    BY <1>1, <1>2
<1>4. IsWith(Y, X, p, c) /\ Meets(f, Y, E)
    BY <1>2, <1>3, WithIs
<1>5. Y \in Dirs
    BY <1>4 DEF IsWith
<1>6. Meets(f, Y, F)
    BY <1>2, <1>4, <1>5, MeetsMore
<1>7. \A q \in DOMAIN X : q \in DOMAIN Y /\ Y[q] = X[q]
    BY <1>3, <1>4 DEF IsWith
<1>8. Meets(f, X, F)
  <2>1. \A q \in AllPaths \ F : (Has(f, q) <=> Has(X, q)) /\ (Has(X, q) => f[q] = X[q])
      BY <1>3, <1>4, <1>6 DEF Meets, IsWith, Has
  <2>2. \A q \in DOMAIN X \cap F : \E y \in DOMAIN f \cap F : f[y] = X[q]
      BY <1>6, <1>7 DEF Meets
  <2> QED
      BY <2>1, <2>2 DEF Meets
<1>9. Meets(f, g, F \cup PathsOf(u)) /\ F \cup PathsOf(u) = F
    BY <1>2, <1>8, MeetsLess
<1>10. ASSUME NEW o, Kept(X, o) PROVE Kept(f, o)
  <2>1. Kept(Y, o)
      BY <1>7, <1>10 DEF Kept, Holds
  <2> QED
      BY <1>4, <1>5, <2>1, MeetsKept
<1> QED
    BY <1>2, <1>9, <1>10

------------------------------------------------------------------------------
(* The records a run has logged. *)

OnlyWrites(plan) == \A i \in DOMAIN plan : plan[i].kind = "AtomicWrite"

\* No record of R names what only a cut record names; every record of R ends its line.
Uncut(R) == \A i \in 1..Len(R) : PathsOf(R[i]) \cap CutPaths = {}
Sealed(R) == \A i \in 1..Len(R) : R[i].ended

\* In step s of run n, the records R lead back to o, and what is to do leads on.
OnTrail(R, f, todo, o, n, s, w) ==
    /\ R \in Seq(UndoRecords) /\ Readable(R) /\ LeadsBack(f, R, o, n, Loose(todo), w) /\ Ready(todo, f, R, w)
    /\ \A i \in 1..Len(R) : PathsOf(R[i]) \subseteq Named(n, s) /\ (R[i].ended => PathsOf(R[i]) \cap CutPaths = {})

\* Nothing has been logged and nothing is to do.
LEMMA TrailStarts ==
    ASSUME NEW n \in Nat, NEW f \in Dirs, DOMAIN f \subseteq Used(n), NEW o, o = UserFiles(f), NEW w
    PROVE  /\ LeadsBack(f, <<>>, o, n + 1, {}, w) /\ Readable(<<>>) /\ Kept(f, o) /\ Targets(f, o)
           /\ OnTrail(<<>>, f, <<>>, o, n + 1, 0, w)
<1>1. DOMAIN o = DOMAIN f \cap UserPaths /\ \A p \in DOMAIN o : o[p] = f[p]
    BY UserFilesAre
<1>2. Base(f, o, n + 1, {})
    BY <1>1 DEF Base, Used
<1>3. Kept(f, o) /\ Targets(f, o)
    BY <1>1 DEF Kept, Targets, Holds, Has
<1> DEFINE h == [i \in 0..0 |-> f]
<1>4. Trail(h, <<>>) /\ h[0] = f /\ \A i \in 0..0 : h[i] = f
    BY DEF Trail
<1> HIDE DEF h
<1>5. LeadsBack(f, <<>>, o, n + 1, {}, w)
    BY <1>2, <1>3, <1>4 DEF LeadsBack
<1>6. Readable(<<>>) /\ Ready(<<>>, f, <<>>, w) /\ <<>> \in Seq(UndoRecords)
    BY ReadyNothing DEF Readable
<1>7. LeadsBack(f, <<>>, o, n + 1, Loose(<<>>), w)
    BY <1>5, LooserBack
<1> QED
    BY <1>3, <1>5, <1>6, <1>7 DEF OnTrail

\* A step begins.
LEMMA TrailBegins ==
    ASSUME NEW n \in Nat, NEW s \in Nat, NEW R, NEW f, NEW o, NEW w \in BOOLEAN, OnTrail(R, f, <<>>, o, n, s, w),
           DOMAIN f \subseteq Named(n, s), NEW T, T = StepTemps(n, s + 1), NEW op \in Actions, NEW policy,
           w => op.kind = "AtomicWrite"
    PROVE  OnTrail(R, f, Handler(op, policy, f, T), o, n, s + 1, w)
<1> DEFINE todo == Handler(op, policy, f, T)
<1>1. R \in Seq(UndoRecords) /\ Readable(R) /\ LeadsBack(f, R, o, n, Loose(<<>>), w)
      /\ \A i \in 1..Len(R) : PathsOf(R[i]) \subseteq Named(n, s) /\ (R[i].ended => PathsOf(R[i]) \cap CutPaths = {})
    BY DEF OnTrail
<1>2. f \in Dirs
    BY <1>1, BackIs
<1>3. FreshNames(T, f, R)
  <2>1. \A tag \in Tags : T[tag] \notin Named(n, s)
      BY NamedMore DEF StepTemps
  <2>2. \A i \in DOMAIN R : PathsOf(R[i]) \subseteq Named(n, s)
      BY <1>1
  <2>3. \A tag \in Tags : ~Has(f, T[tag]) /\ Unmentioned(T[tag], R)
      BY <2>1, <2>2 DEF Has, Unmentioned
  <2> QED
      BY <2>3 DEF FreshNames
<1>4. Ready(todo, f, R, w)
    BY <1>1, <1>2, <1>3, HandlerReady
<1> HIDE DEF todo
<1>5. Loose(<<>>) \subseteq Loose(todo)
    BY DEF Loose
<1>6. LeadsBack(f, R, o, n, Loose(todo), w)
    BY <1>1, <1>5, LooserBack
<1>7. Named(n, s) \subseteq Named(n, s + 1)
    BY NamedMore
<1> QED
    BY <1>1, <1>4, <1>6, <1>7 DEF OnTrail, todo

\* A primitive is done.
LEMMA TrailLeads ==
    ASSUME NEW n \in Nat, NEW s \in Nat, NEW todo \in Seq(Items(n, s)), todo # <<>>, NEW R, NEW f, NEW o,
           NEW w \in BOOLEAN, OnTrail(R, f, todo, o, n, s, w), ~Impossible(Head(todo), f)
    PROVE  \E x, S : Leads(Head(todo), Tail(todo), f, R, x, S, w) /\ OnTrail(S, x, Tail(todo), o, n, s, w)
<1>1. /\ R \in Seq(UndoRecords) /\ Readable(R) /\ LeadsBack(f, R, o, n, Loose(todo), w) /\ Ready(todo, f, R, w)
      /\ \A i \in 1..Len(R) : PathsOf(R[i]) \subseteq Named(n, s) /\ (R[i].ended => PathsOf(R[i]) \cap CutPaths = {})
    BY DEF OnTrail
<1>2. PICK x, S : Leads(Head(todo), Tail(todo), f, R, x, S, w) /\ Ready(Tail(todo), x, S, w)
    BY <1>1, ReadyHead
<1>3. S \in Seq(UndoRecords) /\ Readable(S) /\ LeadsBack(x, S, o, n, Loose(Tail(todo)), w)
    BY <1>1, <1>2, LeadsKeep
<1>4. PICK i \in Items(n, s) : i = Head(todo)
    OBVIOUS
<1>5. S = R \/ (i.do = "log" /\ S = Append(R, i.record))
    BY <1>2, <1>4 DEF Leads, LogLeads, WriteLeads, CopyLeads, MoveLeads, PublishLeads
<1>6. ASSUME i.do = "log" PROVE PathsOf(i.record) \subseteq Named(n, s) /\ PathsOf(i.record) \cap CutPaths = {}
  <2>1. PathsOf(i.record) \subseteq Names(n, s)
      BY <1>6, ItemIs DEF Logged
  <2>2. Names(n, s) \cap CutPaths = {} /\ Names(n, s) \subseteq Named(n, s)
      BY PathKinds, NamesAre, NamedMore DEF Names, Paths
  <2> QED
      BY <2>1, <2>2
<1>7. \A k \in 1..Len(S) : PathsOf(S[k]) \subseteq Named(n, s) /\ (S[k].ended => PathsOf(S[k]) \cap CutPaths = {})
  <2>1. CASE S = R
      BY <1>1, <2>1
  <2>2. CASE i.do = "log" /\ S = Append(R, i.record)
    <3>1. Len(R) \in Nat /\ Len(S) = Len(R) + 1 /\ S[Len(R) + 1] = i.record /\ \A k \in 1..Len(R) : S[k] = R[k]
        BY <1>1, <2>2
    <3> QED
        BY <1>1, <1>6, <2>2, <3>1
  <2> QED
      BY <1>5, <2>1, <2>2
<1> QED
    BY <1>2, <1>3, <1>7 DEF OnTrail

\* What is left of a record may be logged where the record may.
LEMMA CanLogCut ==
    ASSUME NEW R \in Seq(UndoRecords), Uncut(R), NEW f, NEW r \in UndoRecords, CanLog(r, f, R),
           r.kind = "REPLACE" => Prepared(r, R), NEW c \in UndoRecords, c = r \/ CutOf(c, r)
    PROVE  CanLog(c, f, R) /\ (c.kind = "REPLACE" => Prepared(c, R)) /\ c.kind = r.kind
<1>1. CASE c = r
    BY <1>1
<1>2. CASE CutOf(c, r)
  <2>1. c.kind # "TORN"
      BY DEF UndoRecords, IsRemove, IsMove, IsReplace
  <2>2. /\ c.kind = r.kind /\ (c.from = r.from \/ (r.kind = "REMOVE" /\ c.from \in CutPaths))
        /\ (r.kind # "MOVE" => c.to = r.to) /\ c.witness = r.witness /\ c.staging = r.staging
      BY <1>2, <2>1 DEF CutOf
  <2>3. ASSUME r.kind = "REMOVE" PROVE Unmentioned(c.from, R)
    <3>1. CASE c.from = r.from
        BY <2>3, <3>1 DEF CanLog
    <3>2. CASE c.from \in CutPaths
        BY <3>2 DEF Uncut, Unmentioned
    <3> QED
        BY <2>2, <3>1, <3>2
  <2>4. CanLog(c, f, R)
      BY <2>2, <2>3 DEF CanLog
  <2>5. c.kind = "REPLACE" => Prepared(c, R)
      BY <2>2 DEF Prepared
  <2> QED
      BY <2>2, <2>4, <2>5
<1> QED
    BY <1>1, <1>2

\* A file that no record names is removed again.
LEMMA LooseGone ==
    ASSUME NEW R \in Seq(UndoRecords), NEW f, NEW o, NEW n, NEW J, NEW w \in BOOLEAN, LeadsBack(f, R, o, n, J, w),
           NEW p \in Temps \cup CutPaths, Unmentioned(p, R), J \subseteq {p}
    PROVE  LeadsBack(Without(f, p), R, o, n, {}, w)
<1>1. PICK c \in Contents : c = Foreign
    BY DEF Contents
<1>2. LeadsBack(With(f, p, c), R, o, n, J \cup {p}, w) /\ LeadsBack(Without(f, p), R, o, n, J \ {p}, w)
    BY FreshBack
<1>3. J \ {p} \subseteq {}
    OBVIOUS
<1> QED
    BY <1>2, <1>3, LooserBack

\* Where a primitive that is refused leads: a file whose REMOVE record cannot be logged is removed again.
RefusedAt(i, f) == IF i.do = "log" /\ i.record.kind = "REMOVE" THEN Without(f, i.record.from) ELSE f
FailsBack(x, R, i, o, n, w) ==
    /\ LeadsBack(x, R, o, n, {}, w)
    /\ i.do = "log" /\ Uncut(R) =>
          \A c \in UndoRecords : (c = i.record \/ CutOf(c, i.record)) =>
              LeadsBack(x, Append(R, c), o, n, {}, w) /\ Readable(Append(R, c))

\* A primitive is refused, and what is left of its record is undone in any case.
LEMMA TrailFails ==
    ASSUME NEW n \in Nat, NEW s \in Nat, NEW todo \in Seq(Items(n, s)), todo # <<>>, NEW R \in Seq(UndoRecords),
           NEW f, NEW o,
           NEW w \in BOOLEAN, OnTrail(R, f, todo, o, n, s, w), NEW i, i = Head(todo),
           NEW x, x = RefusedAt(i, f)
    PROVE  FailsBack(x, R, i, o, n, w)
<1> USE DEF RefusedAt, FailsBack
<1>1. R \in Seq(UndoRecords) /\ Readable(R) /\ LeadsBack(f, R, o, n, Loose(todo), w) /\ Ready(todo, f, R, w)
    BY DEF OnTrail
<1>2. i \in Items(n, s)
    OBVIOUS
<1>3. \A p \in Loose(todo) : i = Log(RemoveRecord(p))
    BY DEF Loose
<1>4. ASSUME NEW p \in Loose(todo) PROVE i.do = "log" /\ i.record.kind = "REMOVE" /\ i.record.from = p
  <2>1. i = Log(RemoveRecord(p))
      BY <1>3
  <2>2. RemoveRecord(p).kind = "REMOVE" /\ RemoveRecord(p).from = p
      BY DEF RemoveRecord, Record
  <2> QED
      BY <2>1, <2>2 DEF Log
<1>5. CASE i.do # "log"
  <2>1. Loose(todo) = {} /\ x = f
      BY <1>4, <1>5
  <2> QED
      BY <1>1, <1>5, <2>1
<1>6. CASE i.do = "log"
  <2>1. PICK r \in UndoRecords : r = i.record
      BY <1>2, <1>6, ItemIs DEF Logged
  <2>2. CanLog(r, f, R) /\ (r.kind = "REPLACE" => Prepared(r, R))
    <3>1. ~Impossible(Head(todo), f)
        BY <1>6 DEF Impossible
    <3>2. PICK y, S : Leads(Head(todo), Tail(todo), f, R, y, S, w)
        BY <1>1, <3>1, ReadyHead
    <3> QED
        BY <1>6, <2>1, <3>2 DEF Leads, LogLeads, WriteLeads, CopyLeads, MoveLeads, PublishLeads
  <2>3. LeadsBack(x, R, o, n, {}, w) /\ CanLog(r, x, R)
    <3>1. CASE r.kind = "REMOVE"
      <4>1. PICK p \in Temps \cup CutPaths : p = r.from
          BY <3>1, KindOfRecord DEF IsRemove
      <4>2. x = Without(f, p) /\ Unmentioned(p, R) /\ Loose(todo) \subseteq {p}
          BY <1>4, <1>6, <2>1, <2>2, <3>1, <4>1 DEF CanLog
      <4>3. LeadsBack(x, R, o, n, {}, w)
          BY <1>1, <4>2, LooseGone
      <4> QED
          BY <3>1, <4>1, <4>2, <4>3 DEF CanLog
    <3>2. CASE r.kind # "REMOVE"
        BY <1>1, <1>4, <2>1, <2>2, <3>2
    <3> QED
        BY <3>1, <3>2
  <2>4. ASSUME Uncut(R), NEW c \in UndoRecords, c = r \/ CutOf(c, r)
        PROVE  LeadsBack(x, Append(R, c), o, n, {}, w) /\ Readable(Append(R, c))
    <3>1. CanLog(c, x, R) /\ (c.kind = "REPLACE" => Prepared(c, R))
        BY <1>1, <2>2, <2>3, <2>4, CanLogCut
    <3>2. LeadsBack(x, Append(R, c), o, n, IF c.kind = "REMOVE" THEN {} \ {c.from} ELSE {}, w)
        BY <1>1, <2>3, <3>1, LogBack
    <3>3. (IF c.kind = "REMOVE" THEN {} \ {c.from} ELSE {}) = {}
        OBVIOUS
    <3> QED
        BY <1>1, <3>1, <3>2, <3>3, ReadableMore
  <2> QED
      BY <2>1, <2>3, <2>4
<1> QED
    BY <1>5, <1>6

------------------------------------------------------------------------------
(* What the journal says. *)

\* Some line of j cannot be read; j ends with COMMIT; it does not.
Torn(j) == "TORN" \in Kinds(j)
HasCommit(j) == j # NoJournal /\ ~Torn(j) /\ "COMMIT" \in Kinds(j)
IsOpen(j) == j # NoJournal /\ ~Torn(j) /\ "COMMIT" \notin Kinds(j)

\* What read_journal asks of j.
Reads(j) ==
    \A i \in DOMAIN j :
        /\ j[i].kind = "COMMIT" => i = Len(j)
        /\ j[i].kind = "REPLACE" =>
              /\ \A p \in {j[i].from, j[i].witness, j[i].staging} : \E k \in 1..i - 1 : j[k] = RemoveRecord(p)
              /\ \A k \in 1..i - 1 : j[k].kind = "REPLACE" => j[k].from # j[i].from
        /\ j[i].kind = "RESTORED" =>
              /\ \E k \in 1..i - 1 : j[k].kind = "REPLACE" /\ j[k].from = j[i].from
              /\ \A k \in 1..i - 1 : j[k] # j[i]

\* The run c has logged R in the journal j.
Logs(R, j, c, faults) ==
    /\ Torn(j) \/ (j = R /\ \A i \in 1..Len(R) - 1 : R[i].ended)
    /\ c.failed = FALSE \/ faults = 0 => j = R /\ Sealed(R)
    /\ c.failed = FALSE => c.undo = R
    /\ c.failFast = TRUE => c.failed = FALSE

\* The journal j, left unfinished, can be undone; at most one temporary file will stay.
Spare(J) == \A t \in J : t.tag \in {"new", "copy"} /\ J = {t}
Resumable(j, f, o, n, faults, w) ==
    /\ j \in Seq(UndoRecords) /\ Readable(j) /\ (faults = 0 => Sealed(j) /\ Uncut(j))
    /\ \E J : Spare(J) /\ LeadsBack(f, j, o, n, J, w)

\* The undo loop c leads back to o; the paths it has given up do not matter for the rest.
UndoTrail(X, J, f, c, o, n, w) ==
    /\ X \in Dirs
    /\ LeadsBack(X, IF c.at = "mark" THEN Front(c.todo) ELSE c.todo, o, n, J, w)
    /\ Meets(f, IF c.at = "swap" THEN With(X, Last(c.todo).staging, X[Last(c.todo).from]) ELSE X, c.blocked)
    /\ c.ok = TRUE => c.blocked = {}
    /\ w => Targets(f, o)
    /\ IF c.phase = "rollback" THEN J = {} ELSE Spare(J)

\* No record that the undo loop c has still to undo is marked in j; without faults, c has met no conflict.
UndoLog(c, j, faults) ==
    /\ Readable(c.todo)
    /\ \A i \in DOMAIN j, k \in DOMAIN c.todo :
          j[i].kind = "RESTORED" /\ c.todo[k].kind = "REPLACE" => j[i].from # c.todo[k].from
    /\ faults = 0 =>
          /\ c.ok = TRUE /\ Uncut(c.todo) /\ Sealed(j) /\ "COMMIT" \notin Kinds(j) /\ Reads(j)
          /\ \A k \in DOMAIN c.todo : c.todo[k].kind = "REPLACE" => \E i \in DOMAIN j : j[i] = c.todo[k]

------------------------------------------------------------------------------
(* The inductive invariant. *)

RunInv ==
    InPhase("run") =>
        /\ call.plan = planned /\ undone = FALSE /\ result = "none"
        /\ \E R : /\ OnTrail(R, fs, call.todo, original, spent.runs, call.step, OnlyWrites(planned))
                  /\ Logs(R, journal, call, spent.faults)
IdleInv ==
    InPhase("idle") =>
        /\ undone = FALSE /\ IsOpen(journal) =>
              Resumable(journal, fs, original, spent.runs, spent.faults, OnlyWrites(planned))
        /\ result = "rolledBack" => Base(fs, original, spent.runs, {})
        /\ Retried = {} /\ result = "recovered" => \E J : Spare(J) /\ Base(fs, original, spent.runs, J)
CleanupInv == InPhase("cleanup") => HasCommit(journal) /\ result = "none"
UndoInv ==
    Undoing =>
        /\ undone = TRUE /\ (call.phase = "rollback" \/ Retried = {} => call.again = FALSE)
        /\ call.again = FALSE =>
              /\ UndoLog(call, journal, spent.faults)
              /\ \E X, J : UndoTrail(X, J, fs, call, original, spent.runs, OnlyWrites(planned))
\* In every phase, as long as no undo is tried again.
Safe ==
    Retried = {} =>
        /\ spent.faults = 0 => result # "stuck" /\ (journal = NoJournal \/ Reads(journal))
        /\ OnlyWrites(planned) => Targets(fs, original)
        /\ ~HasCommit(journal) /\ result # "ok" => Kept(fs, original)
Inv == Types /\ RunInv /\ IdleInv /\ CleanupInv /\ UndoInv /\ Safe

\* A plan consists of AtomicWrite operations or not.
LEMMA OnlyWritesIs ==
    ASSUME NEW plan
    PROVE  OnlyWrites(plan) \in BOOLEAN
BY DEF OnlyWrites

\* Undo records that read_journal accepts, and COMMIT after them.
LEMMA ReadableReads ==
    ASSUME NEW R \in Seq(UndoRecords), Readable(R)
    PROVE  Reads(R) /\ Reads(Append(R, CommitRecord)) /\ "COMMIT" \notin Kinds(R) /\ "TORN" \notin Kinds(R)
           /\ \A i \in DOMAIN R : R[i].kind # "RESTORED"
<1> DEFINE N == Len(R)
           S == Append(R, CommitRecord)
<1>1. /\ N \in Nat /\ DOMAIN R = 1..N /\ DOMAIN S = 1..N + 1 /\ Len(S) = N + 1 /\ S[N + 1] = CommitRecord
      /\ \A i \in 1..N : S[i] = R[i] /\ R[i] \in UndoRecords
    OBVIOUS
<1>2. \A r \in UndoRecords : r.kind \notin {"COMMIT", "TORN", "RESTORED"}
    BY DEF UndoRecords, IsRemove, IsMove, IsReplace
<1>3. CommitRecord.kind = "COMMIT"
    BY DEF CommitRecord, Record
<1>4. \A i \in 1..N : R[i].kind # "COMMIT" /\ R[i].kind # "RESTORED" /\ R[i].kind # "TORN"
    BY <1>1, <1>2
<1>5. ASSUME NEW i \in 1..N, R[i].kind = "REPLACE"
      PROVE  /\ \A p \in {R[i].from, R[i].witness, R[i].staging} : \E k \in 1..i - 1 : R[k] = RemoveRecord(p)
             /\ \A k \in 1..i - 1 : R[k].kind = "REPLACE" => R[k].from # R[i].from
    BY <1>5 DEF Readable
<1>6. Reads(R)
    BY <1>1, <1>4, <1>5 DEF Reads
<1> HIDE DEF S
<1>7. Reads(S)
  <2>1. ASSUME NEW i \in 1..N + 1
        PROVE  /\ S[i].kind = "COMMIT" => i = Len(S)
               /\ S[i].kind = "REPLACE" =>
                     /\ \A p \in {S[i].from, S[i].witness, S[i].staging} : \E k \in 1..i - 1 : S[k] = RemoveRecord(p)
                     /\ \A k \in 1..i - 1 : S[k].kind = "REPLACE" => S[k].from # S[i].from
               /\ S[i].kind # "RESTORED"
    <3>1. CASE i = N + 1
        BY <1>1, <1>3, <3>1
    <3>2. CASE i \in 1..N
      <4>1. S[i] = R[i] /\ \A k \in 1..i - 1 : k \in 1..N /\ S[k] = R[k]
          BY <1>1, <3>2
      <4> QED
          BY <1>4, <1>5, <3>2, <4>1
    <3> QED
        BY <1>1, <3>1, <3>2
  <2> QED
      BY <1>1, <2>1 DEF Reads
<1>8. "COMMIT" \notin Kinds(R) /\ "TORN" \notin Kinds(R)
    BY <1>1, <1>4 DEF Kinds
<1> QED
    BY <1>1, <1>4, <1>6, <1>7, <1>8 DEF S

\* The run goes on, or begins.
LEMMA RunKept ==
    ASSUME Types', call'.phase = "run", call'.plan = planned', undone' = FALSE, result' = "none", NEW R,
           OnTrail(R, fs', call'.todo, original', spent'.runs, call'.step, OnlyWrites(planned')),
           Logs(R, journal', call', spent'.faults)
    PROVE  Inv'
<1>1. RunInv' /\ IdleInv' /\ CleanupInv' /\ UndoInv'
    BY DEF RunInv, IdleInv, CleanupInv, UndoInv, InPhase, Undoing
<1>2. PICK w \in BOOLEAN : w = OnlyWrites(planned')
    BY OnlyWritesIs
<1>3. R \in Seq(UndoRecords) /\ Readable(R)
      /\ LeadsBack(fs', R, original', spent'.runs, Loose(call'.todo), w)
    BY <1>2 DEF OnTrail
<1>4. (w => Targets(fs', original')) /\ Kept(fs', original')
    BY <1>3, BackIs, BackKeeps
<1>5. spent'.faults = 0 => Reads(journal')
    BY <1>3, ReadableReads DEF Logs
<1>6. Safe'
    BY <1>2, <1>4, <1>5 DEF Safe
<1> QED
    BY <1>1, <1>6 DEF Inv

\* A call returns, or fails to begin.
LEMMA IdleKept ==
    ASSUME Types', call'.phase = "idle", Safe',
           undone' = FALSE /\ IsOpen(journal') =>
               Resumable(journal', fs', original', spent'.runs, spent'.faults, OnlyWrites(planned')),
           result' = "rolledBack" => Base(fs', original', spent'.runs, {}),
           Retried = {} /\ result' = "recovered" => \E J : Spare(J) /\ Base(fs', original', spent'.runs, J)
    PROVE  Inv'
BY DEF Inv, RunInv, IdleInv, CleanupInv, UndoInv, InPhase, Undoing

\* What the undo loop has still to undo leads back to what is kept meanwhile.
LEMMA UndoKeeps ==
    ASSUME NEW n \in Nat, NEW c \in UndoCalls(n), c.at # "check" => c.todo # <<>> /\ Last(c.todo).kind = "REPLACE",
           NEW X, NEW J, NEW f \in Dirs, NEW o, NEW w \in BOOLEAN, UndoTrail(X, J, f, c, o, n, w)
    PROVE  Kept(f, o) /\ (w => Targets(f, o))
<1>1. c.todo \in Seq(UndoRecords)
    BY TodoIs
<1>2. X \in Dirs /\ (w => Targets(f, o))
    BY DEF UndoTrail
<1>3. CASE c.at = "mark"
  <2>1. LeadsBack(X, Front(c.todo), o, n, J, w) /\ Meets(f, X, c.blocked)
      BY <1>3 DEF UndoTrail
  <2>2. Front(c.todo) \in Seq(UndoRecords)
      BY <1>1, <1>3, FrontAndLast
  <2>3. Kept(X, o)
      BY <2>1, <2>2, BackKeeps
  <2> QED
      BY <1>2, <2>1, <2>3, MeetsKept
<1>4. CASE c.at = "check"
  <2>1. LeadsBack(X, c.todo, o, n, J, w) /\ Meets(f, X, c.blocked)
      BY <1>4 DEF UndoTrail
  <2>2. Kept(X, o)
      BY <1>1, <2>1, BackKeeps
  <2> QED
      BY <1>2, <2>1, <2>2, MeetsKept
<1>5. CASE c.at = "swap"
  <2>1. PICK u \in UndoRecords : u = Last(c.todo)
      BY <1>1, <1>5, FrontAndLast
  <2>2. LeadsBack(X, c.todo, o, n, J, w) /\ Meets(f, With(X, u.staging, X[u.from]), c.blocked)
      BY <1>5, <2>1 DEF UndoTrail
  <2>3. Kept(X, o)
      BY <1>1, <2>2, BackKeeps
  <2>4. PICK g \in Dirs : StepsBack(u, g, X)
      BY <1>1, <1>5, <2>1, <2>2, OneLess
  <2>5. u.kind = "REPLACE"
      BY <1>5, <2>1
  <2>6. Kept(f, o)
      BY <1>2, <2>2, <2>3, <2>4, <2>5, StagedLess
  <2> QED
      BY <1>2, <2>6
<1> QED
    BY <1>3, <1>4, <1>5 DEF UndoCalls

\* The undo loop begins or goes on.
LEMMA UndoKept ==
    ASSUME Types', call'.phase \in {"rollback", "recover"}, undone' = TRUE, call'.again = FALSE,
           UndoLog(call', journal', spent'.faults), NEW X, NEW J,
           UndoTrail(X, J, fs', call', original', spent'.runs, OnlyWrites(planned')),
           Retried = {} /\ spent'.faults = 0 => result' # "stuck"
    PROVE  Inv'
<1>1. RunInv' /\ IdleInv' /\ CleanupInv' /\ UndoInv'
    BY DEF RunInv, IdleInv, CleanupInv, UndoInv, InPhase, Undoing
<1>2. PICK w \in BOOLEAN : w = OnlyWrites(planned')
    BY OnlyWritesIs
<1>3. /\ spent'.runs \in Nat /\ call' \in UndoCalls(spent'.runs) /\ fs' \in Dirs
      /\ call'.at # "check" => call'.todo # <<>> /\ Last(call'.todo).kind = "REPLACE"
    BY DEF Types, CallTypes, FileTypes, HistoryTypes, Undoing
<1>4. UndoTrail(X, J, fs', call', original', spent'.runs, w)
    BY <1>2
<1>5. Kept(fs', original') /\ (w => Targets(fs', original'))
    BY <1>3, <1>4, UndoKeeps
<1>6. spent'.faults = 0 => Reads(journal')
    BY DEF UndoLog
<1>7. Safe'
    BY <1>2, <1>5, <1>6 DEF Safe
<1> QED
    BY <1>1, <1>7 DEF Inv

\* An undo that is tried again, of which nothing is said.
LEMMA AgainKept ==
    ASSUME Types', call'.phase = "recover", undone' = TRUE, call'.again = TRUE, Retried # {}
    PROVE  Inv'
BY DEF Inv, RunInv, IdleInv, CleanupInv, UndoInv, Safe, InPhase, Undoing

------------------------------------------------------------------------------
(* Every step keeps the invariant. *)

\* At the start.
LEMMA InitInv == Init => Inv
<1> SUFFICES ASSUME Init PROVE Inv
    OBVIOUS
<1>1. Types
    BY InitTypes
<1>2. /\ journal = NoJournal /\ call.phase = "idle" /\ planned = <<>> /\ original = UserFiles(fs) /\ result = "none"
    BY DEF Init, Idle
<1>3. fs \in Dirs /\ DOMAIN fs \subseteq Used(spent.runs) /\ spent.runs \in Nat
    BY <1>1, SpentTypes DEF Types, FileTypes
<1>4. Kept(fs, original) /\ Targets(fs, original)
    BY <1>2, <1>3, TrailStarts
<1>5. ~IsOpen(journal)
    BY <1>2 DEF IsOpen
<1> QED
    BY <1>1, <1>2, <1>4, <1>5 DEF Inv, RunInv, IdleInv, CleanupInv, UndoInv, Safe, InPhase, Undoing

\* Run begins, and no record has been written.
LEMMA BeginKeeps ==
    ASSUME Inv, Types', NEW plan \in Plans, NEW policy \in Policies, NEW failFast \in FailFast, NEW mode \in Modes,
           Begin(plan, policy, failFast, mode)
    PROVE  Inv'
<1>1. /\ fs' = fs /\ journal' = <<>> /\ call' = RunCall(plan, policy, failFast, mode) /\ planned' = plan
      /\ original' = UserFiles(fs) /\ undone' = FALSE /\ result' = "none" /\ spent' = SpentOne("runs")
    BY DEF Begin
<1>2. fs \in Dirs /\ DOMAIN fs \subseteq Used(spent.runs) /\ spent.runs \in Nat /\ spent'.runs = spent.runs + 1
    BY <1>1, SpentTypes DEF Inv, Types, FileTypes
<1>3. /\ call'.phase = "run" /\ call'.plan = plan /\ call'.todo = <<>> /\ call'.step = 0 /\ call'.undo = <<>>
      /\ call'.failed = FALSE
    BY <1>1 DEF RunCall
<1>4. OnTrail(<<>>, fs', call'.todo, original', spent'.runs, call'.step, OnlyWrites(planned'))
    BY <1>1, <1>2, <1>3, TrailStarts
<1>5. Logs(<<>>, journal', call', spent'.faults)
    BY <1>1, <1>3 DEF Logs, Sealed
<1> QED
    BY <1>1, <1>3, <1>4, <1>5, RunKept

\* It fails to begin, and whatever journal it leaves has nothing to undo.
LEMMA BeginFailsKeeps ==
    ASSUME Inv, Types', BeginFails
    PROVE  Inv'
<1>1. /\ fs' = fs /\ call' = call /\ call.phase = "idle" /\ planned' = <<>> /\ original' = UserFiles(fs)
      /\ undone' = FALSE /\ result' = "failed" /\ spent' = [spent EXCEPT !.runs = @ + 1, !.faults = @ + 1]
      /\ journal' \in {journal, NoJournal, <<>>, <<TornRecord>>} /\ JournalCanStart
    BY DEF BeginFails, InPhase
<1>2. fs \in Dirs /\ DOMAIN fs \subseteq Used(spent.runs) /\ spent.runs \in Nat
      /\ spent'.runs = spent.runs + 1 /\ spent'.faults # 0
  <2>1. spent \in [runs : Nat, faults : Nat, crashes : Nat, foreign : Nat]
      BY DEF Inv, Types, HistoryTypes
  <2>2. PICK k \in Nat, m \in Nat : k = spent.runs + 1 /\ m = spent.faults + 1 /\ m # 0
      BY <2>1
  <2>3. spent' = [spent EXCEPT !.runs = k, !.faults = m]
      BY <1>1, <2>2
  <2>4. spent'.runs = k /\ spent'.faults = m
      BY <2>1, <2>3
  <2> QED
      BY <2>1, <2>2, <2>4 DEF Inv, Types, FileTypes
<1>3. PICK w \in BOOLEAN : w = OnlyWrites(planned')
    BY OnlyWritesIs
<1>4. /\ LeadsBack(fs', <<>>, original', spent'.runs, {}, w) /\ Readable(<<>>)
      /\ Kept(fs', original') /\ Targets(fs', original')
    BY <1>1, <1>2, TrailStarts
<1>5. IsOpen(journal') => journal' = <<>>
  <2>1. ~IsOpen(journal)
      BY <1>1 DEF JournalCanStart, Missing, Committed, Malformed, IsOpen, Torn
  <2>2. ~IsOpen(<<TornRecord>>)
    <3>1. <<TornRecord>>[1].kind = "TORN" /\ 1 \in DOMAIN <<TornRecord>>
        BY DEF TornRecord, Record
    <3> QED
        BY <3>1 DEF IsOpen, Torn, Kinds
  <2> QED
      BY <1>1, <2>1, <2>2 DEF IsOpen
<1>6. Resumable(<<>>, fs', original', spent'.runs, spent'.faults, w)
  <2>1. Spare({})
      BY DEF Spare
  <2> QED
      BY <1>2, <1>4, <2>1 DEF Resumable
<1>7. Safe'
    BY <1>1, <1>2, <1>4 DEF Safe
<1> QED
    BY <1>1, <1>3, <1>5, <1>6, <1>7, IdleKept

\* A step begins.
LEMMA BeginStepKeeps ==
    ASSUME Inv, Types', BeginStep
    PROVE  Inv'
<1> DEFINE n == spent.runs
           s == call.step
           T == StepTemps(n, s + 1)
           todo == Handler(call.plan[s + 1], call.policy, fs, T)
<1>1. /\ InPhase("run") /\ call.todo = <<>> /\ s < Len(call.plan) /\ call' = [call EXCEPT !.step = s + 1, !.todo = todo]
      /\ fs' = fs /\ journal' = journal /\ planned' = planned /\ original' = original /\ undone' = undone
      /\ result' = result /\ spent' = spent
    BY DEF BeginStep, StepTemps
<1>2. /\ n \in Nat /\ s \in Nat /\ RunFields(call, n, s) /\ call \in RunCalls(n, s) /\ fs \in Dirs
      /\ DOMAIN fs \subseteq Named(n, s)
    BY <1>1, RunItem DEF Inv
<1>3. PICK w \in BOOLEAN : w = OnlyWrites(planned)
    BY OnlyWritesIs
<1>4. PICK R : OnTrail(R, fs, call.todo, original, n, s, w) /\ Logs(R, journal, call, spent.faults)
    BY <1>1, <1>3 DEF Inv, RunInv
<1>5. call.plan = planned /\ undone = FALSE /\ result = "none"
    BY <1>1 DEF Inv, RunInv
<1>6. call.plan[s + 1] \in Actions /\ (w => call.plan[s + 1].kind = "AtomicWrite")
  <2>1. call.plan \in Seq(Actions) /\ s + 1 \in 1..Len(call.plan)
      BY <1>1, <1>2, PathAssumption DEF RunFields
  <2>2. s + 1 \in DOMAIN call.plan
      BY <2>1
  <2> QED
      BY <1>3, <1>5, <2>1, <2>2 DEF OnlyWrites
<1>7. OnTrail(R, fs, todo, original, n, s + 1, w)
    BY <1>1, <1>2, <1>4, <1>6, TrailBegins
<1> HIDE DEF todo, T
<1>8. /\ call'.phase = "run" /\ call'.plan = call.plan /\ call'.todo = todo /\ call'.step = s + 1
      /\ call'.failed = call.failed /\ call'.undo = call.undo /\ call'.failFast = call.failFast
    BY <1>1, <1>2 DEF RunCalls
<1>9. Logs(R, journal', call', spent'.faults)
    BY <1>1, <1>4, <1>8 DEF Logs
<1> QED
    BY <1>1, <1>3, <1>5, <1>7, <1>8, <1>9, RunKept

\* The journal with a record more.
LEMMA LogsMore ==
    ASSUME NEW n \in Nat, journal \in Seq(JournalRecords(n)), NEW R \in Seq(UndoRecords), NEW c, NEW d, NEW faults,
           Logs(R, journal, c, faults), NEW r \in JournalRecords(n), r.ended = TRUE,
           d.failed = c.failed, d.failFast = c.failFast, d.undo = Append(c.undo, r)
    PROVE  Logs(Append(R, r), Appended(r), d, faults)
<1> DEFINE S == Append(R, r)
           N == Len(R)
<1>1. N \in Nat /\ Len(S) = N + 1 /\ S[N + 1] = r /\ \A i \in 1..N : S[i] = R[i]
    OBVIOUS
<1> HIDE DEF S
<1>2. /\ \/ Appended(r) = Append(journal, r) /\ (journal = <<>> \/ Last(journal).ended)
         \/ Torn(Appended(r)) /\ journal # <<>> /\ ~Last(journal).ended
      /\ Torn(journal) => Torn(Appended(r))
    BY AppendedIs DEF Torn
<1>3. ASSUME Sealed(R), journal = R PROVE Appended(r) = S /\ Sealed(S)
  <2>1. R # <<>> => Last(R).ended
      BY <1>1, <1>3 DEF Sealed, Last
  <2>2. Appended(r) = S
      BY <1>2, <1>3, <2>1 DEF S
  <2> QED
      BY <1>1, <1>3, <2>2 DEF Sealed
<1>4. Torn(Appended(r)) \/ (Appended(r) = S /\ \A i \in 1..Len(S) - 1 : S[i].ended)
  <2>1. CASE Torn(journal) \/ Torn(Appended(r))
      BY <1>2, <2>1
  <2>2. CASE journal = R /\ (\A i \in 1..N - 1 : R[i].ended) /\ ~Torn(Appended(r))
    <3>1. Appended(r) = S /\ (R = <<>> \/ Last(R).ended)
        BY <1>2, <2>2 DEF S
    <3>2. \A i \in 1..N : R[i].ended
        BY <1>1, <2>2, <3>1 DEF Last
    <3> QED
        BY <1>1, <3>1, <3>2
  <2> QED
      BY <2>1, <2>2 DEF Logs
<1>5. d.failed = FALSE => d.undo = S
    BY DEF Logs, S
<1>6. d.failed = FALSE \/ faults = 0 => Appended(r) = S /\ Sealed(S)
    BY <1>3 DEF Logs
<1>7. d.failFast = TRUE => d.failed = FALSE
    BY DEF Logs
<1> QED
    BY <1>4, <1>5, <1>6, <1>7 DEF Logs, S

\* A record is logged before what it undoes is done.
LEMMA AppendUndoKeeps ==
    ASSUME Inv, Types', AppendUndo
    PROVE  Inv'
<1> DEFINE n == spent.runs
           s == call.step
           i == Head(call.todo)
<1>1. /\ InPhase("run") /\ call.todo # <<>> /\ i.do = "log" /\ journal' = Appended(i.record)
      /\ call' = [[call EXCEPT !.todo = Tail(@)] EXCEPT !.undo = Append(@, i.record)]
      /\ fs' = fs /\ planned' = planned /\ original' = original /\ undone' = undone /\ result' = result
      /\ spent' = spent
    BY DEF AppendUndo, Doing, Done
<1>2. n \in Nat /\ s \in Nat /\ call \in RunCalls(n, s) /\ journal \in Seq(JournalRecords(n)) /\ i \in Items(n, s)
      /\ call.todo \in Seq(Items(n, s))
    BY <1>1, RunItem DEF Inv, RunFields
<1>3. PICK w \in BOOLEAN : w = OnlyWrites(planned)
    BY OnlyWritesIs
<1>4. PICK R : OnTrail(R, fs, call.todo, original, n, s, w) /\ Logs(R, journal, call, spent.faults)
    BY <1>1, <1>3 DEF Inv, RunInv
<1>5. call.plan = planned /\ undone = FALSE /\ result = "none"
    BY <1>1 DEF Inv, RunInv
<1>6. PICK r \in Undoable(n) : r = i.record /\ r \in JournalRecords(n) /\ r.ended = TRUE
  <2>1. i.record \in Logged(n, s)
      BY <1>1, <1>2, ItemIs
  <2>2. i.record \in Undoable(n) /\ i.record \in JournalRecords(n)
      BY <1>2, <2>1, UsedMore
  <2>3. i.record.ended = TRUE
      BY <2>1 DEF Logged, UndoRecords, Records
  <2> QED
      BY <2>2, <2>3
<1>7. OnTrail(Append(R, r), fs, Tail(call.todo), original, n, s, w)
  <2>1. ~Impossible(i, fs)
      BY <1>1 DEF Impossible
  <2>2. PICK x, S : Leads(i, Tail(call.todo), fs, R, x, S, w) /\ OnTrail(S, x, Tail(call.todo), original, n, s, w)
      BY <1>1, <1>2, <1>4, <2>1, TrailLeads, SMTT(30)
  <2>3. x = fs /\ S = Append(R, r)
      BY <1>1, <1>6, <2>2 DEF Leads, LogLeads, WriteLeads, CopyLeads, MoveLeads, PublishLeads
  <2> QED
      BY <2>2, <2>3
<1>8. NextItem(call', call, n, s, Append(call.undo, r))
  <2>1. call' = [[call EXCEPT !.todo = Tail(@)] EXCEPT !.undo = Append(@, r)]
      BY <1>1, <1>6
  <2> QED
      BY <1>1, <1>2, <2>1, CallLogs, Zenon
<1>9. Logs(Append(R, r), Appended(r), call', spent.faults)
  <2>1. R \in Seq(UndoRecords)
      BY <1>4 DEF OnTrail
  <2> QED
      BY <1>2, <1>4, <1>6, <1>8, <2>1, LogsMore DEF SameCall, NextItem
<1> QED
    BY <1>1, <1>3, <1>5, <1>6, <1>7, <1>8, <1>9, RunKept DEF SameCall, NextItem

\* A primitive that is not logged is done.
LEMMA PrimitiveKeeps ==
    ASSUME Inv, Types', InPhase("run"), call.todo # <<>>, NEW i, i = Head(call.todo), ~Impossible(i, fs), i.do # "log",
           NextItem(call', call, spent.runs, call.step, call.undo), journal' = journal, planned' = planned, original' = original,
           undone' = undone, result' = result, spent' = spent,
           i.do = "write" => fs' = With(fs, i.to, i.data), i.do = "copy" => fs' = With(fs, i.to, fs[i.from]),
           i.do \in {"move", "replace"} => fs' = Renamed(fs, i.from, i.to)
    PROVE  Inv'
<1> DEFINE n == spent.runs
           s == call.step
<1>1. n \in Nat /\ s \in Nat /\ call.todo \in Seq(Items(n, s))
    BY RunItem DEF Inv, RunFields
<1>2. PICK w \in BOOLEAN : w = OnlyWrites(planned)
    BY OnlyWritesIs
<1>3. PICK R : OnTrail(R, fs, call.todo, original, n, s, w) /\ Logs(R, journal, call, spent.faults)
    BY <1>2 DEF Inv, RunInv
<1>4. call.plan = planned /\ undone = FALSE /\ result = "none"
    BY DEF Inv, RunInv
<1>5. PICK x, S : Leads(i, Tail(call.todo), fs, R, x, S, w) /\ OnTrail(S, x, Tail(call.todo), original, n, s, w)
    BY <1>1, <1>3, TrailLeads
<1>6. x = fs' /\ S = R
    BY <1>5 DEF Leads, LogLeads, WriteLeads, CopyLeads, MoveLeads, PublishLeads
<1>7. Logs(R, journal', call', spent'.faults)
    BY <1>3 DEF Logs, SameCall, NextItem
<1> QED
    BY <1>2, <1>4, <1>5, <1>6, <1>7, RunKept DEF SameCall, NextItem

\* A temporary file is written.
LEMMA WriteTemporaryKeeps ==
    ASSUME Inv, Types', WriteTemporary
    PROVE  Inv'
<1>1. /\ InPhase("run") /\ call.todo # <<>> /\ call' = [call EXCEPT !.todo = Tail(@)] /\ journal' = journal
      /\ planned' = planned /\ original' = original /\ undone' = undone /\ result' = result /\ spent' = spent
    BY DEF WriteTemporary, Doing, Done
<1>2. spent.runs \in Nat /\ call.step \in Nat /\ call \in RunCalls(spent.runs, call.step)
    BY <1>1, RunItem DEF Inv
<1>3. NextItem(call', call, spent.runs, call.step, call.undo)
    BY <1>1, <1>2, CallGoesOn
<1>4. PICK i : i = Head(call.todo)
    OBVIOUS
<1>5. \/ i.do = "write" /\ fs' = With(fs, i.to, i.data)
      \/ i.do = "copy" /\ Has(fs, i.from) /\ fs' = With(fs, i.to, fs[i.from])
    BY <1>4 DEF WriteTemporary, Doing
<1>6. ~Impossible(i, fs) /\ i.do # "log"
    BY <1>5 DEF Impossible
<1> QED
    BY <1>1, <1>3, <1>4, <1>5, <1>6, PrimitiveKeeps

\* A file is moved, or replaces another.
LEMMA MoveOrReplaceKeeps ==
    ASSUME Inv, Types', MoveOrReplace
    PROVE  Inv'
<1>1. PICK i : i = Head(call.todo)
    OBVIOUS
<1>2. /\ InPhase("run") /\ call.todo # <<>> /\ call' = [[call EXCEPT !.todo = Tail(@)] EXCEPT !.later = @ \o i.later]
      /\ i.do \in {"move", "replace"} /\ MayMove(i) /\ fs' = Renamed(fs, i.from, i.to) /\ journal' = journal
      /\ planned' = planned /\ original' = original /\ undone' = undone /\ result' = result /\ spent' = spent
    BY <1>1 DEF MoveOrReplace, Doing, Done
<1>3. spent.runs \in Nat /\ call.step \in Nat /\ call \in RunCalls(spent.runs, call.step)
      /\ i \in Items(spent.runs, call.step)
    BY <1>1, <1>2, RunItem DEF Inv
<1>4. i.later \in Seq(Temps)
    BY <1>2, <1>3, ItemIs
<1>5. NextItem(call', call, spent.runs, call.step, call.undo)
    BY <1>2, <1>3, <1>4, CallMoves, Zenon
<1>6. ~Impossible(i, fs) /\ i.do # "log"
    BY <1>2 DEF Impossible, MayMove
<1> QED
    BY <1>1, <1>2, <1>5, <1>6, PrimitiveKeeps

\* The kinds of a journal with a record more, whole or cut.
LEMMA KindsMore ==
    ASSUME NEW n \in Nat, journal \in Seq(JournalRecords(n)), NEW r \in JournalRecords(n)
    PROVE  /\ Kinds(Append(journal, r)) = Kinds(journal) \cup {r.kind}
           /\ Kinds(Appended(r)) \subseteq Kinds(journal) \cup {r.kind, "TORN"}
           /\ \A j \in AfterFailedAppend(r) : Kinds(j) \subseteq Kinds(journal) \cup {r.kind, "TORN"}
<1>1. Kinds(Append(journal, r)) = Kinds(journal) \cup {r.kind}
  <2> DEFINE x == Append(journal, r)
             N == Len(journal)
  <2>1. N \in Nat /\ DOMAIN x = 1..N + 1 /\ DOMAIN journal = 1..N /\ x[N + 1] = r /\ \A i \in 1..N : x[i] = journal[i]
      OBVIOUS
  <2> HIDE DEF x
  <2>2. Kinds(x) = Kinds(journal) \cup {r.kind}
      BY <2>1 DEF Kinds
  <2> QED
      BY <2>2 DEF x
<1>2. \A c \in JournalRecords(n) : Kinds(Appended(c)) \subseteq Kinds(journal) \cup {c.kind, "TORN"}
    BY AppendedIs
<1>3. ASSUME NEW j \in AfterFailedAppend(r) PROVE Kinds(j) \subseteq Kinds(journal) \cup {r.kind, "TORN"}
  <2>1. j = journal \/ \E c \in JournalRecords(n) : (c = r \/ CutOf(c, r)) /\ j = Appended(c)
      BY FailedAppendIs
  <2>2. \A c : CutOf(c, r) => c.kind \in {r.kind, "TORN"}
      BY DEF CutOf
  <2> QED
      BY <1>2, <2>1, <2>2
<1> QED
    BY <1>1, <1>2, <1>3

\* What a failed append leaves of an undo record.
LEMMA LogFails ==
    ASSUME NEW n \in Nat, journal \in Seq(JournalRecords(n)), NEW R \in Seq(UndoRecords),
           Torn(journal) \/ (journal = R /\ \A i \in 1..Len(R) - 1 : R[i].ended),
           NEW r \in UndoRecords, r \in JournalRecords(n), NEW j \in AfterFailedAppend(r)
    PROVE  \/ Torn(j)
           \/ j = R /\ \A i \in 1..Len(R) - 1 : R[i].ended
           \/ Sealed(R) /\ \E e \in UndoRecords : (e = r \/ CutOf(e, r)) /\ j = Append(R, e)
<1>1. CASE j = journal
    BY <1>1
<1>2. ASSUME NEW e \in JournalRecords(n), e = r \/ CutOf(e, r), j = Appended(e), ~Torn(j)
      PROVE  Sealed(R) /\ e \in UndoRecords /\ j = Append(R, e)
  <2>1. journal = R /\ (\A i \in 1..Len(R) - 1 : R[i].ended) /\ j = Append(R, e) /\ (R = <<>> \/ Last(R).ended)
      BY <1>2, AppendedIs DEF Torn
  <2>2. e.kind # "TORN"
      BY <1>2, <2>1, KindsMore DEF Torn
  <2>3. e.kind = r.kind
      BY <1>2, <2>2 DEF CutOf
  <2>4. IsUndo(e)
      BY <2>3 DEF UndoRecords, IsRemove, IsMove, IsReplace, IsUndo
  <2>5. Sealed(R)
    <3>1. Len(R) \in Nat /\ (R = <<>> <=> Len(R) = 0)
        OBVIOUS
    <3> QED
        BY <2>1, <3>1 DEF Sealed, Last
  <2> QED
      BY <2>1, <2>4, <2>5 DEF JournalRecords
<1> QED
    BY <1>1, <1>2, FailedAppendIs

\* A primitive is refused, and the step with it.
EndsTrail(x, R, i, o, n, s, w) ==
    /\ LeadsBack(x, R, o, n, {}, w) /\ OnTrail(R, x, <<>>, o, n, s, w)
    /\ i.do = "log" /\ Sealed(R) =>
          \A c \in UndoRecords : (c = i.record \/ CutOf(c, i.record)) => OnTrail(Append(R, c), x, <<>>, o, n, s, w)

\* What was logged still leads back.
LEMMA TrailEnds ==
    ASSUME NEW n \in Nat, NEW s \in Nat, NEW todo \in Seq(Items(n, s)), todo # <<>>, NEW R \in Seq(UndoRecords),
           NEW f, NEW o,
           NEW w \in BOOLEAN, OnTrail(R, f, todo, o, n, s, w), NEW i, i = Head(todo),
           NEW x, x = RefusedAt(i, f)
    PROVE  EndsTrail(x, R, i, o, n, s, w)
<1>0. FailsBack(x, R, i, o, n, w)
    BY TrailFails, Zenon
<1>1. LeadsBack(x, R, o, n, {}, w)
    BY <1>0 DEF FailsBack
<1>2. i.do = "log" /\ Uncut(R) =>
        \A c \in UndoRecords : (c = i.record \/ CutOf(c, i.record)) =>
            LeadsBack(x, Append(R, c), o, n, {}, w) /\ Readable(Append(R, c))
    BY <1>0 DEF FailsBack
<1>3. /\ Readable(R)
      /\ \A k \in 1..Len(R) : PathsOf(R[k]) \subseteq Named(n, s) /\ (R[k].ended => PathsOf(R[k]) \cap CutPaths = {})
    BY DEF OnTrail
<1>4. i \in Items(n, s)
    OBVIOUS
<1>5. \A S : Ready(<<>>, x, S, w) /\ {} \subseteq Loose(<<>>)
    BY ReadyNothing
<1>6. OnTrail(R, x, <<>>, o, n, s, w)
    BY <1>1, <1>3, <1>5, LooserBack DEF OnTrail
<1>7. ASSUME i.do = "log", Sealed(R), NEW c \in UndoRecords, c = i.record \/ CutOf(c, i.record)
      PROVE  OnTrail(Append(R, c), x, <<>>, o, n, s, w)
  <2>1. Uncut(R)
      BY <1>3, <1>7 DEF Uncut, Sealed
  <2>2. LeadsBack(x, Append(R, c), o, n, {}, w) /\ Readable(Append(R, c))
      BY <1>2, <1>7, <2>1
  <2>3. PathsOf(c) \subseteq Named(n, s) /\ (c.ended => PathsOf(c) \cap CutPaths = {})
    <3>1. i.record \in UndoRecords /\ i.record.ended = TRUE /\ PathsOf(i.record) \subseteq Names(n, s)
        BY <1>4, <1>7, ItemIs DEF Logged, UndoRecords, Records
    <3>2. Names(n, s) \cap CutPaths = {} /\ Names(n, s) \subseteq Named(n, s) /\ CutPaths \subseteq Named(n, s)
        BY PathKinds, NamesAre, NamedMore DEF Names, Paths
    <3>3. ASSUME CutOf(c, i.record) PROVE ~c.ended /\ PathsOf(c) \subseteq PathsOf(i.record) \cup CutPaths
      <4>1. c.kind # "TORN"
          BY DEF UndoRecords, IsRemove, IsMove, IsReplace
      <4> QED
          BY <3>3, <4>1 DEF CutOf, PathsOf
    <3> QED
        BY <1>7, <3>1, <3>2, <3>3
  <2>4. \A k \in 1..Len(Append(R, c)) :
          /\ PathsOf(Append(R, c)[k]) \subseteq Named(n, s)
          /\ Append(R, c)[k].ended => PathsOf(Append(R, c)[k]) \cap CutPaths = {}
    <3> DEFINE S == Append(R, c)
    <3>1. Len(R) \in Nat /\ Len(S) = Len(R) + 1 /\ S[Len(R) + 1] = c /\ \A k \in 1..Len(R) : S[k] = R[k]
        OBVIOUS
    <3> HIDE DEF S
    <3>2. \A k \in 1..Len(S) : PathsOf(S[k]) \subseteq Named(n, s) /\ (S[k].ended => PathsOf(S[k]) \cap CutPaths = {})
        BY <1>3, <2>3, <3>1
    <3> QED
        BY <3>2 DEF S
  <2>5. Append(R, c) \in Seq(UndoRecords)
      OBVIOUS
  <2> QED
      BY <1>5, <2>2, <2>4, <2>5, LooserBack DEF OnTrail
<1> QED
    BY <1>1, <1>6, <1>7 DEF EndsTrail

\* The rollback begins with the records the run has logged.
LEMMA UndoLogStarts ==
    ASSUME NEW n \in Nat, NEW R \in Seq(UndoRecords), Readable(R), NEW c, c.todo = R, c.ok = TRUE,
           NEW j, "RESTORED" \notin Kinds(j), NEW faults, faults = 0 => j = R /\ Sealed(R) /\ Uncut(R)
    PROVE  UndoLog(c, j, faults)
<1>1. Reads(R) /\ "COMMIT" \notin Kinds(R)
    BY ReadableReads
<1>2. \A i \in DOMAIN j : j[i].kind # "RESTORED"
    BY DEF Kinds
<1> QED
    BY <1>1, <1>2 DEF UndoLog

\* A primitive is refused: the batch is rolled back, or the next step follows.
LEMMA StepFailsKeeps ==
    ASSUME Inv, Types', StepFails
    PROVE  Inv'
<1> DEFINE n == spent.runs
           s == call.step
<1>1. PICK i : i = Head(call.todo)
    OBVIOUS
<1>2. /\ InPhase("run") /\ call.todo # <<>> /\ planned' = planned /\ original' = original /\ result' = result
      /\ journal' \in IF i.do = "log" THEN AfterFailedAppend(i.record) ELSE {journal}
      /\ (spent' = spent /\ i.do # "log") \/ spent' = SpentOne("faults")
    BY <1>1 DEF StepFails
<1>3. PICK x : x = fs' /\ x = RefusedAt(i, fs)
    BY <1>1 DEF StepFails, RefusedAt
<1>4. /\ n \in Nat /\ s \in Nat /\ RunFields(call, n, s) /\ call \in RunCalls(n, s)
      /\ journal \in Seq(JournalRecords(n)) /\ i \in Items(n, s)
    BY <1>1, <1>2, RunItem DEF Inv
<1>5. spent'.runs = n /\ spent'.faults \in Nat /\ (spent'.faults = 0 => i.do # "log" /\ spent.faults = 0)
  <2>1. HistoryTypes /\ spent.faults \in Nat
      BY SpentTypes DEF Inv, Types
  <2>2. spent' = SpentOne("faults") => spent'.runs = n /\ spent'.faults = spent.faults + 1
      BY <2>1, SpentTypes
  <2> QED
      BY <1>2, <2>1, <2>2
<1>6. PICK w \in BOOLEAN : w = OnlyWrites(planned)
    BY OnlyWritesIs
<1>7. PICK R \in Seq(UndoRecords) : OnTrail(R, fs, call.todo, original, n, s, w) /\ Logs(R, journal, call, spent.faults)
  <2>1. PICK R : OnTrail(R, fs, call.todo, original, n, s, w) /\ Logs(R, journal, call, spent.faults)
      BY <1>2, <1>6 DEF Inv, RunInv
  <2> QED
      BY <2>1 DEF OnTrail
<1>8. call.plan = planned /\ undone = FALSE /\ result = "none"
    BY <1>2 DEF Inv, RunInv
<1>9. call.todo \in Seq(Items(n, s))
    BY <1>4 DEF RunFields
<1>10. EndsTrail(x, R, i, original, n, s, w)
    BY <1>1, <1>2, <1>3, <1>4, <1>7, <1>9, TrailEnds, Zenon
<1>11. LeadsBack(x, R, original, n, {}, w) /\ OnTrail(R, x, <<>>, original, n, s, w)
    BY <1>10 DEF EndsTrail
<1>12. i.do = "log" => i.record \in UndoRecords /\ i.record \in JournalRecords(n)
    BY <1>4, ItemIs, UsedMore DEF Logged
<1>13. Readable(R) /\ \A k \in 1..Len(R) : R[k].ended => PathsOf(R[k]) \cap CutPaths = {}
    BY <1>7 DEF OnTrail
<1>14. CASE call.failFast
  <2>1. call' = UndoCall("rollback", call.undo, call.mode, FALSE) /\ undone' = TRUE
      BY <1>14 DEF StepFails
  <2>2. call.failFast = TRUE
      BY <1>4, <1>14, OptionAssumption DEF RunFields
  <2>3. call.failed = FALSE /\ journal = R /\ Sealed(R) /\ call.undo = R
      BY <1>7, <2>2 DEF Logs
  <2>4. /\ call'.phase = "rollback" /\ call'.todo = R /\ call'.at = "check" /\ call'.blocked = {} /\ call'.ok = TRUE
        /\ call'.again = FALSE
      BY <2>1, <2>3 DEF UndoCall
  <2>5. "RESTORED" \notin Kinds(journal')
    <3>1. "RESTORED" \notin Kinds(R)
        BY <1>13, ReadableReads DEF Kinds
    <3>2. ASSUME i.do = "log" PROVE "RESTORED" \notin Kinds(journal')
      <4>1. Kinds(journal') \subseteq Kinds(journal) \cup {i.record.kind, "TORN"}
          BY <1>2, <1>4, <1>12, <3>2, KindsMore
      <4>2. i.record.kind # "RESTORED"
          BY <1>12, <3>2 DEF UndoRecords, IsRemove, IsMove, IsReplace
      <4> QED
          BY <2>3, <3>1, <4>1, <4>2
    <3> QED
        BY <1>2, <2>3, <3>1, <3>2
  <2>6. spent'.faults = 0 => journal' = R /\ Sealed(R) /\ Uncut(R)
      BY <1>2, <1>5, <1>13, <2>3 DEF Sealed, Uncut
  <2>7. UndoLog(call', journal', spent'.faults)
      BY <1>4, <1>13, <2>4, <2>5, <2>6, UndoLogStarts
  <2>8. UndoTrail(x, {}, x, call', original, n, w)
    <3>1. x \in Dirs /\ (w => Targets(x, original)) /\ Meets(x, x, {})
        BY <1>11, BackIs, MeetsItself
    <3> QED
        BY <1>11, <2>4, <3>1 DEF UndoTrail
  <2>9. UndoTrail(x, {}, fs', call', original', spent'.runs, OnlyWrites(planned'))
      BY <1>2, <1>3, <1>5, <1>6, <2>8
  <2> QED
      BY <1>2, <1>8, <2>1, <2>4, <2>7, <2>9, UndoKept
<1>15. CASE ~call.failFast
  <2>1. call' = [call EXCEPT !.todo = <<>>, !.failed = TRUE] /\ undone' = FALSE
      BY <1>8, <1>15 DEF StepFails
  <2>2. SameCall(call', call, n, s) /\ call'.todo = <<>> /\ call'.failed = TRUE
    <3>1. StepOver(call', call, n, s)
        BY <1>4, <2>1, CallFails, Zenon
    <3> QED
        BY <3>1 DEF StepOver
  <2>3. call'.failFast # TRUE
      BY <1>15, <2>2 DEF SameCall
  <2>4. Torn(journal) \/ (journal = R /\ \A k \in 1..Len(R) - 1 : R[k].ended)
      BY <1>7 DEF Logs
  <2>5. spent'.faults = 0 => journal' = R /\ Sealed(R)
    <3>1. spent.faults = 0 => journal = R /\ Sealed(R)
        BY <1>7 DEF Logs
    <3> QED
        BY <1>2, <1>5, <3>1
  <2>6. \/ /\ Torn(journal') \/ (journal' = R /\ \A k \in 1..Len(R) - 1 : R[k].ended)
        \/ i.do = "log" /\ Sealed(R) /\ \E e \in UndoRecords : (e = i.record \/ CutOf(e, i.record)) /\ journal' = Append(R, e)
    <3>1. CASE i.do # "log"
        BY <1>2, <2>4, <3>1
    <3>2. CASE i.do = "log"
      <4>1. journal' \in AfterFailedAppend(i.record)
          BY <1>2, <3>2
      <4> QED
          BY <1>4, <1>12, <2>4, <3>2, <4>1, LogFails
    <3> QED
        BY <3>1, <3>2
  <2>7. CASE Torn(journal') \/ (journal' = R /\ \A k \in 1..Len(R) - 1 : R[k].ended)
    <3>1. Logs(R, journal', call', spent'.faults)
        BY <2>2, <2>3, <2>5, <2>7 DEF Logs
    <3> QED
        BY <1>2, <1>3, <1>5, <1>6, <1>8, <1>11, <2>1, <2>2, <3>1, RunKept DEF SameCall
  <2>8. CASE i.do = "log" /\ Sealed(R) /\ \E e \in UndoRecords : (e = i.record \/ CutOf(e, i.record)) /\ journal' = Append(R, e)
    <3>1. PICK e \in UndoRecords : (e = i.record \/ CutOf(e, i.record)) /\ journal' = Append(R, e)
        BY <2>8
    <3>2. i.do = "log" /\ Sealed(R) =>
            \A c \in UndoRecords : (c = i.record \/ CutOf(c, i.record)) =>
                OnTrail(Append(R, c), x, <<>>, original, n, s, w)
        BY <1>10 DEF EndsTrail
    <3>3. OnTrail(Append(R, e), x, <<>>, original, n, s, w)
        BY <2>8, <3>1, <3>2
    <3>4. spent'.faults # 0
        BY <1>5, <2>8
    <3>5. \A k \in 1..Len(Append(R, e)) - 1 : Append(R, e)[k].ended
        BY <2>8 DEF Sealed
    <3>6. Logs(Append(R, e), journal', call', spent'.faults)
        BY <2>2, <2>3, <3>1, <3>4, <3>5 DEF Logs
    <3> QED
        BY <1>2, <1>3, <1>5, <1>6, <1>8, <2>1, <2>2, <3>3, <3>6, RunKept DEF SameCall
  <2> QED
      BY <2>6, <2>7, <2>8
<1> QED
    BY <1>14, <1>15

\* The file that is there and that no record names is one, if there is one.
LEMMA SpareIs ==
    ASSUME NEW todo
    PROVE  Spare(Loose(todo)) /\ Spare({})
<1>1. \A p, q : RemoveRecord(p) = RemoveRecord(q) => p = q
    BY DEF RemoveRecord, Record
<1>2. \A p, q : Log(RemoveRecord(p)) = Log(RemoveRecord(q)) => p = q
  <2>1. \A r, t : Log(r) = Log(t) => r = t
      BY DEF Log
  <2> QED
      BY <1>1, <2>1
<1>3. \A t \in Loose(todo) : t.tag \in {"new", "copy"} /\ Loose(todo) = {t}
    BY <1>2 DEF Loose
<1> QED
    BY <1>3 DEF Spare

\* What a run has logged when it stops.
LEMMA RunStands ==
    ASSUME Inv, InPhase("run"), NEW w \in BOOLEAN, w = OnlyWrites(planned)
    PROVE  /\ Kept(fs, original) /\ (w => Targets(fs, original)) /\ (spent.faults = 0 => Reads(journal))
           /\ IsOpen(journal) => Resumable(journal, fs, original, spent.runs, spent.faults, w)
           /\ call.failed = FALSE =>
                 /\ journal \in Seq(UndoRecords) /\ Readable(journal) /\ Sealed(journal)
                 /\ Resumable(journal, fs, original, spent.runs, spent.faults, w)
<1>1. PICK R : OnTrail(R, fs, call.todo, original, spent.runs, call.step, w) /\ Logs(R, journal, call, spent.faults)
    BY DEF Inv, RunInv
<1>2. /\ R \in Seq(UndoRecords) /\ Readable(R) /\ LeadsBack(fs, R, original, spent.runs, Loose(call.todo), w)
      /\ \A i \in 1..Len(R) : R[i].ended => PathsOf(R[i]) \cap CutPaths = {}
    BY <1>1 DEF OnTrail
<1>3. Kept(fs, original) /\ (w => Targets(fs, original)) /\ Reads(R)
    BY <1>2, BackIs, BackKeeps, ReadableReads
<1>4. journal = R => Resumable(journal, fs, original, spent.runs, spent.faults, w)
  <2> SUFFICES ASSUME journal = R PROVE Resumable(R, fs, original, spent.runs, spent.faults, w)
      OBVIOUS
  <2>1. spent.faults = 0 => Sealed(R) /\ Uncut(R)
      BY <1>1, <1>2 DEF Logs, Sealed, Uncut
  <2> QED
      BY <1>2, <2>1, SpareIs DEF Resumable
<1>5. IsOpen(journal) => journal = R
    BY <1>1 DEF IsOpen, Logs
<1>6. call.failed = FALSE \/ spent.faults = 0 => journal = R /\ Sealed(R)
    BY <1>1 DEF Logs
<1> QED
    BY <1>2, <1>3, <1>4, <1>5, <1>6

\* A run ends without COMMIT, or the process stops.
LEMMA RunStops ==
    ASSUME Inv, Types', InPhase("run"), call'.phase = "idle", fs' = fs, journal' = journal, planned' = planned,
           original' = original, result' \in {"failed", "crashed"},
           spent'.runs = spent.runs, spent'.faults = spent.faults
    PROVE  Inv'
<1>1. PICK w \in BOOLEAN : w = OnlyWrites(planned)
    BY OnlyWritesIs
<1>2. /\ Kept(fs, original) /\ (w => Targets(fs, original)) /\ (spent.faults = 0 => Reads(journal))
      /\ IsOpen(journal) => Resumable(journal, fs, original, spent.runs, spent.faults, w)
    BY <1>1, RunStands
<1>3. Safe'
    BY <1>1, <1>2 DEF Safe
<1> QED
    BY <1>1, <1>2, <1>3, IdleKept

\* A step has failed, and the others are done: the journal stays unfinished.
LEMMA EndFailedKeeps ==
    ASSUME Inv, Types', EndFailed
    PROVE  Inv'
<1>1. /\ InPhase("run") /\ call' = Idle /\ fs' = fs /\ journal' = journal /\ planned' = planned
      /\ original' = original /\ result' = "failed" /\ spent' = spent
    BY DEF EndFailed, StepsDone, Return
<1>2. call'.phase = "idle"
    BY <1>1 DEF Idle
<1> QED
    BY <1>1, <1>2, RunStops

\* COMMIT makes the journal of a run a committed one.
LEMMA Commits ==
    ASSUME NEW n \in Nat, journal \in Seq(JournalRecords(n)), journal \in Seq(UndoRecords), Readable(journal),
           Sealed(journal)
    PROVE  /\ HasCommit(Appended(CommitRecord)) /\ Reads(Appended(CommitRecord))
           /\ \A j \in AfterFailedAppend(CommitRecord) : j = journal \/ HasCommit(j) \/ Torn(j)
<1>1. ~Torn(journal) /\ Reads(Append(journal, CommitRecord))
    BY ReadableReads DEF Torn
<1>2. CommitRecord \in JournalRecords(n) /\ CommitRecord.kind = "COMMIT"
    BY OtherRecords DEF CommitRecord, Record
<1>3. ASSUME NEW c \in JournalRecords(n) PROVE Appended(c) = Append(journal, c) /\ Appended(c) # NoJournal
  <2>1. journal = <<>> \/ Last(journal).ended
    <3>1. Len(journal) \in Nat /\ (journal = <<>> <=> Len(journal) = 0)
        OBVIOUS
    <3> QED
        BY <3>1 DEF Sealed, Last
  <2>2. Appended(c) \in Seq(JournalRecords(n)) /\ Appended(c) = Append(journal, c)
      BY <2>1, AppendedIs
  <2>3. JournalRecords(n) \subseteq Records
      BY DEF JournalRecords
  <2>4. Seq(JournalRecords(n)) \subseteq Seq(Records)
      BY <2>3, SeqMonotonic
  <2> QED
      BY <2>2, <2>4, NoRecords
<1>4. ASSUME NEW c \in JournalRecords(n), c.kind \in {"COMMIT", "TORN"} PROVE HasCommit(Appended(c)) \/ Torn(Appended(c))
  <2>1. Kinds(Appended(c)) = Kinds(journal) \cup {c.kind}
      BY <1>3, KindsMore
  <2> QED
      BY <1>3, <1>4, <2>1 DEF HasCommit, Torn
<1>5. HasCommit(Appended(CommitRecord))
  <2>1. Kinds(Appended(CommitRecord)) = Kinds(journal) \cup {"COMMIT"}
      BY <1>2, <1>3, KindsMore
  <2> QED
      BY <1>1, <1>2, <1>3, <2>1 DEF HasCommit, Torn
<1>6. ASSUME NEW j \in AfterFailedAppend(CommitRecord) PROVE j = journal \/ HasCommit(j) \/ Torn(j)
  <2>1. j = journal \/ \E c \in JournalRecords(n) : (c = CommitRecord \/ CutOf(c, CommitRecord)) /\ j = Appended(c)
      BY <1>2, FailedAppendIs
  <2>2. \A c : CutOf(c, CommitRecord) => c.kind \in {"COMMIT", "TORN"}
      BY <1>2 DEF CutOf
  <2> QED
      BY <1>2, <1>4, <2>1, <2>2
<1> QED
    BY <1>1, <1>2, <1>3, <1>5, <1>6

\* The batch is committed.
LEMMA CommitKeeps ==
    ASSUME Inv, Types', Commit
    PROVE  Inv'
<1>1. /\ InPhase("run") /\ ~call.failed /\ fs' = fs /\ journal' = Appended(CommitRecord) /\ planned' = planned
      /\ original' = original /\ undone' = undone /\ result' = result /\ spent' = spent
      /\ call' = [phase |-> "cleanup", later |-> call.later]
    BY DEF Commit, StepsDone
<1>2. spent.runs \in Nat /\ journal \in Seq(JournalRecords(spent.runs)) /\ call.failed = FALSE
    BY <1>1, RunItem DEF Inv, RunFields
<1>3. PICK w \in BOOLEAN : w = OnlyWrites(planned)
    BY OnlyWritesIs
<1>4. (w => Targets(fs, original)) /\ journal \in Seq(UndoRecords) /\ Readable(journal) /\ Sealed(journal)
    BY <1>1, <1>2, <1>3, RunStands
<1>5. HasCommit(journal') /\ Reads(journal')
    BY <1>1, <1>2, <1>4, Commits
<1>6. result = "none"
    BY <1>1 DEF Inv, RunInv
<1>7. Safe'
    BY <1>1, <1>3, <1>4, <1>5, <1>6 DEF Safe
<1> QED
    BY <1>1, <1>5, <1>6, <1>7 DEF Inv, RunInv, IdleInv, CleanupInv, UndoInv, InPhase, Undoing

\* COMMIT is refused: the journal decides whether the batch can still be undone.
LEMMA CommitFailsKeeps ==
    ASSUME Inv, Types', CommitFails
    PROVE  Inv'
<1>1. /\ InPhase("run") /\ ~call.failed /\ fs' = fs /\ journal' \in AfterFailedAppend(CommitRecord)
      /\ planned' = planned /\ original' = original /\ undone' = undone /\ result' = "failed"
      /\ spent' = SpentOne("faults") /\ call' = Idle
    BY DEF CommitFails, StepsDone, Return
<1>2. spent.runs \in Nat /\ journal \in Seq(JournalRecords(spent.runs)) /\ call.failed = FALSE
    BY <1>1, RunItem DEF Inv, RunFields
<1>3. PICK w \in BOOLEAN : w = OnlyWrites(planned)
    BY OnlyWritesIs
<1>4. /\ Kept(fs, original) /\ (w => Targets(fs, original)) /\ journal \in Seq(UndoRecords) /\ Readable(journal)
      /\ Sealed(journal) /\ Resumable(journal, fs, original, spent.runs, spent.faults, w)
    BY <1>1, <1>2, <1>3, RunStands
<1>5. journal' = journal \/ ~IsOpen(journal')
    BY <1>1, <1>2, <1>4, Commits DEF HasCommit, IsOpen
<1>6. spent'.runs = spent.runs /\ spent'.faults # 0
  <2>1. HistoryTypes /\ spent.faults \in Nat
      BY SpentTypes DEF Inv, Types
  <2>2. spent'.runs = spent.runs /\ spent'.faults = spent.faults + 1
      BY <1>1, <2>1, SpentTypes
  <2> QED
      BY <2>1, <2>2
<1>7. Resumable(journal, fs, original, spent.runs, spent'.faults, w)
    BY <1>4, <1>6 DEF Resumable
<1>8. Safe'
    BY <1>1, <1>3, <1>4, <1>6 DEF Safe
<1>9. call'.phase = "idle"
    BY <1>1 DEF Idle
<1>10. IsOpen(journal') => Resumable(journal', fs', original', spent'.runs, spent'.faults, OnlyWrites(planned'))
    BY <1>1, <1>3, <1>5, <1>6, <1>7
<1> QED
    BY <1>1, <1>8, <1>9, <1>10, IdleKept

\* What the batch set aside is removed, if it can be.
LEMMA CleanupKeeps ==
    ASSUME Inv, Types', Cleanup
    PROVE  Inv'
<1>1. /\ InPhase("cleanup") /\ call.later # <<>> /\ call' = [call EXCEPT !.later = Tail(@)] /\ journal' = journal
      /\ planned' = planned /\ original' = original /\ undone' = undone /\ result' = result
      /\ fs' \in {fs, Without(fs, Head(call.later))} /\ (spent' = spent \/ spent' = SpentOne("faults"))
    BY DEF Cleanup
<1>2. HasCommit(journal) /\ result = "none" /\ Safe
    BY <1>1 DEF Inv, CleanupInv
<1>3. call'.phase = "cleanup" /\ Head(call.later) \in Temps
  <2>1. call \in CleanupCalls
      BY <1>1 DEF Inv, Types, CallTypes
  <2> QED
      BY <1>1, <2>1 DEF CleanupCalls
<1>4. spent'.faults = 0 => spent.faults = 0
  <2>1. HistoryTypes /\ spent.faults \in Nat
      BY SpentTypes DEF Inv, Types
  <2>2. spent' = SpentOne("faults") => spent'.faults = spent.faults + 1
      BY <2>1, SpentTypes
  <2> QED
      BY <1>1, <2>1, <2>2
<1>5. Targets(fs, original) => Targets(fs', original)
  <2>1. fs \in Dirs
      BY DEF Inv, Types, FileTypes
  <2>2. Head(call.later) \notin Files
      BY <1>3, PathKinds DEF UserPaths
  <2>3. IsWithout(Without(fs, Head(call.later)), fs, Head(call.later))
      BY <2>1, WithoutIs
  <2> QED
      BY <1>1, <2>2, <2>3 DEF Targets, IsWithout, Has
<1>6. Safe'
    BY <1>1, <1>2, <1>4, <1>5 DEF Safe
<1> QED
    BY <1>1, <1>2, <1>3, <1>6 DEF Inv, RunInv, IdleInv, CleanupInv, UndoInv, InPhase, Undoing

\* The committed run is over.
LEMMA EndCommittedKeeps ==
    ASSUME Inv, Types', EndCommitted
    PROVE  Inv'
<1>1. /\ InPhase("cleanup") /\ call' = Idle /\ journal' \in {journal, NoJournal} /\ result' = "ok" /\ fs' = fs
      /\ planned' = planned /\ original' = original /\ undone' = undone /\ spent' = spent
    BY DEF EndCommitted, Return
<1>2. HasCommit(journal) /\ result = "none" /\ Safe
    BY <1>1 DEF Inv, CleanupInv
<1>3. ~IsOpen(journal')
    BY <1>1, <1>2 DEF HasCommit, IsOpen
<1>4. Safe'
    BY <1>1, <1>2 DEF Safe
<1>5. call'.phase = "idle"
    BY <1>1 DEF Idle
<1> QED
    BY <1>1, <1>3, <1>4, <1>5, IdleKept

\* The process stops, in a run, in the cleanup after it or in the undo of it.
LEMMA CrashKeeps ==
    ASSUME Inv, Types', Crash
    PROVE  Inv'
<1>1. /\ ~InPhase("idle") /\ (Undoing => planned \in Retried) /\ call' = Idle /\ result' = "crashed" /\ fs' = fs
      /\ journal' = journal /\ planned' = planned /\ original' = original /\ undone' = undone
      /\ spent' = SpentOne("crashes")
    BY DEF Crash, Return
<1>2. call'.phase = "idle" /\ spent'.runs = spent.runs /\ spent'.faults = spent.faults
  <2>1. HistoryTypes
      BY DEF Inv, Types
  <2> QED
      BY <1>1, <2>1, SpentTypes DEF Idle
<1>3. CASE InPhase("run")
    BY <1>1, <1>2, <1>3, RunStops
<1>4. CASE InPhase("cleanup")
  <2>1. HasCommit(journal) /\ Safe
      BY <1>4 DEF Inv, CleanupInv
  <2>2. ~IsOpen(journal')
      BY <1>1, <2>1 DEF HasCommit, IsOpen
  <2>3. Safe'
      BY <1>1, <1>2, <2>1 DEF Safe
  <2> QED
      BY <1>1, <1>2, <2>2, <2>3, IdleKept
<1>5. CASE Undoing
  <2>1. undone = TRUE /\ Retried # {}
      BY <1>1, <1>5 DEF Inv, UndoInv
  <2>2. Safe'
      BY <2>1 DEF Safe
  <2> QED
      BY <1>1, <1>2, <2>1, <2>2, IdleKept
<1> QED
    BY <1>1, <1>3, <1>4, <1>5 DEF Inv, Types, CallTypes, InPhase, Undoing

\* Recovery begins with the undo records of the journal.
LEMMA RecoverKeeps ==
    ASSUME Inv, Types', RecoverFromJournal
    PROVE  Inv'
<1>1. /\ InPhase("idle") /\ Unfinished /\ (undone => planned \in Retried) /\ undone' = TRUE
      /\ call' = UndoCall("recover", Undos, "Strict", undone) /\ fs' = fs /\ journal' = journal
      /\ planned' = planned /\ original' = original /\ result' = result /\ spent' = spent
    BY DEF RecoverFromJournal
<1>2. /\ call'.phase = "recover" /\ call'.todo = Undos /\ call'.at = "check" /\ call'.blocked = {} /\ call'.ok = TRUE
      /\ call'.again = undone
    BY <1>1 DEF UndoCall
<1>3. CASE undone = TRUE
    BY <1>1, <1>2, <1>3, AgainKept
<1>4. CASE undone = FALSE
  <2>1. PICK w \in BOOLEAN : w = OnlyWrites(planned)
      BY OnlyWritesIs
  <2>2. IsOpen(journal)
      BY <1>1 DEF Unfinished, Missing, Malformed, Committed, IsOpen, Torn
  <2>3. Resumable(journal, fs, original, spent.runs, spent.faults, w)
      BY <1>1, <1>4, <2>1, <2>2 DEF Inv, IdleInv
  <2>4. PICK J : /\ journal \in Seq(UndoRecords) /\ Readable(journal) /\ Spare(J)
                 /\ (spent.faults = 0 => Sealed(journal) /\ Uncut(journal))
                 /\ LeadsBack(fs, journal, original, spent.runs, J, w)
      BY <2>3 DEF Resumable
  <2>5. Undos = journal
    <3>1. spent.runs \in Nat /\ journal \in Seq(JournalRecords(spent.runs))
        BY <1>1, SpentTypes DEF Inv, Types, JournalTypes, Unfinished, Missing
    <3> QED
        BY <2>4, <3>1, UndosAre
  <2>6. UndoLog(call', journal', spent'.faults)
    <3>1. "RESTORED" \notin Kinds(journal)
        BY <2>4, ReadableReads DEF Kinds
    <3>2. spent.runs \in Nat
        BY SpentTypes DEF Inv, Types
    <3> QED
        BY <1>1, <1>2, <2>4, <2>5, <3>1, <3>2, UndoLogStarts
  <2>7. UndoTrail(fs, J, fs, call', original, spent.runs, w)
    <3>1. fs \in Dirs /\ (w => Targets(fs, original)) /\ Meets(fs, fs, {})
        BY <2>4, BackIs, MeetsItself
    <3> QED
        BY <1>2, <2>4, <2>5, <3>1 DEF UndoTrail
  <2>8. UndoTrail(fs, J, fs', call', original', spent'.runs, OnlyWrites(planned'))
      BY <1>1, <2>1, <2>7
  <2>9. Retried = {} /\ spent'.faults = 0 => result' # "stuck"
      BY <1>1 DEF Inv, Safe
  <2> QED
      BY <1>1, <1>2, <1>4, <2>6, <2>8, <2>9, UndoKept
<1> QED
    BY <1>1, <1>3, <1>4 DEF Inv, Types, HistoryTypes

------------------------------------------------------------------------------
(* The undo loop keeps it. *)

\* Nothing is said of an undo that is tried again.
LEMMA AgainGoesOn ==
    ASSUME Inv, Types', Undoing, call.again # FALSE, SameUndo(call', call, spent.runs), undone' = undone
    PROVE  Inv'
<1>1. call.phase = "recover" /\ Retried # {} /\ undone = TRUE
    BY DEF Inv, UndoInv, Undoing
<1>2. call.again = TRUE
    BY UndoItem DEF Inv, UndoCalls
<1> QED
    BY <1>1, <1>2, AgainKept DEF SameUndo

\* A first undo.
LEMMA UndoStands ==
    ASSUME Inv, Undoing, call.again = FALSE, NEW w \in BOOLEAN, w = OnlyWrites(planned)
    PROVE  /\ UndoLog(call, journal, spent.faults) /\ undone = TRUE
           /\ \E X, J : UndoTrail(X, J, fs, call, original, spent.runs, w)
           /\ Retried = {} /\ spent.faults = 0 => result # "stuck"
BY DEF Inv, UndoInv, Safe

\* The record that is undone next, and where its undo leads.
LEMMA UndoLeads ==
    ASSUME NEW n \in Nat, NEW c \in UndoCalls(n), c.todo # <<>>, NEW X, NEW J, NEW f, NEW o, NEW w \in BOOLEAN,
           UndoTrail(X, J, f, c, o, n, w), c.at # "mark", NEW u, u = Last(c.todo)
    PROVE  /\ u \in UndoRecords /\ X \in Dirs
           /\ \E g \in Dirs : StepsBack(u, g, X) /\ LeadsBack(g, Front(c.todo), o, n, J, w) /\ (w => Targets(g, o))
<1>1. c.todo \in Seq(UndoRecords)
    BY TodoIs
<1>2. LeadsBack(X, c.todo, o, n, J, w) /\ X \in Dirs
    BY DEF UndoTrail
<1>3. Front(c.todo) \in Seq(UndoRecords) /\ u \in UndoRecords
    BY <1>1, FrontAndLast
<1>4. PICK g \in Dirs : StepsBack(u, g, X) /\ LeadsBack(g, Front(c.todo), o, n, J, w)
    BY <1>1, <1>2, OneLess
<1>5. w => Targets(g, o)
    BY <1>3, <1>4, BackIs
<1> QED
    BY <1>2, <1>3, <1>4, <1>5

\* The RESTORED records of k are those of j and the one for u.
Marks(k, j, u) ==
    \A i \in DOMAIN k : k[i].kind = "RESTORED" =>
        \/ u.kind = "REPLACE" /\ k[i].from = u.from
        \/ \E m \in DOMAIN j : j[m].kind = "RESTORED" /\ j[m].from = k[i].from

\* No record that is left to undo is marked, after the last one has been.
LEMMA UndoLogLess ==
    ASSUME NEW n \in Nat, NEW c \in UndoCalls(n), c.todo # <<>>, NEW j, NEW faults, UndoLog(c, j, faults),
           NEW d, d.todo = Front(c.todo), NEW k, Marks(k, j, Last(c.todo)), NEW more,
           more = 0 => /\ faults = 0 /\ d.ok = c.ok /\ Sealed(k) /\ "COMMIT" \notin Kinds(k) /\ Reads(k)
                       /\ \A i \in DOMAIN j : \E m \in DOMAIN k : k[m] = j[i]
    PROVE  UndoLog(d, k, more)
<1> DEFINE R == c.todo
           S == Front(c.todo)
           N == Len(c.todo)
<1>1. R \in Seq(Undoable(n))
    BY DEF UndoCalls
<1>2. N \in Nat \ {0} /\ S \in Seq(Undoable(n)) /\ Len(S) = N - 1 /\ Last(R) = R[N] /\ \A i \in 1..N - 1 : S[i] = R[i]
    BY <1>1, FrontAndLast
<1>3. DOMAIN R = 1..N /\ DOMAIN S = 1..N - 1 /\ N \in 1..N /\ \A i \in 1..N - 1 : i \in 1..N /\ S[i] = R[i]
    BY <1>1, <1>2
<1> HIDE DEF S
<1>4. Readable(S)
  <2>1. ASSUME NEW i \in 1..N - 1, S[i].kind = "REPLACE"
        PROVE  /\ \A p \in {S[i].from, S[i].witness, S[i].staging} : \E m \in 1..i - 1 : S[m] = RemoveRecord(p)
               /\ \A m \in 1..i - 1 : S[m].kind = "REPLACE" => S[m].from # S[i].from
    <3>1. i \in 1..N /\ S[i] = R[i] /\ \A m \in 1..i - 1 : S[m] = R[m]
      <4>1. \A m \in 1..i - 1 : m \in 1..N - 1
          BY <1>2
      <4> QED
          BY <1>3, <4>1
    <3>2. /\ \A p \in {R[i].from, R[i].witness, R[i].staging} : \E m \in 1..i - 1 : R[m] = RemoveRecord(p)
          /\ \A m \in 1..i - 1 : R[m].kind = "REPLACE" => R[m].from # R[i].from
      <4>1. Readable(R)
          BY DEF UndoLog
      <4> QED
          BY <2>1, <3>1, <4>1 DEF Readable
    <3> QED
        BY <3>1, <3>2
  <2> QED
      BY <1>2, <2>1 DEF Readable
<1>5. ASSUME NEW i \in DOMAIN k, NEW m \in 1..N - 1, k[i].kind = "RESTORED", S[m].kind = "REPLACE"
      PROVE  k[i].from # S[m].from
  <2>1. CASE R[N].kind = "REPLACE" /\ k[i].from = R[N].from
    <3>1. R[m].from # R[N].from
        BY <1>2, <1>3, <1>5, <2>1 DEF UndoLog, Readable
    <3> QED
        BY <1>3, <2>1, <3>1
  <2>2. CASE \E l \in DOMAIN j : j[l].kind = "RESTORED" /\ j[l].from = k[i].from
    <3>1. PICK l \in DOMAIN j : j[l].kind = "RESTORED" /\ j[l].from = k[i].from
        BY <2>2
    <3>2. m \in DOMAIN R /\ R[m].kind = "REPLACE" /\ R[m] = S[m]
        BY <1>3, <1>5
    <3>3. \A x \in DOMAIN j, y \in DOMAIN R : j[x].kind = "RESTORED" /\ R[y].kind = "REPLACE" => j[x].from # R[y].from
        BY DEF UndoLog
    <3>4. j[l].from # R[m].from
        BY <3>1, <3>2, <3>3
    <3> QED
        BY <3>1, <3>2, <3>4
  <2> QED
      BY <1>2, <1>5, <2>1, <2>2 DEF Marks
<1>6. ASSUME more = 0
      PROVE  /\ d.ok = TRUE /\ Uncut(S) /\ Sealed(k) /\ "COMMIT" \notin Kinds(k) /\ Reads(k)
             /\ \A m \in 1..N - 1 : S[m].kind = "REPLACE" => \E i \in DOMAIN k : k[i] = S[m]
  <2>1. c.ok = TRUE /\ Uncut(R) /\ \A m \in DOMAIN R : R[m].kind = "REPLACE" => \E i \in DOMAIN j : j[i] = R[m]
      BY <1>6 DEF UndoLog
  <2>2. Uncut(S)
      BY <1>2, <1>3, <2>1 DEF Uncut
  <2>3. ASSUME NEW m \in 1..N - 1, S[m].kind = "REPLACE" PROVE \E i \in DOMAIN k : k[i] = S[m]
    <3>1. m \in DOMAIN R /\ R[m] = S[m]
        BY <1>3
    <3>2. PICK i \in DOMAIN j : j[i] = S[m]
        BY <2>1, <2>3, <3>1
    <3> QED
        BY <1>6, <3>2
  <2> QED
      BY <1>6, <2>1, <2>2, <2>3
<1>7. d.todo = S
    BY DEF S
<1>8. \A i \in DOMAIN k, m \in DOMAIN d.todo :
        k[i].kind = "RESTORED" /\ d.todo[m].kind = "REPLACE" => k[i].from # d.todo[m].from
    BY <1>3, <1>5, <1>7
<1>9. more = 0 =>
        /\ d.ok = TRUE /\ Uncut(d.todo) /\ Sealed(k) /\ "COMMIT" \notin Kinds(k) /\ Reads(k)
        /\ \A m \in DOMAIN d.todo : d.todo[m].kind = "REPLACE" => \E i \in DOMAIN k : k[i] = d.todo[m]
    BY <1>3, <1>6, <1>7
<1>10. Readable(d.todo)
    BY <1>4, <1>7
<1> QED
    BY <1>8, <1>9, <1>10 DEF UndoLog

\* A record is undone, and the undo loop goes on with the one before it.
LEMMA NextRecordKeeps ==
    ASSUME Inv, Types', Undoing, call.again = FALSE, call.todo # <<>>, NextRecord(call', call, spent.runs),
           journal' = journal, planned' = planned, original' = original, undone' = undone, result' = result,
           spent' = spent, NEW w \in BOOLEAN, w = OnlyWrites(planned), NEW g, NEW J,
           g \in Dirs, LeadsBack(g, Front(call.todo), original, spent.runs, J, w),
           IF call.phase = "rollback" THEN J = {} ELSE Spare(J), call.ok = TRUE => call.blocked = {},
           Meets(fs', g, call.blocked), w => Targets(fs', original)
    PROVE  Inv'
<1> DEFINE n == spent.runs
<1>1. n \in Nat /\ call \in UndoCalls(n)
    BY UndoItem DEF Inv
<1>2. UndoLog(call, journal, spent.faults) /\ undone = TRUE /\ (Retried = {} /\ spent.faults = 0 => result # "stuck")
    BY UndoStands
<1>3. /\ call'.todo = Front(call.todo) /\ call'.at = "check" /\ call'.blocked = call.blocked /\ call'.ok = call.ok
      /\ call'.phase = call.phase /\ call'.again = FALSE
    BY DEF NextRecord, SameUndo
<1>4. UndoLog(call', journal, spent.faults)
  <2>1. Marks(journal, journal, Last(call.todo))
      BY DEF Marks
  <2>2. spent.faults = 0 => Sealed(journal) /\ "COMMIT" \notin Kinds(journal) /\ Reads(journal)
      BY <1>2 DEF UndoLog
  <2>3. \A i \in DOMAIN journal : \E m \in DOMAIN journal : journal[m] = journal[i]
      OBVIOUS
  <2> QED
      BY <1>1, <1>2, <1>3, <2>1, <2>2, <2>3, UndoLogLess
<1>5. UndoTrail(g, J, fs', call', original, n, w)
    BY <1>3 DEF UndoTrail
<1>6. UndoTrail(g, J, fs', call', original', spent'.runs, OnlyWrites(planned'))
    BY <1>5
<1>7. call'.phase \in {"rollback", "recover"}
    BY <1>3 DEF Undoing
<1> QED
    BY <1>2, <1>3, <1>4, <1>6, <1>7, UndoKept

\* A REMOVE or MOVE record is undone.
LEMMA UndoRemoveOrMoveKeeps ==
    ASSUME Inv, Types', UndoRemoveOrMove
    PROVE  Inv'
<1> DEFINE n == spent.runs
<1>1. /\ Undoing /\ call.todo # <<>> /\ Current.kind \in {"REMOVE", "MOVE"} /\ fs' = Undone(Current, fs) /\ ~Blocked
      /\ call' = [call EXCEPT !.todo = Front(@), !.at = "check"] /\ journal' = journal /\ call.at = "check"
      /\ planned' = planned /\ original' = original /\ undone' = undone /\ result' = result /\ spent' = spent
    BY DEF UndoRemoveOrMove, At, Undid
<1>2. n \in Nat /\ call \in UndoCalls(n) /\ fs \in Dirs
    BY <1>1, UndoItem DEF Inv
<1>3. NextRecord(call', call, n)
    BY <1>1, <1>2, UndidIs
<1>4. CASE call.again # FALSE
    BY <1>1, <1>3, <1>4, AgainGoesOn DEF NextRecord
<1>5. CASE call.again = FALSE
  <2>1. PICK w \in BOOLEAN : w = OnlyWrites(planned)
      BY OnlyWritesIs
  <2>2. PICK X, J : UndoTrail(X, J, fs, call, original, n, w)
      BY <1>1, <1>5, <2>1, UndoStands
  <2>3. PICK u : u = Last(call.todo)
      OBVIOUS
  <2>4. u \in UndoRecords /\ X \in Dirs
        /\ \E g \in Dirs : StepsBack(u, g, X) /\ LeadsBack(g, Front(call.todo), original, n, J, w)
                           /\ (w => Targets(g, original))
      BY <1>1, <1>2, <2>2, <2>3, UndoLeads
  <2>5. PICK g \in Dirs : StepsBack(u, g, X) /\ LeadsBack(g, Front(call.todo), original, n, J, w)
                          /\ (w => Targets(g, original))
      BY <2>4
  <2>6. /\ Meets(fs, X, call.blocked) /\ (w => Targets(fs, original)) /\ (call.ok = TRUE => call.blocked = {})
        /\ IF call.phase = "rollback" THEN J = {} ELSE Spare(J)
      BY <1>1, <2>2 DEF UndoTrail
  <2>7. u.kind \in {"REMOVE", "MOVE"} /\ PathsOf(u) \cap call.blocked = {} /\ fs' = Undone(u, fs)
      BY <1>1, <2>3 DEF Current, Blocked
  <2>8. Meets(fs', g, call.blocked) /\ Alike(fs, fs', call.blocked)
      BY <1>2, <2>4, <2>5, <2>6, <2>7, UndoneMeets
  <2>9. w => Targets(fs', original)
      BY <2>5, <2>6, <2>8, MeetsTargets
  <2> QED
      BY <1>1, <1>3, <1>5, <2>1, <2>5, <2>6, <2>8, <2>9, NextRecordKeeps
<1> QED
    BY <1>4, <1>5

\* The next stage of the same record.
LEMMA NextStageKeeps ==
    ASSUME Inv, Types', Undoing, call.again = FALSE, call.todo # <<>>, NEW at \in {"swap", "mark"},
           NextStage(call', call, spent.runs, at),
           journal' = journal, planned' = planned, original' = original, undone' = undone, result' = result,
           spent' = spent, NEW w \in BOOLEAN, w = OnlyWrites(planned), NEW X, NEW J,
           UndoTrail(X, J, fs', call', original, spent.runs, w)
    PROVE  Inv'
<1>1. UndoLog(call, journal, spent.faults) /\ undone = TRUE /\ (Retried = {} /\ spent.faults = 0 => result # "stuck")
    BY UndoStands
<1>2. call'.todo = call.todo /\ call'.ok = call.ok /\ call'.phase = call.phase /\ call'.again = FALSE
    BY DEF NextStage, SameUndo
<1>3. UndoLog(call', journal', spent'.faults)
    BY <1>1, <1>2 DEF UndoLog
<1>4. UndoTrail(X, J, fs', call', original', spent'.runs, OnlyWrites(planned'))
    OBVIOUS
<1>5. call'.phase \in {"rollback", "recover"}
    BY <1>2 DEF Undoing
<1> QED
    BY <1>1, <1>2, <1>3, <1>4, <1>5, UndoKept

\* A replaced file has been restored, or its old contents are staged.
LEMMA UndoReplaceKeeps ==
    ASSUME Inv, Types', UndoReplace
    PROVE  Inv'
<1> DEFINE n == spent.runs
<1>1. PICK u : u = Last(call.todo)
    OBVIOUS
<1>2. /\ Undoing /\ call.todo # <<>> /\ u.kind = "REPLACE" /\ journal' = journal /\ call.at = "check" /\ ~Blocked
      /\ planned' = planned /\ original' = original /\ undone' = undone /\ result' = result /\ spent' = spent
      /\ \/ IsRestored(u) /\ call' = [call EXCEPT !.todo = Front(@), !.at = "check"] /\ fs' = fs
         \/ Unchanged(u, fs) /\ call' = [call EXCEPT !.at = "mark"] /\ fs' = fs
         \/ fs' = With(fs, u.staging, fs[u.from]) /\ call' = [call EXCEPT !.at = "swap"]
    BY <1>1 DEF UndoReplace, At, Undid, Current
<1>3. n \in Nat /\ call \in UndoCalls(n) /\ fs \in Dirs
    BY <1>2, UndoItem DEF Inv
<1>4. \/ IsRestored(u) /\ NextRecord(call', call, n) /\ fs' = fs
      \/ Unchanged(u, fs) /\ NextStage(call', call, n, "mark") /\ fs' = fs
      \/ fs' = With(fs, u.staging, fs[u.from]) /\ NextStage(call', call, n, "swap")
    BY <1>2, <1>3, UndidIs, AtIs
<1>5. CASE call.again # FALSE
  <2>1. SameUndo(call', call, n)
      BY <1>4 DEF NextRecord, NextStage
  <2> QED
      BY <1>2, <1>5, <2>1, AgainGoesOn
<1>6. CASE call.again = FALSE
  <2>1. PICK w \in BOOLEAN : w = OnlyWrites(planned)
      BY OnlyWritesIs
  <2>2. PICK X, J : UndoTrail(X, J, fs, call, original, n, w)
      BY <1>2, <1>6, <2>1, UndoStands
  <2>3. u \in UndoRecords /\ X \in Dirs
        /\ \E g \in Dirs : StepsBack(u, g, X) /\ LeadsBack(g, Front(call.todo), original, n, J, w)
                           /\ (w => Targets(g, original))
      BY <1>1, <1>2, <1>3, <2>2, UndoLeads
  <2>4. PICK g \in Dirs : StepsBack(u, g, X) /\ LeadsBack(g, Front(call.todo), original, n, J, w)
                          /\ (w => Targets(g, original))
      BY <2>3
  <2>5. /\ LeadsBack(X, call.todo, original, n, J, w)
        /\ Meets(fs, X, call.blocked) /\ (w => Targets(fs, original)) /\ (call.ok = TRUE => call.blocked = {})
        /\ IF call.phase = "rollback" THEN J = {} ELSE Spare(J)
      BY <1>2, <2>2 DEF UndoTrail
  <2>6. PathsOf(u) \cap call.blocked = {}
      BY <1>1, <1>2 DEF Current, Blocked
  <2>7. ~IsRestored(u)
    <3>1. UndoLog(call, journal, spent.faults)
        BY <1>2, <1>6, <2>1, UndoStands
    <3>2. Len(call.todo) \in DOMAIN call.todo /\ call.todo[Len(call.todo)] = u
        BY <1>1, <1>2, <1>3, LastItem
    <3> QED
        BY <1>2, <3>1, <3>2 DEF UndoLog, IsRestored
  <2>8. /\ fs[u.to] = fs[u.from] => Meets(fs, g, call.blocked)
        /\ With(X, u.staging, X[u.from]) \in Dirs
        /\ Meets(With(fs, u.staging, fs[u.from]), With(X, u.staging, X[u.from]), call.blocked)
        /\ Alike(fs, With(fs, u.staging, fs[u.from]), call.blocked)
      BY <1>2, <1>3, <2>3, <2>4, <2>5, <2>6, StagedMeets
  <2>9. CASE Unchanged(u, fs) /\ NextStage(call', call, n, "mark") /\ fs' = fs
    <3>1. Meets(fs, g, call.blocked)
        BY <2>8, <2>9 DEF Unchanged
    <3>2. UndoTrail(g, J, fs', call', original, n, w)
        BY <2>4, <2>5, <2>9, <3>1 DEF UndoTrail, NextStage, SameUndo
    <3> QED
        BY <1>2, <1>6, <2>1, <2>9, <3>2, NextStageKeeps
  <2>10. CASE fs' = With(fs, u.staging, fs[u.from]) /\ NextStage(call', call, n, "swap")
    <3>1. PICK Y : Y = With(X, u.staging, X[u.from])
        OBVIOUS
    <3>2. Meets(fs', Y, call.blocked) /\ Alike(fs, fs', call.blocked)
        BY <2>8, <2>10, <3>1
    <3>3. w => Targets(Y, original)
      <4>1. u.staging \in Temps /\ X[u.from] \in Contents /\ Temps \subseteq AllPaths /\ u.staging \notin Files
          BY <1>2, <2>3, <2>4, ReplaceIs, PathKinds DEF AllPaths, Paths, UserPaths
      <4>2. IsWith(Y, X, u.staging, X[u.from])
          BY <2>3, <3>1, <4>1, WithIs
      <4>3. w => Targets(X, original)
        <5>1. call.todo \in Seq(UndoRecords)
            BY <1>3, TodoIs
        <5> QED
            BY <2>5, <5>1, BackIs
      <4> QED
          BY <4>1, <4>2, <4>3 DEF Targets, IsWith, Has
    <3>4. w => Targets(fs', original)
        BY <2>5, <3>2, <3>3, MeetsTargets
    <3>5. call'.at = "swap" /\ call'.todo = call.todo /\ call'.blocked = call.blocked /\ call'.ok = call.ok
          /\ call'.phase = call.phase
        BY <2>10 DEF NextStage, SameUndo
    <3>6. UndoTrail(X, J, fs', call', original, n, w)
        BY <1>1, <2>3, <2>5, <3>1, <3>2, <3>4, <3>5 DEF UndoTrail
    <3> QED
        BY <1>2, <1>6, <2>1, <2>10, <3>6, NextStageKeeps
  <2> QED
      BY <1>4, <2>7, <2>9, <2>10
<1> QED
    BY <1>5, <1>6

\* The staged contents take the place of the new ones.
LEMMA SwapStagingKeeps ==
    ASSUME Inv, Types', SwapStaging
    PROVE  Inv'
<1> DEFINE n == spent.runs
<1>1. PICK u : u = Last(call.todo)
    OBVIOUS
<1>2. /\ Undoing /\ call.todo # <<>> /\ u.kind = "REPLACE" /\ journal' = journal /\ call.at = "swap" /\ ~Blocked
      /\ planned' = planned /\ original' = original /\ undone' = undone /\ result' = result /\ spent' = spent
      /\ fs' = Renamed(fs, u.staging, u.to) /\ call' = [call EXCEPT !.at = "mark"]
    BY <1>1 DEF SwapStaging, At, Current
<1>3. n \in Nat /\ call \in UndoCalls(n) /\ fs \in Dirs
    BY <1>2, UndoItem DEF Inv
<1>4. NextStage(call', call, n, "mark")
    BY <1>2, <1>3, AtIs
<1>5. CASE call.again # FALSE
    BY <1>2, <1>4, <1>5, AgainGoesOn DEF NextStage
<1>6. CASE call.again = FALSE
  <2>1. PICK w \in BOOLEAN : w = OnlyWrites(planned)
      BY OnlyWritesIs
  <2>2. PICK X, J : UndoTrail(X, J, fs, call, original, n, w)
      BY <1>2, <1>6, <2>1, UndoStands
  <2>3. u \in UndoRecords /\ X \in Dirs
        /\ \E g \in Dirs : StepsBack(u, g, X) /\ LeadsBack(g, Front(call.todo), original, n, J, w)
                           /\ (w => Targets(g, original))
      BY <1>1, <1>2, <1>3, <2>2, UndoLeads
  <2>4. PICK g \in Dirs : StepsBack(u, g, X) /\ LeadsBack(g, Front(call.todo), original, n, J, w)
                          /\ (w => Targets(g, original))
      BY <2>3
  <2>5. /\ Meets(fs, With(X, u.staging, X[u.from]), call.blocked) /\ (w => Targets(fs, original))
        /\ (call.ok = TRUE => call.blocked = {}) /\ IF call.phase = "rollback" THEN J = {} ELSE Spare(J)
      BY <1>1, <1>2, <2>2 DEF UndoTrail
  <2>6. PathsOf(u) \cap call.blocked = {}
      BY <1>1, <1>2 DEF Current, Blocked
  <2>7. Meets(fs', g, call.blocked) /\ Alike(fs, fs', call.blocked)
      BY <1>2, <1>3, <2>3, <2>4, <2>5, <2>6, SwappedMeets
  <2>8. w => Targets(fs', original)
      BY <2>4, <2>5, <2>7, MeetsTargets
  <2>9. call'.at = "mark" /\ call'.todo = call.todo /\ call'.blocked = call.blocked /\ call'.ok = call.ok
        /\ call'.phase = call.phase
      BY <1>4 DEF NextStage, SameUndo
  <2>10. UndoTrail(g, J, fs', call', original, n, w)
      BY <2>4, <2>5, <2>7, <2>8, <2>9 DEF UndoTrail
  <2> QED
      BY <1>2, <1>4, <1>6, <2>1, <2>10, NextStageKeeps
<1> QED
    BY <1>5, <1>6

\* What is in the journal after a RESTORED record has been appended, whole, cut or not at all.
LEMMA RestoredMarks ==
    ASSUME NEW n \in Nat, journal \in Seq(JournalRecords(n)), NEW u \in Undoable(n), u.kind = "REPLACE"
    PROVE  /\ Marks(Appended(RestoredRecord(u)), journal, u)
           /\ \A j \in AfterFailedAppend(RestoredRecord(u)) : Marks(j, journal, u)
<1> DEFINE r == RestoredRecord(u)
<1>1. r \in JournalRecords(n) /\ r.kind = "RESTORED" /\ r.from = u.from
    BY OtherRecords DEF RestoredRecord, Record
<1> HIDE DEF r
<1>2. ASSUME NEW c \in JournalRecords(n), c = r \/ CutOf(c, r)
      PROVE  Marks(Appended(c), journal, u)
  <2>1. c.kind = "RESTORED" => c.from = u.from
      BY <1>1, <1>2 DEF CutOf
  <2>2. CASE Appended(c) = Append(journal, c)
    <3> DEFINE x == Append(journal, c)
               N == Len(journal)
    <3>1. N \in Nat /\ DOMAIN x = 1..N + 1 /\ DOMAIN journal = 1..N /\ x[N + 1] = c /\ \A i \in 1..N : x[i] = journal[i]
        OBVIOUS
    <3> HIDE DEF x
    <3>2. Marks(x, journal, u)
        BY <2>1, <3>1 DEF Marks
    <3> QED
        BY <2>2, <3>2 DEF x
  <2>3. CASE journal # <<>> /\ Appended(c) = Append(Front(journal), TornRecord)
    <3> DEFINE F == Front(journal)
               x == Append(F, TornRecord)
               N == Len(journal)
    <3>1. F \in Seq(JournalRecords(n)) /\ Len(F) = N - 1 /\ N \in Nat \ {0} /\ \A i \in 1..N - 1 : F[i] = journal[i]
        BY <2>3, FrontAndLast
    <3> HIDE DEF F
    <3>2. /\ DOMAIN x = 1..N /\ DOMAIN journal = 1..N /\ x[N] = TornRecord
          /\ \A i \in 1..N - 1 : x[i] = journal[i]
      <4>1. DOMAIN x = 1..Len(F) + 1 /\ x[Len(F) + 1] = TornRecord /\ \A i \in 1..Len(F) : x[i] = F[i]
          BY <3>1
      <4> QED
          BY <3>1, <4>1
    <3>3. TornRecord.kind = "TORN"
        BY DEF TornRecord, Record
    <3> HIDE DEF x
    <3>4. Marks(x, journal, u)
        BY <3>1, <3>2, <3>3 DEF Marks
    <3> QED
        BY <2>3, <3>4 DEF x, F
  <2> QED
      BY <2>2, <2>3 DEF Appended
<1>3. Marks(journal, journal, u)
    BY DEF Marks
<1>4. \A j \in AfterFailedAppend(r) : j = journal \/ \E c \in JournalRecords(n) : (c = r \/ CutOf(c, r)) /\ j = Appended(c)
    BY <1>1, FailedAppendIs
<1> QED
    BY <1>1, <1>2, <1>3, <1>4 DEF r

\* Without a fault, read_journal accepts the RESTORED record of a file that had none.
LEMMA RestoredReads ==
    ASSUME NEW n \in Nat, journal \in Seq(JournalRecords(n)), NEW u \in Undoable(n), u.kind = "REPLACE",
           Sealed(journal), "COMMIT" \notin Kinds(journal), Reads(journal), NEW m \in DOMAIN journal, journal[m] = u,
           \A i \in DOMAIN journal : journal[i].kind = "RESTORED" => journal[i].from # u.from,
           NEW k, k = Appended(RestoredRecord(u))
    PROVE  /\ Sealed(k) /\ "COMMIT" \notin Kinds(k) /\ Reads(k)
           /\ \A i \in DOMAIN journal : \E l \in DOMAIN k : k[l] = journal[i]
<1> DEFINE N == Len(journal)
<1>1. PICK r \in JournalRecords(n) : r = RestoredRecord(u) /\ r.kind = "RESTORED" /\ r.from = u.from /\ r.ended = TRUE
    BY OtherRecords DEF RestoredRecord, Record
<1>2. journal # <<>> => Last(journal).ended
    BY DEF Sealed, Last
<1>3. k = Append(journal, r)
    BY <1>1, <1>2 DEF Appended
<1>4. /\ N \in Nat /\ DOMAIN k = 1..N + 1 /\ Len(k) = N + 1 /\ DOMAIN journal = 1..N /\ k[N + 1] = r
      /\ \A i \in 1..N : k[i] = journal[i]
    BY <1>3
<1>5. Sealed(k)
  <2>1. \A i \in 1..N : journal[i].ended
      BY <1>4 DEF Sealed
  <2>2. ASSUME NEW i \in 1..N + 1
        PROVE  k[i].ended
    <3>1. CASE i = N + 1
        BY <1>1, <1>4, <3>1
    <3>2. CASE i \in 1..N
        BY <1>4, <2>1, <3>2
    <3> QED
        BY <1>4, <3>1, <3>2
  <2> QED
      BY <1>4, <2>2 DEF Sealed
<1>6. "COMMIT" \notin Kinds(k)
    BY <1>1, <1>3, KindsMore
<1>7. ASSUME NEW i \in 1..N + 1
      PROVE  /\ k[i].kind # "COMMIT"
             /\ k[i].kind = "REPLACE" =>
                   /\ \A p \in {k[i].from, k[i].witness, k[i].staging} : \E l \in 1..i - 1 : k[l] = RemoveRecord(p)
                   /\ \A l \in 1..i - 1 : k[l].kind = "REPLACE" => k[l].from # k[i].from
             /\ k[i].kind = "RESTORED" =>
                   /\ \E l \in 1..i - 1 : k[l].kind = "REPLACE" /\ k[l].from = k[i].from
                   /\ \A l \in 1..i - 1 : k[l] # k[i]
  <2>1. CASE i = N + 1
    <3>1. k[i] = r /\ m \in 1..i - 1 /\ k[m] = u
        BY <1>4, <2>1
    <3>2. \A l \in 1..i - 1 : k[l] # k[i]
        BY <1>1, <1>4, <2>1, <3>1
    <3> QED
        BY <1>1, <3>1, <3>2
  <2>2. CASE i \in 1..N
    <3>1. k[i] = journal[i] /\ i \in DOMAIN journal /\ \A l \in 1..i - 1 : k[l] = journal[l]
        BY <1>4, <2>2
    <3>2. journal[i].kind # "COMMIT"
        BY <3>1 DEF Kinds
    <3>3. /\ journal[i].kind = "REPLACE" =>
                /\ \A p \in {journal[i].from, journal[i].witness, journal[i].staging} :
                      \E l \in 1..i - 1 : journal[l] = RemoveRecord(p)
                /\ \A l \in 1..i - 1 : journal[l].kind = "REPLACE" => journal[l].from # journal[i].from
          /\ journal[i].kind = "RESTORED" =>
                /\ \E l \in 1..i - 1 : journal[l].kind = "REPLACE" /\ journal[l].from = journal[i].from
                /\ \A l \in 1..i - 1 : journal[l] # journal[i]
        BY <3>1 DEF Reads
    <3>4. PICK y : y = journal[i] /\ y = k[i]
        BY <3>1
    <3>5. y.kind = "REPLACE" =>
             /\ \A p \in {y.from, y.witness, y.staging} : \E l \in 1..i - 1 : k[l] = RemoveRecord(p)
             /\ \A l \in 1..i - 1 : k[l].kind = "REPLACE" => k[l].from # y.from
        BY <3>1, <3>3, <3>4
    <3>6. y.kind = "RESTORED" =>
             /\ \E l \in 1..i - 1 : k[l].kind = "REPLACE" /\ k[l].from = y.from
             /\ \A l \in 1..i - 1 : k[l] # y
        BY <3>1, <3>3, <3>4
    <3> QED
        BY <3>2, <3>4, <3>5, <3>6
  <2> QED
      BY <1>4, <2>1, <2>2
<1>8. Reads(k)
    BY <1>4, <1>7, SMTT(30) DEF Reads
<1> QED
    BY <1>4, <1>5, <1>6, <1>8

\* The restored file is marked.
LEMMA MarkRestoredKeeps ==
    ASSUME Inv, Types', MarkRestored
    PROVE  Inv'
<1> DEFINE n == spent.runs
<1>1. PICK u : u = Last(call.todo)
    OBVIOUS
<1>2. /\ Undoing /\ call.todo # <<>> /\ u.kind = "REPLACE" /\ journal' = Appended(RestoredRecord(u)) /\ call.at = "mark"
      /\ planned' = planned /\ original' = original /\ undone' = undone /\ result' = result /\ spent' = spent
      /\ fs' = fs /\ call' = [call EXCEPT !.todo = Front(@), !.at = "check"]
    BY <1>1 DEF MarkRestored, At, Undid, Current
<1>3. n \in Nat /\ call \in UndoCalls(n) /\ journal \in Seq(JournalRecords(n)) /\ u \in Undoable(n)
      /\ call.todo \in Seq(Undoable(n))
    BY <1>1, <1>2, UndoItem DEF Inv, Current
<1>4. NextRecord(call', call, n)
    BY <1>2, <1>3, UndidIs
<1>5. CASE call.again # FALSE
    BY <1>2, <1>4, <1>5, AgainGoesOn DEF NextRecord
<1>6. CASE call.again = FALSE
  <2>1. PICK w \in BOOLEAN : w = OnlyWrites(planned)
      BY OnlyWritesIs
  <2>2. UndoLog(call, journal, spent.faults) /\ undone = TRUE /\ (Retried = {} /\ spent.faults = 0 => result # "stuck")
      BY <1>2, <1>6, <2>1, UndoStands
  <2>3. PICK X, J : UndoTrail(X, J, fs, call, original, n, w)
      BY <1>2, <1>6, <2>1, UndoStands
  <2>4. /\ call'.todo = Front(call.todo) /\ call'.at = "check" /\ call'.blocked = call.blocked /\ call'.ok = call.ok
        /\ call'.phase = call.phase /\ call'.again = FALSE
      BY <1>4, <1>6 DEF NextRecord, SameUndo
  <2>5. UndoTrail(X, J, fs', call', original, n, w)
      BY <1>2, <2>3, <2>4 DEF UndoTrail
  <2>6. Len(call.todo) \in DOMAIN call.todo /\ call.todo[Len(call.todo)] = u
      BY <1>1, <1>2, <1>3, LastItem
  <2>7. Marks(journal', journal, u)
      BY <1>2, <1>3, RestoredMarks
  <2>8. ASSUME spent'.faults = 0
        PROVE  /\ spent.faults = 0 /\ Sealed(journal') /\ "COMMIT" \notin Kinds(journal') /\ Reads(journal')
               /\ \A i \in DOMAIN journal : \E l \in DOMAIN journal' : journal'[l] = journal[i]
    <3>1. Sealed(journal) /\ "COMMIT" \notin Kinds(journal) /\ Reads(journal)
        BY <1>2, <2>2, <2>8 DEF UndoLog
    <3>2. PICK m \in DOMAIN journal : journal[m] = u
        BY <1>2, <2>2, <2>6, <2>8 DEF UndoLog
    <3>3. \A i \in DOMAIN journal : journal[i].kind = "RESTORED" => journal[i].from # u.from
        BY <1>2, <2>2, <2>6 DEF UndoLog
    <3>4. PICK k : k = journal'
        OBVIOUS
    <3>5. k = Appended(RestoredRecord(u))
        BY <1>2, <3>4
    <3>6. /\ Sealed(k) /\ "COMMIT" \notin Kinds(k) /\ Reads(k)
          /\ \A i \in DOMAIN journal : \E l \in DOMAIN k : k[l] = journal[i]
        BY <1>2, <1>3, <3>1, <3>2, <3>3, <3>5, RestoredReads
    <3> QED
        BY <1>2, <2>8, <3>4, <3>6
  <2>9. UndoLog(call', journal', spent'.faults)
    <3>1. PICK d, k, more : d = call' /\ k = journal' /\ more = spent'.faults
        OBVIOUS
    <3>2. call.todo # <<>> /\ UndoLog(call, journal, spent.faults) /\ d.todo = Front(call.todo)
          /\ Marks(k, journal, Last(call.todo))
        BY <1>1, <1>2, <2>2, <2>4, <2>7, <3>1
    <3>3. more = 0 => /\ spent.faults = 0 /\ d.ok = call.ok /\ Sealed(k) /\ "COMMIT" \notin Kinds(k) /\ Reads(k)
                      /\ \A i \in DOMAIN journal : \E m \in DOMAIN k : k[m] = journal[i]
        BY <2>4, <2>8, <3>1
    <3>4. UndoLog(d, k, more)
        BY <1>3, <3>2, <3>3, UndoLogLess
    <3> QED
        BY <3>1, <3>4
  <2>10. UndoTrail(X, J, fs', call', original', spent'.runs, OnlyWrites(planned'))
      BY <1>2, <2>1, <2>5
  <2>11. call'.phase \in {"rollback", "recover"}
      BY <1>2, <2>4 DEF Undoing
  <2> QED
      BY <1>2, <2>2, <2>4, <2>9, <2>10, <2>11, UndoKept
<1> QED
    BY <1>5, <1>6

\* Where no primitive has been refused, the undo meets no conflict.
LEMMA NoConflict ==
    ASSUME Inv, Undoing, call.todo # <<>>, call.again = FALSE, spent.faults = 0
    PROVE  ~Blocked /\ ~Conflict(Current)
<1> DEFINE n == spent.runs
<1>1. PICK u : u = Last(call.todo)
    OBVIOUS
<1>2. n \in Nat /\ call \in UndoCalls(n) /\ fs \in Dirs /\ (call.at # "check" => u.kind = "REPLACE")
    BY <1>1, UndoItem DEF Inv, Types, CallTypes
<1>3. PICK w \in BOOLEAN : w = OnlyWrites(planned)
    BY OnlyWritesIs
<1>4. UndoLog(call, journal, spent.faults)
    BY <1>3, UndoStands
<1>5. PICK X, J : UndoTrail(X, J, fs, call, original, n, w)
    BY <1>3, UndoStands
<1>6. call.blocked = {}
    BY <1>4, <1>5 DEF UndoLog, UndoTrail
<1>7. Len(call.todo) \in 1..Len(call.todo) /\ call.todo[Len(call.todo)] = u /\ u \in UndoRecords
    BY <1>1, <1>2, LastItem
<1>8. PathsOf(u) \cap CutPaths = {}
    BY <1>4, <1>7 DEF UndoLog, Uncut
<1>9. ~NotStaging(u)
  <2>1. [cut |-> "plain"] \in CutPaths
      BY DEF CutPaths
  <2>2. u.kind = "REMOVE" => u.from \in PathsOf(u)
      BY <1>7, PathsOfRecords, KindOfRecord
  <2> QED
      BY <1>8, <2>1, <2>2 DEF NotStaging
<1>10. ~Conflict(u)
  <2>1. CASE call.at # "check"
      BY <1>2, <1>9, <2>1 DEF Conflict
  <2>2. CASE call.at = "check"
    <3>1. X \in Dirs /\ \E g \in Dirs : StepsBack(u, g, X) /\ LeadsBack(g, Front(call.todo), original, n, J, w)
                                        /\ (w => Targets(g, original))
        BY <1>1, <1>2, <1>5, <2>2, UndoLeads
    <3>2. PICK g \in Dirs : StepsBack(u, g, X)
        BY <3>1
    <3>3. Meets(fs, X, {})
        BY <1>5, <1>6, <2>2 DEF UndoTrail
    <3>4. fs = X
        BY <1>2, <3>1, <3>3, MeetsItself
    <3>5. u.kind = "MOVE" => ~(Has(fs, u.from) /\ Has(fs, u.to))
        BY <3>2, <3>4 DEF StepsBack, Removes, MovesBack, WasNotMoved, PutsBack
    <3>6. u.kind = "REPLACE" => Changed(u, fs) \/ Unchanged(u, fs)
        BY <3>2, <3>4 DEF StepsBack, Removes, MovesBack, WasNotMoved, PutsBack, Changed, Unchanged
    <3> QED
        BY <1>9, <3>5, <3>6 DEF Conflict
  <2> QED
      BY <2>1, <2>2
<1>11. ~Blocked
    BY <1>6 DEF Blocked
<1> QED
    BY <1>1, <1>10, <1>11 DEF Current

\* The undo loop c leads back to o.
GoesOnFrom(J, f, c, o, n, w) == \E g : UndoTrail(g, J, f, c, o, n, w)

\* A record is given up, at whatever stage of its undo: the ones before it can be undone all the same.
LEMMA GivesUpOn ==
    ASSUME NEW n \in Nat, NEW c \in UndoCalls(n), c.todo # <<>>, c.at # "check" => Last(c.todo).kind = "REPLACE",
           NEW X, NEW J, NEW f \in Dirs, NEW o, NEW w \in BOOLEAN, UndoTrail(X, J, f, c, o, n, w),
           NEW d, PassesOver(d, c, n, PathsOf(Last(c.todo)))
    PROVE  GoesOnFrom(J, f, d, o, n, w)
<1>1. PICK u : u = Last(c.todo)
    OBVIOUS
<1>2. d.todo = Front(c.todo) /\ d.at = "check" /\ d.blocked = c.blocked \cup PathsOf(u) /\ d.ok = FALSE
      /\ d.phase = c.phase
    BY <1>1 DEF PassesOver, SameUndo
<1>3. X \in Dirs /\ (w => Targets(f, o)) /\ IF c.phase = "rollback" THEN J = {} ELSE Spare(J)
    BY DEF UndoTrail
<1>4. \E g \in Dirs : LeadsBack(g, Front(c.todo), o, n, J, w) /\ Meets(f, g, c.blocked \cup PathsOf(u))
  <2>1. CASE c.at = "mark"
    <3>1. LeadsBack(X, Front(c.todo), o, n, J, w) /\ Meets(f, X, c.blocked)
        BY <2>1 DEF UndoTrail
    <3> QED
        BY <1>3, <3>1, MeetsMore
  <2>2. CASE c.at # "mark"
    <3>1. u \in UndoRecords
          /\ \E g \in Dirs : StepsBack(u, g, X) /\ LeadsBack(g, Front(c.todo), o, n, J, w) /\ (w => Targets(g, o))
        BY <1>1, <2>2, UndoLeads
    <3>2. PICK g \in Dirs : StepsBack(u, g, X) /\ LeadsBack(g, Front(c.todo), o, n, J, w)
        BY <3>1
    <3>3. CASE c.at = "check"
      <4>1. Meets(f, X, c.blocked)
          BY <3>3 DEF UndoTrail
      <4> QED
          BY <1>3, <3>1, <3>2, <4>1, MeetsLess
    <3>4. CASE c.at = "swap"
      <4>1. Meets(f, With(X, u.staging, X[u.from]), c.blocked) /\ u.kind = "REPLACE"
          BY <1>1, <3>4 DEF UndoTrail
      <4> QED
          BY <1>3, <3>1, <3>2, <4>1, StagedLess
    <3> QED
        BY <2>2, <3>3, <3>4 DEF UndoCalls
  <2> QED
      BY <2>1, <2>2
<1>5. PICK g \in Dirs : LeadsBack(g, Front(c.todo), o, n, J, w) /\ Meets(f, g, c.blocked \cup PathsOf(u))
    BY <1>4
<1>6. UndoTrail(g, J, f, d, o, n, w)
    BY <1>2, <1>3, <1>5 DEF UndoTrail
<1> QED
    BY <1>6 DEF GoesOnFrom

\* A record is not undone.
LEMMA UndoFailsKeeps ==
    ASSUME Inv, Types', UndoFails
    PROVE  Inv'
<1> DEFINE n == spent.runs
<1>1. PICK u : u = Last(call.todo)
    OBVIOUS
<1>2. /\ Undoing /\ call.todo # <<>> /\ fs' = fs /\ planned' = planned /\ original' = original /\ undone' = undone
      /\ \/ spent' = spent /\ (Blocked \/ Conflict(u))
         \/ spent' = SpentOne("faults")
      /\ journal' = journal \/ (call.at = "mark" /\ journal' \in AfterFailedAppend(RestoredRecord(u)))
    BY <1>1 DEF UndoFails, Current
<1>3. /\ n \in Nat /\ call \in UndoCalls(n) /\ fs \in Dirs /\ journal \in Seq(JournalRecords(n)) /\ u \in Undoable(n)
      /\ PathsOf(u) \subseteq AllPaths /\ (call.at # "check" => Last(call.todo).kind = "REPLACE")
    BY <1>1, <1>2, UndoItem, UsedMore DEF Inv, Current, Types, CallTypes
<1>4. spent'.runs = n /\ (spent'.faults = 0 => (Blocked \/ Conflict(u)) /\ spent.faults = 0)
  <2>1. spent \in [runs : Nat, faults : Nat, crashes : Nat, foreign : Nat]
      BY DEF Inv, Types, HistoryTypes
  <2>2. CASE spent' = spent /\ (Blocked \/ Conflict(u))
      BY <2>1, <2>2
  <2>3. CASE spent' = SpentOne("faults")
      BY <2>1, <2>3 DEF SpentOne
  <2> QED
      BY <1>2, <2>2, <2>3
<1>5. call.again = FALSE => spent'.faults # 0
  <2>1. SUFFICES ASSUME call.again = FALSE, spent'.faults = 0 PROVE FALSE
      OBVIOUS
  <2>2. ~Blocked /\ ~Conflict(u)
      BY <1>1, <1>2, <1>4, <2>1, NoConflict DEF Current
  <2> QED
      BY <1>4, <2>1, <2>2
<1>6. PICK w \in BOOLEAN : w = OnlyWrites(planned)
    BY OnlyWritesIs
<1>7. CASE call.mode = "BestEffort"
  <2>1. call' = [[call EXCEPT !.todo = Front(@), !.at = "check"]
                     EXCEPT !.blocked = @ \cup PathsOf(u), !.ok = FALSE]
        /\ result' = result
      BY <1>1, <1>7 DEF UndoFails, Undid, Current
  <2>2. PICK d, b : d = call' /\ b = PathsOf(u)
      OBVIOUS
  <2>3. d = [[call EXCEPT !.todo = Front(@), !.at = "check"] EXCEPT !.blocked = @ \cup b, !.ok = FALSE]
        /\ b \subseteq AllPaths
      BY <1>3, <2>1, <2>2
  <2>4. PassesOver(d, call, n, b)
      BY <1>2, <1>3, <2>3, PassedOver, Zenon
  <2>5. CASE call.again # FALSE
    <3>1. SameUndo(call', call, n)
        BY <2>2, <2>4 DEF PassesOver
    <3> QED
        BY <1>2, <2>5, <3>1, AgainGoesOn
  <2>6. CASE call.again = FALSE
    <3>1. UndoLog(call, journal, spent.faults) /\ undone = TRUE
        BY <1>2, <1>6, <2>6, UndoStands
    <3>2. PICK X, J : UndoTrail(X, J, fs, call, original, n, w)
        BY <1>2, <1>6, <2>6, UndoStands
    <3>3. PassesOver(d, call, n, PathsOf(Last(call.todo)))
        BY <1>1, <2>2, <2>4
    <3>4. PICK g : UndoTrail(g, J, fs, d, original, n, w)
      <4>1. n \in Nat /\ call \in UndoCalls(n) /\ fs \in Dirs
          BY <1>3
      <4>2. call.todo # <<>> /\ (call.at # "check" => Last(call.todo).kind = "REPLACE")
          BY <1>2, <1>3
      <4>3. GoesOnFrom(J, fs, d, original, n, w)
          BY <3>2, <3>3, <4>1, <4>2, GivesUpOn
      <4> QED
          BY <4>3 DEF GoesOnFrom
    <3>5. d.todo = Front(call.todo) /\ d.phase = call.phase /\ d.again = FALSE
        BY <2>4, <2>6 DEF PassesOver, SameUndo
    <3>6. Marks(journal', journal, u)
      <4>1. CASE journal' = journal
          BY <4>1 DEF Marks
      <4>2. CASE call.at = "mark" /\ journal' \in AfterFailedAppend(RestoredRecord(u))
          BY <1>1, <1>3, <4>2, RestoredMarks
      <4> QED
          BY <1>2, <4>1, <4>2
    <3>7. PICK k, more : k = journal' /\ more = spent'.faults
        OBVIOUS
    <3>8. more # 0 /\ Marks(k, journal, Last(call.todo))
        BY <1>1, <1>5, <2>6, <3>6, <3>7
    <3>9. UndoLog(d, k, more)
        BY <1>2, <1>3, <3>1, <3>5, <3>8, UndoLogLess
    <3>10. UndoLog(call', journal', spent'.faults)
        BY <2>2, <3>7, <3>9
    <3>11. UndoTrail(g, J, fs', call', original', spent'.runs, OnlyWrites(planned'))
        BY <1>2, <1>4, <1>6, <2>2, <3>4
    <3>12. call'.phase \in {"rollback", "recover"} /\ call'.again = FALSE
        BY <1>2, <2>2, <3>5 DEF Undoing
    <3> QED
        BY <1>2, <1>5, <2>6, <3>1, <3>10, <3>11, <3>12, UndoKept
  <2> QED
      BY <2>5, <2>6
<1>8. CASE call.mode # "BestEffort"
  <2>1. call' = Idle /\ result' = "stuck"
      BY <1>8 DEF UndoFails, Return
  <2>2. undone' = TRUE /\ (Retried = {} => call.again = FALSE)
      BY <1>2 DEF Inv, UndoInv
  <2>3. call.again = FALSE => Kept(fs, original) /\ (w => Targets(fs, original))
    <3>1. SUFFICES ASSUME call.again = FALSE PROVE Kept(fs, original) /\ (w => Targets(fs, original))
        OBVIOUS
    <3>2. PICK X, J : UndoTrail(X, J, fs, call, original, n, w)
        BY <1>2, <1>6, <3>1, UndoStands
    <3>3. call.at # "check" => call.todo # <<>> /\ Last(call.todo).kind = "REPLACE"
        BY <1>2, <1>3
    <3> QED
        BY <1>3, <3>2, <3>3, UndoKeeps
  <2>4. Safe'
      BY <1>2, <1>5, <1>6, <2>2, <2>3 DEF Safe
  <2>5. call'.phase = "idle" /\ result' # "rolledBack" /\ result' # "recovered"
      BY <2>1 DEF Idle
  <2> QED
      BY <2>2, <2>4, <2>5, IdleKept
<1> QED
    BY <1>7, <1>8

\* The undo loop is over.
LEMMA EndUndoKeeps ==
    ASSUME Inv, Types', EndUndo
    PROVE  Inv'
<1> DEFINE n == spent.runs
<1>1. /\ Undoing /\ call.todo = <<>> /\ fs' = fs /\ planned' = planned /\ original' = original /\ undone' = undone
      /\ spent' = spent /\ call' = Idle /\ journal' \in {journal, NoJournal}
      /\ \/ call.ok = TRUE /\ result' = IF InPhase("rollback") THEN "rolledBack" ELSE "recovered"
         \/ call.ok # TRUE /\ result' = "stuck"
    BY DEF EndUndo, Return
<1>2. /\ n \in Nat /\ call \in UndoCalls(n) /\ fs \in Dirs
      /\ (call.at # "check" => call.todo # <<>> /\ Last(call.todo).kind = "REPLACE")
    BY <1>1, UndoItem DEF Inv, Types, CallTypes
<1>3. call.at = "check" /\ undone' = TRUE /\ call'.phase = "idle"
    BY <1>1, <1>2 DEF Inv, UndoInv, Idle
<1>4. PICK w \in BOOLEAN : w = OnlyWrites(planned)
    BY OnlyWritesIs
<1>5. CASE call.again # FALSE
  <2>1. call.phase = "recover" /\ Retried # {}
      BY <1>1, <1>5 DEF Inv, UndoInv, Undoing
  <2>2. Safe' /\ result' # "rolledBack"
      BY <1>1, <2>1 DEF Safe, InPhase
  <2> QED
      BY <1>3, <2>1, <2>2, IdleKept
<1>6. CASE call.again = FALSE
  <2>1. UndoLog(call, journal, spent.faults)
      BY <1>1, <1>4, <1>6, UndoStands
  <2>2. PICK X, J : UndoTrail(X, J, fs, call, original, n, w)
      BY <1>1, <1>4, <1>6, UndoStands
  <2>3. Kept(fs, original) /\ (w => Targets(fs, original))
      BY <1>2, <2>2, UndoKeeps
  <2>4. spent.faults = 0 => call.ok = TRUE /\ Reads(journal)
      BY <2>1 DEF UndoLog
  <2>5. Safe'
    <3>1. spent'.faults = 0 => result' # "stuck" /\ (journal' = NoJournal \/ Reads(journal'))
        BY <1>1, <2>4
    <3> QED
        BY <1>1, <1>4, <2>3, <3>1 DEF Safe
  <2>6. call.ok = TRUE => Base(fs, original, n, J)
    <3>1. SUFFICES ASSUME call.ok = TRUE PROVE Base(fs, original, n, J)
        OBVIOUS
    <3>2. X \in Dirs /\ LeadsBack(X, <<>>, original, n, J, w) /\ Meets(fs, X, {})
        BY <1>1, <1>3, <2>2, <3>1 DEF UndoTrail
    <3>3. fs = X
        BY <1>2, <3>2, MeetsItself
    <3> QED
        BY <3>2, <3>3, BackAtLast
  <2>7. IF call.phase = "rollback" THEN J = {} ELSE Spare(J)
      BY <2>2 DEF UndoTrail
  <2>8. result' = "rolledBack" => Base(fs, original, n, {})
      BY <1>1, <2>6, <2>7 DEF InPhase
  <2>9. result' = "recovered" => \E K : Spare(K) /\ Base(fs, original, n, K)
      BY <1>1, <2>6, <2>7 DEF InPhase
  <2> QED
      BY <1>1, <1>3, <2>5, <2>8, <2>9, IdleKept
<1> QED
    BY <1>5, <1>6

------------------------------------------------------------------------------
(* No other program interferes. *)

\* Under exclusive control, every step keeps the invariant.
LEMMA NextInv ==
    ASSUME MaxForeign = 0, Inv, [Next]_vars
    PROVE  Inv'
<1>1. Types'
    BY NextTypes DEF Inv
<1>2. CASE Forward
  <2>1. ASSUME NEW plan \in Plans, NEW policy \in Policies, NEW failFast \in FailFast, NEW mode \in Modes,
               Begin(plan, policy, failFast, mode)
        PROVE  Inv'
      BY <1>1, <2>1, BeginKeeps
  <2> QED
      BY <1>1, <1>2, <2>1, BeginFailsKeeps, BeginStepKeeps, AppendUndoKeeps, WriteTemporaryKeeps, MoveOrReplaceKeeps,
         StepFailsKeeps, EndFailedKeeps, CommitKeeps, CommitFailsKeeps, CleanupKeeps, EndCommittedKeeps DEF Forward
<1>3. CASE Backward
    BY <1>1, <1>3, RecoverKeeps, UndoRemoveOrMoveKeeps, UndoReplaceKeeps, SwapStagingKeeps, MarkRestoredKeeps,
       UndoFailsKeeps, EndUndoKeeps DEF Backward
<1>4. CASE Crash
    BY <1>1, <1>4, CrashKeeps
<1>5. CASE \E f \in Files : Appears(f)
  <2>1. spent.foreign \in Nat
      BY DEF Inv, Types, HistoryTypes
  <2> QED
      BY <1>5, <2>1 DEF Appears
<1>6. CASE UNCHANGED vars
    BY <1>6 DEF vars, Inv, Types, CallTypes, FileTypes, JournalTypes, HistoryTypes, RunInv, IdleInv, CleanupInv, UndoInv,
        Safe, InPhase, Undoing
<1> QED
    BY <1>2, <1>3, <1>4, <1>5, <1>6 DEF Next

\* The invariant of every behaviour under exclusive control (Run, RecoverFromJournal): what is logged leads back.
THEOREM BatchInvariant == MaxForeign = 0 => (Spec => []Inv)
<1> SUFFICES ASSUME MaxForeign = 0 PROVE Spec => []Inv
    OBVIOUS
<1>1. Inv /\ [Next]_vars => Inv'
    BY NextInv
<1> QED
    BY <1>1, InitInv, PTL DEF Spec

------------------------------------------------------------------------------
(* What the invariant says of the properties. *)

\* The user's files are as they were when the journal was begun.
LEMMA BaseRestored ==
    ASSUME NEW n, NEW J, Base(fs, original, n, J)
    PROVE  Restored
<1>1. DOMAIN fs \cap UserPaths = DOMAIN original /\ \A p \in DOMAIN original : fs[p] = original[p]
    BY DEF Base
<1> QED
    BY <1>1 DEF Restored, Has

\* Of what a run has named, no more than J is left.
LEMMA LeftOver ==
    ASSUME NEW n, NEW J, NEW f \in Dirs, NEW o, Base(f, o, n, J), NEW L,
           L = {t \in DOMAIN f \ (UserPaths \cup CutPaths) : t.run = n}
    PROVE  L \subseteq J
<1>1. DOMAIN f \subseteq UserPaths \cup Temps \cup CutPaths
    BY DirIs DEF AllPaths, Paths
<1> QED
    BY <1>1 DEF Base

\* A complete rollback has restored every file, as the caller is told (Run, rollback).
THEOREM RollbackComplete == MaxForeign = 0 => (Spec => []RolledBackRestores)
<1>1. Inv => RolledBackRestores
    BY BaseRestored DEF Inv, IdleInv, RolledBackRestores
<1> QED
    BY <1>1, BatchInvariant, PTL

\* A successful recovery has restored every file, wherever the batch had stopped (RecoverFromJournal).
THEOREM RecoveryComplete == MaxForeign = 0 /\ Retried = {} => (Spec => []RecoveredRestores)
<1> SUFFICES ASSUME MaxForeign = 0, Retried = {} PROVE Spec => []RecoveredRestores
    OBVIOUS
<1>1. Inv => RecoveredRestores
    BY BaseRestored DEF Inv, IdleInv, RecoveredRestores
<1> QED
    BY <1>1, BatchInvariant, PTL

\* What the user had is kept until COMMIT is written, and no atomic write takes its target away (Run,
\* write_file_atomic, rollback, RecoverFromJournal).
THEOREM NoContentsLost == MaxForeign = 0 /\ Retried = {} => (Spec => []ContentsSurvive)
<1> SUFFICES ASSUME MaxForeign = 0, Retried = {} PROVE Spec => []ContentsSurvive
    OBVIOUS
<1>1. Inv => NothingLost
    BY DEF Inv, Safe, NothingLost, Kept, HasCommit, Torn, Committed, Malformed, Missing
<1>2. Inv => TargetAlwaysThere
    BY DEF Inv, Safe, TargetAlwaysThere, Targets, OnlyWrites
<1>3. Inv => ContentsSurvive
    BY <1>1, <1>2 DEF ContentsSurvive
<1> QED
    BY <1>3, BatchInvariant, PTL

\* A batch that was undone leaves no temporary file behind but the one it had just written (rollback,
\* RecoverFromJournal, make_temp_path).
THEOREM TemporariesRemoved == MaxForeign = 0 /\ Retried = {} => (Spec => []NoStagingLeft)
<1> SUFFICES ASSUME MaxForeign = 0, Retried = {} PROVE Spec => []NoStagingLeft
    OBVIOUS
<1>1. Inv => NoStagingLeft
  <2> SUFFICES ASSUME Inv PROVE NoStagingLeft
      OBVIOUS
  <2>1. PICK L : L = {t \in DOMAIN fs \ (UserPaths \cup CutPaths) : t.run = spent.runs}
      OBVIOUS
  <2>2. fs \in Dirs
      BY DEF Inv, Types, FileTypes
  <2>3. ASSUME InPhase("idle"), result = "rolledBack" PROVE L = {}
    <3>1. Base(fs, original, spent.runs, {})
        BY <2>3 DEF Inv, IdleInv
    <3> QED
        BY <2>1, <2>2, <3>1, LeftOver
  <2>4. ASSUME InPhase("idle"), result = "recovered"
        PROVE  Cardinality(L) <= 1 /\ \A t \in L : t.tag \in {"new", "copy"}
    <3>1. PICK J : Spare(J) /\ Base(fs, original, spent.runs, J)
        BY <2>4 DEF Inv, IdleInv
    <3>2. L \subseteq J
        BY <2>1, <2>2, <3>1, LeftOver
    <3>3. (L = {} \/ \E t : L = {t}) /\ \A t \in L : t.tag \in {"new", "copy"}
        BY <3>1, <3>2 DEF Spare
    <3>4. Cardinality(L) <= 1
      <4>1. CASE L = {}
          BY <4>1, FS_EmptySet
      <4>2. CASE \E t : L = {t}
        <5>1. PICK t : L = {t}
            BY <4>2
        <5>2. Cardinality({t}) = 1
            BY FS_Singleton
        <5> QED
            BY <5>1, <5>2
      <4> QED
          BY <3>3, <4>1, <4>2
    <3> QED
        BY <3>3, <3>4
  <2> QED
      BY <2>1, <2>3, <2>4 DEF NoStagingLeft
<1> QED
    BY <1>1, BatchInvariant, PTL

\* Undoing needs nobody's help: read_journal accepts every journal, and no undo stops half way (rollback,
\* restore_replacement, RecoverFromJournal).
THEOREM UndoSucceeds == MaxForeign = 0 /\ Retried = {} => (Spec => []UndoNeverStuck)
<1> SUFFICES ASSUME MaxForeign = 0, Retried = {} PROVE Spec => []UndoNeverStuck
    OBVIOUS
<1>1. Inv => UndoNeverStuck
  <2> SUFFICES ASSUME Inv, spent.faults = 0 PROVE JournalReadable /\ result # "stuck"
      BY DEF UndoNeverStuck
  <2>1. result # "stuck" /\ (journal = NoJournal \/ Reads(journal))
      BY DEF Inv, Safe
  <2>2. ASSUME Reads(journal) PROVE JournalReadable
      BY <2>2 DEF Reads, JournalReadable
  <2> QED
      BY <2>1, <2>2 DEF JournalReadable, Missing
<1> QED
    BY <1>1, BatchInvariant, PTL
==============================================================================
