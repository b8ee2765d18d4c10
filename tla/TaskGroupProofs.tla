---------------------------- MODULE TaskGroupProofs ----------------------------
(***************************************************************************)
(* asyncx::TaskGroup, for every number of tasks, waiters and waits: GroupInv *)
(* follows each submitted task from futures_ through the hands of the waits *)
(* to the statistics. On it rest that the statistics are right, and that a *)
(* wait that returns ok has classified what no other wait had taken.       *)
(***************************************************************************)
EXTENDS TaskGroup, FiniteSetTheorems, SequenceTheorems, TLAPS

------------------------------------------------------------------------------
(* Lists without repetition and the sets of their elements. *)

\* An empty list holds nothing.
LEMMA EmptyList ==
    ASSUME NEW S
    PROVE  <<>> \in Seq(S) /\ IsInjective(<<>>) /\ ToSet(<<>>) = {}
    BY DEF IsInjective, ToSet

\* A new element at the end of a list (Register, GiveUp).
LEMMA AppendedList ==
    ASSUME NEW S, NEW s \in Seq(S), NEW x \in S, IsInjective(s), x \notin ToSet(s)
    PROVE  /\ Append(s, x) \in Seq(S) /\ IsInjective(Append(s, x))
           /\ ToSet(Append(s, x)) = ToSet(s) \cup {x}
<1>1. /\ Append(s, x) \in Seq(S) /\ Len(Append(s, x)) = Len(s) + 1
      /\ \A i \in 1..Len(s) : Append(s, x)[i] = s[i]
      /\ Append(s, x)[Len(s) + 1] = x
    BY AppendProperties
<1>2. DOMAIN s = 1..Len(s) /\ DOMAIN Append(s, x) = 1..(Len(s) + 1) /\ Len(s) \in Nat
    BY <1>1, LenProperties
<1> HIDE DEF IsInjective, ToSet
<1>3. IsInjective(Append(s, x))
    BY <1>1, <1>2 DEF IsInjective, ToSet
<1>4. ToSet(Append(s, x)) = ToSet(s) \cup {x}
    BY <1>1, <1>2 DEF ToSet
<1> QED
    BY <1>1, <1>3, <1>4

\* A list without its first element (Observe, GiveUp).
LEMMA TailOfList ==
    ASSUME NEW S, NEW s \in Seq(S), s # <<>>, IsInjective(s)
    PROVE  /\ Tail(s) \in Seq(S) /\ IsInjective(Tail(s)) /\ Head(s) \in S
           /\ Head(s) \in ToSet(s) /\ ToSet(Tail(s)) = ToSet(s) \ {Head(s)}
<1>1. /\ Tail(s) \in Seq(S) /\ Head(s) \in S /\ Len(Tail(s)) = Len(s) - 1
      /\ \A i \in 1..Len(Tail(s)) : Tail(s)[i] = s[i + 1]
    BY HeadTailProperties
<1>2. /\ DOMAIN s = 1..Len(s) /\ DOMAIN Tail(s) = 1..(Len(s) - 1)
      /\ Len(s) \in Nat /\ Len(s) # 0 /\ Head(s) = s[1]
    BY <1>1, LenProperties, EmptySeq
<1>3. \A i \in DOMAIN s : i # 1 => i - 1 \in DOMAIN Tail(s) /\ Tail(s)[i - 1] = s[i]
    BY <1>1, <1>2
<1>4. IsInjective(Tail(s))
    BY <1>1, <1>2 DEF IsInjective
<1>5. Head(s) \in ToSet(s)
    BY <1>2 DEF ToSet
<1>6. ASSUME NEW x \in ToSet(s), x # Head(s) PROVE x \in ToSet(Tail(s))
  <2>1. PICK i \in DOMAIN s : x = s[i]
      BY <1>6 DEF ToSet
  <2> QED
      BY <2>1, <1>2, <1>3, <1>6 DEF ToSet
<1>7. ASSUME NEW x \in ToSet(Tail(s)) PROVE x \in ToSet(s) \ {Head(s)}
  <2>1. PICK i \in DOMAIN Tail(s) : x = Tail(s)[i]
      BY <1>7 DEF ToSet
  <2>2. x = s[i + 1] /\ i + 1 \in DOMAIN s /\ i + 1 # 1 /\ 1 \in DOMAIN s
      BY <2>1, <1>1, <1>2
  <2> QED
      BY <2>2, <1>2 DEF ToSet, IsInjective
<1> QED
    BY <1>1, <1>4, <1>5, <1>6, <1>7

\* Two lists with nothing in common, one after the other (WaitEnd).
LEMMA JoinedLists ==
    ASSUME NEW S, NEW s \in Seq(S), NEW u \in Seq(S), IsInjective(s), IsInjective(u),
           ToSet(s) \cap ToSet(u) = {}
    PROVE  /\ s \o u \in Seq(S) /\ IsInjective(s \o u)
           /\ ToSet(s \o u) = ToSet(s) \cup ToSet(u)
<1>1. /\ s \o u \in Seq(S) /\ Len(s \o u) = Len(s) + Len(u)
      /\ \A i \in 1..(Len(s) + Len(u)) : (s \o u)[i] = IF i <= Len(s) THEN s[i] ELSE u[i - Len(s)]
    BY ConcatProperties
<1>2. /\ DOMAIN s = 1..Len(s) /\ DOMAIN u = 1..Len(u) /\ DOMAIN (s \o u) = 1..(Len(s) + Len(u))
      /\ Len(s) \in Nat /\ Len(u) \in Nat
    BY <1>1, LenProperties
<1>3. \A i \in DOMAIN (s \o u) :
          \/ i \in DOMAIN s /\ (s \o u)[i] = s[i]
          \/ i - Len(s) \in DOMAIN u /\ (s \o u)[i] = u[i - Len(s)]
    BY <1>1, <1>2
<1>4. \A i \in DOMAIN s : i \in DOMAIN (s \o u) /\ (s \o u)[i] = s[i]
    BY <1>1, <1>2
<1>5. \A i \in DOMAIN u : i + Len(s) \in DOMAIN (s \o u) /\ (s \o u)[i + Len(s)] = u[i]
    BY <1>1, <1>2
<1>6. \A i \in DOMAIN s, j \in DOMAIN u : s[i] # u[j]
    BY DEF ToSet
<1>7. IsInjective(s \o u)
  <2> SUFFICES ASSUME NEW i \in DOMAIN (s \o u), NEW j \in DOMAIN (s \o u), (s \o u)[i] = (s \o u)[j]
               PROVE  i = j
      BY DEF IsInjective
  <2>1. ASSUME i \in DOMAIN s, j \in DOMAIN s, s[i] = s[j] PROVE i = j
      BY <2>1 DEF IsInjective
  <2>2. ASSUME i - Len(s) \in DOMAIN u, j - Len(s) \in DOMAIN u, u[i - Len(s)] = u[j - Len(s)]
        PROVE  i = j
    <3>1. i - Len(s) = j - Len(s)
        BY <2>2 DEF IsInjective
    <3> QED
        BY <3>1, <1>2
  <2> QED
      BY <2>1, <2>2, <1>3, <1>6
<1>8. ToSet(s \o u) = ToSet(s) \cup ToSet(u)
  <2>1. ToSet(s \o u) \subseteq ToSet(s) \cup ToSet(u)
      BY <1>3 DEF ToSet
  <2>2. ToSet(s) \subseteq ToSet(s \o u)
      BY <1>4 DEF ToSet
  <2>3. ToSet(u) \subseteq ToSet(s \o u)
      BY <1>5 DEF ToSet
  <2> QED
      BY <2>1, <2>2, <2>3
<1> QED
    BY <1>1, <1>7, <1>8

------------------------------------------------------------------------------
(* The lists of the group and of the waits. *)

\* Submit calls that are still on their way, workers and cancellations leave the lists alone.
Elsewhere(t) ==
    \/ SubmitBegin(t) \/ PostAccepted(t) \/ PostRefused(t) \/ Run(t) \/ Discarded(t) \/ CancelTask(t)

\* Every variable keeps its type.
LEMMA TypeStep ==
    ASSUME GroupTypeOK, HeldOnce, [Next]_vars
    PROVE  GroupTypeOK'
<1>d. \A n \in Nat : n + 1 \in Nat
    OBVIOUS
<1>a. \A c \in Counters : stats[c] + 1 \in Nat
  <2>1. stats \in [Counters -> Nat]
      BY DEF GroupTypeOK
  <2>2. ASSUME NEW c \in Counters PROVE stats[c] \in Nat
      BY <2>1
  <2> QED
      BY <2>2, <1>d
<1>b. "submitted" \in Counters
    BY DEF Counters
<1>c. stats["submitted"] + 1 \in Nat
    BY <1>a, <1>b
<1> USE DEF GroupTypeOK, Outcomes, Counters, submitVars, waitVars
<1>1. ASSUME NEW t \in Tasks, Elsewhere(t) PROVE GroupTypeOK'
  <2>1. CASE SubmitBegin(t)
      BY <2>1 DEF SubmitBegin
  <2>2. CASE PostAccepted(t)
      BY <2>2 DEF PostAccepted
  <2>3. CASE PostRefused(t)
      BY <2>3 DEF PostRefused
  <2>4. CASE WorkerTakes(t)
      BY <2>4 DEF WorkerTakes, Taken
  <2>5. CASE WrapperBegins(t)
      BY <2>5 DEF WrapperBegins
  <2>6. ASSUME NEW how \in {"Completed", "Failed"}, CallbackEnds(t, how) PROVE GroupTypeOK'
      BY <2>6 DEF CallbackEnds
  <2>7. CASE Discarded(t)
      BY <2>7 DEF Discarded
  <2>8. CASE CancelTask(t)
      BY <2>8 DEF CancelTask
  <2> QED
      BY <1>1, <2>1, <2>2, <2>3, <2>4, <2>5, <2>6, <2>7, <2>8 DEF Elsewhere, Run
<1>2. ASSUME NEW t \in Tasks, Register(t) PROVE GroupTypeOK'
  <2>2. stats' \in [Counters -> Nat]
      BY <1>2, <1>c DEF Register
  <2>3. call' \in [Tasks -> {"new", "posting", "refused", "accepted", "returned"}]
      BY <1>2 DEF Register
  <2> QED
      BY <1>2, <2>2, <2>3 DEF Register
<1>3. CASE Cancel
    BY <1>3 DEF Cancel
<1>4. ASSUME NEW w \in Waiters, NEW kind \in {"wait", "until"}, WaitBegin(w, kind) PROVE GroupTypeOK'
  <2>1. waits + 1 \in Nat
    <3>1. waits \in Nat
        OBVIOUS
    <3> QED
        BY <3>1, <1>d, Zenon
  <2>2. due' \in [Waiters -> SUBSET Tasks]
      BY <1>4 DEF WaitBegin, Submitted
  <2>4. heldByOthers' \in [Waiters -> SUBSET Tasks]
    <3>1. UNION {InHands(v) : v \in Waiters \ {w}} \subseteq Tasks
        BY DEF HeldOnce, Unclassified, Submitted
    <3> QED
        BY <1>4, <3>1 DEF WaitBegin
  <2>3. place' \in [Waiters -> {"idle", "wait", "until", "ok", "timeout"}]
      BY <1>4 DEF WaitBegin
  <2> QED
      BY <1>4, <2>1, <2>2, <2>3, <2>4 DEF WaitBegin
<1>5. ASSUME NEW w \in Waiters, Observe(w) PROVE GroupTypeOK'
  <2>1. Outcome(Head(local[w])) \in Counters
    <3>1. local[w] \in Seq(Tasks) /\ local[w] # <<>>
        BY <1>5 DEF Observe, HeldOnce
    <3>2. Head(local[w]) \in Tasks
        BY <3>1, HeadTailProperties
    <3> QED
        BY <1>5, <3>2 DEF Observe, Ready, Outcome
  <2>2. stats[Outcome(Head(local[w]))] + 1 \in Nat
      BY <2>1, <1>a
  <2>3. stats' \in [Counters -> Nat]
      BY <1>5, <2>2 DEF Observe
  <2> QED
      BY <1>5, <2>3 DEF Observe
<1>6. ASSUME NEW w \in Waiters, GiveUp(w) \/ WaitEnd(w) PROVE GroupTypeOK'
    BY <1>6 DEF GiveUp, WaitEnd, Result
<1>7. CASE UNCHANGED vars
    BY <1>7 DEF vars
<1> QED
    BY <1>1, <1>2, <1>3, <1>4, <1>5, <1>6, <1>7 DEF Next, Submit, Waiting, Elsewhere

\* A task whose Submit returns joins the list of the group.
LEMMA RegisterLists ==
    ASSUME GroupTypeOK, HeldOnce, NEW t \in Tasks, Register(t)
    PROVE  /\ HeldOnce'
           /\ t \notin Submitted /\ Submitted' = Submitted \cup {t}
           /\ Unclassified' = Unclassified \cup {t}
           /\ \A w \in Waiters : InHands(w)' = InHands(w)
<1>1. t \notin Submitted /\ Submitted' = Submitted \cup {t}
    BY DEF Register, Submitted, GroupTypeOK
<1>2. UNCHANGED <<local, pending, place>> /\ \A w \in Waiters : InHands(w)' = InHands(w)
    BY DEF Register, waitVars, InHands
<1>3. t \notin ToSet(futures) /\ \A w \in Waiters : t \notin InHands(w)
    BY <1>1 DEF HeldOnce, Unclassified
<1>4. /\ futures' \in Seq(Tasks) /\ IsInjective(futures')
      /\ ToSet(futures') = ToSet(futures) \cup {t}
    BY <1>3, AppendedList DEF Register, HeldOnce
<1>5. Unclassified' = Unclassified \cup {t}
    BY <1>2, <1>4 DEF Unclassified
<1>6. HeldOnce'
    BY <1>1, <1>2, <1>3, <1>4, <1>5 DEF HeldOnce
<1> QED
    BY <1>1, <1>2, <1>5, <1>6

\* A wait takes the whole list of the group into its hands.
LEMMA WaitBeginLists ==
    ASSUME GroupTypeOK, HeldOnce, NEW w \in Waiters, NEW kind \in {"wait", "until"}, WaitBegin(w, kind)
    PROVE  /\ HeldOnce' /\ Submitted' = Submitted /\ Unclassified' = Unclassified
           /\ InHands(w)' = ToSet(futures)
           /\ \A v \in Waiters \ {w} : InHands(v)' = InHands(v)
<1>1. /\ local[w] = <<>> /\ pending[w] = <<>> /\ InHands(w) = {}
      /\ local'[w] = futures /\ pending' = pending /\ futures' = <<>>
      /\ \A v \in Waiters \ {w} : local'[v] = local[v] /\ place'[v] = place[v]
      /\ place'[w] = kind
    BY EmptyList DEF WaitBegin, HeldOnce, GroupTypeOK, InHands
<1>2. /\ InHands(w)' = ToSet(futures) /\ ToSet(futures') = {}
      /\ \A v \in Waiters \ {w} : InHands(v)' = InHands(v)
    BY <1>1, EmptyList DEF InHands
<1>3. Submitted' = Submitted
    BY DEF WaitBegin, submitVars, Submitted
<1>4. Unclassified' = Unclassified
    BY <1>1, <1>2 DEF Unclassified
<1>5. local' \in [Waiters -> Seq(Tasks)] /\ futures' \in Seq(Tasks) /\ IsInjective(futures')
    BY <1>1, EmptyList DEF WaitBegin, HeldOnce
<1>6. ASSUME NEW u \in Waiters, NEW v \in Waiters, u # v PROVE InHands(u)' \cap InHands(v)' = {}
  <2>1. \A x \in Waiters \ {w} : ToSet(futures) \cap InHands(x) = {}
      BY DEF HeldOnce
  <2>2. CASE u # w /\ v # w
      BY <1>2, <1>6, <2>2 DEF HeldOnce
  <2> QED
      BY <1>2, <1>6, <2>1, <2>2
<1>7. ASSUME NEW v \in Waiters
      PROVE  /\ IsInjective(local'[v]) /\ IsInjective(pending'[v])
             /\ ToSet(local'[v]) \cap ToSet(pending'[v]) = {}
             /\ place'[v] \notin {"wait", "until"} => local'[v] = <<>> /\ pending'[v] = <<>>
    BY <1>1, EmptyList DEF HeldOnce
<1>8. \A v \in Waiters : InHands(v)' \cap ToSet(futures') = {}
    BY <1>2
<1>9. pending' \in [Waiters -> Seq(Tasks)] /\ Unclassified' \subseteq Submitted'
    BY <1>1, <1>3, <1>4 DEF HeldOnce
<1>10. HeldOnce'
    BY <1>5, <1>6, <1>7, <1>8, <1>9 DEF HeldOnce
<1> QED
    BY <1>2, <1>3, <1>4, <1>10

\* A wait that observes a settled future takes it off its list.
LEMMA ObserveLists ==
    ASSUME GroupTypeOK, HeldOnce, NEW w \in Waiters, Observe(w)
    PROVE  /\ HeldOnce' /\ Submitted' = Submitted
           /\ Head(local[w]) \in Unclassified /\ Unclassified' = Unclassified \ {Head(local[w])}
           /\ InHands(w)' = InHands(w) \ {Head(local[w])}
           /\ \A v \in Waiters \ {w} : InHands(v)' = InHands(v)
<1> DEFINE t == Head(local[w])
<1>1. /\ local[w] \in Seq(Tasks) /\ local[w] # <<>> /\ IsInjective(local[w])
      /\ local'[w] = Tail(local[w]) /\ UNCHANGED <<futures, pending, place>>
      /\ \A v \in Waiters \ {w} : local'[v] = local[v]
    BY DEF Observe, HeldOnce
<1>2. /\ local'[w] \in Seq(Tasks) /\ IsInjective(local'[w])
      /\ t \in ToSet(local[w]) /\ ToSet(local'[w]) = ToSet(local[w]) \ {t}
    BY <1>1, TailOfList
<1> HIDE DEF t
<1>3. t \in InHands(w) /\ t \notin ToSet(pending[w]) /\ t \notin ToSet(futures)
      /\ \A v \in Waiters \ {w} : t \notin InHands(v)
    BY <1>2 DEF HeldOnce, InHands
<1>4. /\ InHands(w)' = InHands(w) \ {t}
      /\ \A v \in Waiters \ {w} : InHands(v)' = InHands(v)
    BY <1>1, <1>2, <1>3 DEF InHands
<1>5. t \in Unclassified /\ Unclassified' = Unclassified \ {t}
    BY <1>1, <1>3, <1>4 DEF Unclassified
<1>6. Submitted' = Submitted
    BY DEF Observe, submitVars, Submitted
<1>7. local' \in [Waiters -> Seq(Tasks)]
    BY <1>2 DEF Observe, HeldOnce
<1>8. place[w] \in {"wait", "until"}
    BY DEF Observe
<1>9. ASSUME NEW u \in Waiters, NEW v \in Waiters, u # v PROVE InHands(u)' \cap InHands(v)' = {}
  <2>1. InHands(u)' \subseteq InHands(u) /\ InHands(v)' \subseteq InHands(v)
      BY <1>4
  <2> QED
      BY <2>1, <1>9 DEF HeldOnce
<1>10. ASSUME NEW v \in Waiters
       PROVE  /\ IsInjective(local'[v]) /\ IsInjective(pending'[v])
              /\ ToSet(local'[v]) \cap ToSet(pending'[v]) = {}
              /\ place'[v] \notin {"wait", "until"} => local'[v] = <<>> /\ pending'[v] = <<>>
    BY <1>1, <1>2, <1>8 DEF HeldOnce
<1>11. \A v \in Waiters : InHands(v)' \cap ToSet(futures') = {}
    BY <1>1, <1>4 DEF HeldOnce
<1>12. /\ pending' \in [Waiters -> Seq(Tasks)] /\ futures' \in Seq(Tasks) /\ IsInjective(futures')
       /\ Unclassified' \subseteq Submitted'
    BY <1>1, <1>5, <1>6 DEF HeldOnce
<1>13. HeldOnce'
    BY <1>7, <1>9, <1>10, <1>11, <1>12 DEF HeldOnce
<1> QED
    BY <1>4, <1>5, <1>6, <1>13 DEF t

\* A wait whose deadline has passed moves an unready future from one hand to the other.
LEMMA GiveUpLists ==
    ASSUME GroupTypeOK, HeldOnce, NEW w \in Waiters, GiveUp(w)
    PROVE  /\ HeldOnce' /\ Submitted' = Submitted /\ Unclassified' = Unclassified
           /\ \A v \in Waiters : InHands(v)' = InHands(v)
<1> DEFINE t == Head(local[w])
<1>1. /\ local[w] \in Seq(Tasks) /\ local[w] # <<>> /\ IsInjective(local[w])
      /\ pending[w] \in Seq(Tasks) /\ IsInjective(pending[w])
      /\ local'[w] = Tail(local[w]) /\ pending'[w] = Append(pending[w], t)
      /\ UNCHANGED <<futures, place>>
      /\ \A v \in Waiters \ {w} : local'[v] = local[v] /\ pending'[v] = pending[v]
    BY DEF GiveUp, HeldOnce
<1>2. /\ local'[w] \in Seq(Tasks) /\ IsInjective(local'[w]) /\ t \in Tasks
      /\ t \in ToSet(local[w]) /\ ToSet(local'[w]) = ToSet(local[w]) \ {t}
    BY <1>1, TailOfList
<1> HIDE DEF t
<1>3. t \notin ToSet(pending[w])
    BY <1>2 DEF HeldOnce, InHands
<1>4. /\ pending'[w] \in Seq(Tasks) /\ IsInjective(pending'[w])
      /\ ToSet(pending'[w]) = ToSet(pending[w]) \cup {t}
    BY <1>1, <1>2, <1>3, AppendedList
<1>5. \A v \in Waiters : InHands(v)' = InHands(v)
    BY <1>1, <1>2, <1>4 DEF InHands
<1>6. Submitted' = Submitted /\ Unclassified' = Unclassified
    BY <1>1, <1>5 DEF GiveUp, submitVars, Submitted, Unclassified
<1>7. local' \in [Waiters -> Seq(Tasks)] /\ pending' \in [Waiters -> Seq(Tasks)]
    BY <1>2, <1>4 DEF GiveUp, HeldOnce
<1>8. place[w] = "until"
    BY DEF GiveUp
<1>9. ToSet(local'[w]) \cap ToSet(pending'[w]) = {}
    BY <1>2, <1>4 DEF HeldOnce
<1>10. HeldOnce'
    BY <1>1, <1>2, <1>4, <1>5, <1>6, <1>7, <1>8, <1>9 DEF HeldOnce
<1> QED
    BY <1>5, <1>6, <1>10

\* A wait that ends puts the unready futures back.
LEMMA WaitEndLists ==
    ASSUME GroupTypeOK, HeldOnce, NEW w \in Waiters, WaitEnd(w)
    PROVE  /\ HeldOnce' /\ Submitted' = Submitted /\ Unclassified' = Unclassified
           /\ \A v \in Waiters \ {w} : InHands(v)' = InHands(v)
           /\ pending[w] = <<>> => InHands(w) = {}
<1>1. /\ local[w] = <<>> /\ futures' = futures \o pending[w] /\ pending'[w] = <<>>
      /\ UNCHANGED local /\ \A v \in Waiters \ {w} : pending'[v] = pending[v] /\ place'[v] = place[v]
      /\ InHands(w) = ToSet(pending[w])
    BY EmptyList DEF WaitEnd, FuturesReturned, HeldOnce, InHands, GroupTypeOK
<1>2. /\ futures' \in Seq(Tasks) /\ IsInjective(futures')
      /\ ToSet(futures') = ToSet(futures) \cup InHands(w)
    BY <1>1, JoinedLists DEF HeldOnce
<1>3. InHands(w)' = {} /\ \A v \in Waiters \ {w} : InHands(v)' = InHands(v)
    BY <1>1, EmptyList DEF InHands
<1>4. Submitted' = Submitted
    BY DEF WaitEnd, submitVars, Submitted
<1>5. Unclassified' = Unclassified
    BY <1>2, <1>3 DEF Unclassified
<1>6. pending' \in [Waiters -> Seq(Tasks)]
    BY EmptyList DEF WaitEnd, HeldOnce
<1>7. ASSUME NEW u \in Waiters, NEW v \in Waiters, u # v PROVE InHands(u)' \cap InHands(v)' = {}
    BY <1>3, <1>7 DEF HeldOnce
<1>8. ASSUME NEW v \in Waiters
      PROVE  /\ IsInjective(local'[v]) /\ IsInjective(pending'[v])
             /\ ToSet(local'[v]) \cap ToSet(pending'[v]) = {}
             /\ place'[v] \notin {"wait", "until"} => local'[v] = <<>> /\ pending'[v] = <<>>
    BY <1>1, EmptyList DEF HeldOnce
<1>9. ASSUME NEW v \in Waiters PROVE InHands(v)' \cap ToSet(futures') = {}
  <2>1. CASE v = w
      BY <1>3, <2>1
  <2>2. CASE v # w
    <3>1. InHands(v) \cap ToSet(futures) = {} /\ InHands(v) \cap InHands(w) = {}
        BY <2>2 DEF HeldOnce
    <3> QED
        BY <1>2, <1>3, <2>2, <3>1
  <2> QED
      BY <2>1, <2>2
<1>10. local' \in [Waiters -> Seq(Tasks)] /\ Unclassified' \subseteq Submitted'
    BY <1>1, <1>4, <1>5 DEF HeldOnce
<1>11. HeldOnce'
    BY <1>2, <1>6, <1>7, <1>8, <1>9, <1>10 DEF HeldOnce
<1> QED
    BY <1>1, <1>3, <1>4, <1>5, <1>11, EmptyList

\* Nothing else touches the lists.
LEMMA ElsewhereLists ==
    ASSUME GroupTypeOK, HeldOnce, (\E t \in Tasks : Elsewhere(t)) \/ Cancel \/ UNCHANGED vars
    PROVE  /\ HeldOnce' /\ Submitted' = Submitted /\ Unclassified' = Unclassified
           /\ \A v \in Waiters : InHands(v)' = InHands(v)
           /\ UNCHANGED <<stats, place, due, heldByOthers>>
<1>1. UNCHANGED <<futures, waitVars, stats>>
    BY DEF Elsewhere, SubmitBegin, PostAccepted, PostRefused, Run, WorkerTakes, WrapperBegins,
        CallbackEnds, Discarded, CancelTask, Cancel, vars
<1>2. Submitted' = Submitted
  <2>1. ASSUME NEW t \in Tasks, SubmitBegin(t) \/ PostAccepted(t) \/ PostRefused(t)
        PROVE  Submitted' = Submitted
      BY <2>1 DEF SubmitBegin, PostAccepted, PostRefused, Submitted, GroupTypeOK
  <2>2. CASE UNCHANGED call
      BY <2>2 DEF Submitted
  <2> QED
      BY <2>1, <2>2 DEF Elsewhere, Run, WorkerTakes, WrapperBegins, CallbackEnds, Discarded,
          CancelTask, Cancel, vars, submitVars
<1>3. Unclassified' = Unclassified /\ \A v \in Waiters : InHands(v)' = InHands(v)
    BY <1>1 DEF Unclassified, InHands, waitVars
<1>4. HeldOnce'
    BY <1>1, <1>2, <1>3 DEF HeldOnce, waitVars
<1> QED
    BY <1>1, <1>2, <1>3, <1>4 DEF waitVars

------------------------------------------------------------------------------
(* The statistics. *)

\* What is classified stays so: only an observed future joins it.
LEMMA ClassifiedStep ==
    ASSUME GroupTypeOK, HeldOnce, [Next]_vars
    PROVE  /\ HeldOnce'
           /\ \/ Classified' = Classified
              \/ \E w \in Waiters : Observe(w) /\ Classified' = Classified \cup {Head(local[w])}
<1>1. ASSUME NEW t \in Tasks, Register(t) PROVE HeldOnce' /\ Classified' = Classified
    BY <1>1, RegisterLists DEF Classified
<1>2. ASSUME NEW w \in Waiters, Observe(w)
      PROVE  HeldOnce' /\ Classified' = Classified \cup {Head(local[w])}
  <2>1. Head(local[w]) \in Submitted
      BY <1>2, ObserveLists DEF HeldOnce
  <2> QED
      BY <1>2, <2>1, ObserveLists DEF Classified
<1>3. ASSUME NEW w \in Waiters, GiveUp(w) \/ WaitEnd(w) PROVE HeldOnce' /\ Classified' = Classified
    BY <1>3, GiveUpLists, WaitEndLists DEF Classified
<1>4. ASSUME NEW w \in Waiters, NEW kind \in {"wait", "until"}, WaitBegin(w, kind)
      PROVE  HeldOnce' /\ Classified' = Classified
    BY <1>4, WaitBeginLists DEF Classified
<1>5. ASSUME (\E t \in Tasks : Elsewhere(t)) \/ Cancel \/ UNCHANGED vars
      PROVE  HeldOnce' /\ Classified' = Classified
    BY <1>5, ElsewhereLists DEF Classified
<1> QED
    BY <1>1, <1>2, <1>3, <1>4, <1>5 DEF Next, Submit, Waiting, Elsewhere

\* A settled promise stays as it is, and so does the end of its callback.
LEMMA SettledStep ==
    ASSUME GroupTypeOK, HeldOnce, SettledAgree, [Next]_vars
    PROVE  /\ SettledAgree'
           /\ \A t \in Classified : ended'[t] = ended[t]
<1> USE DEF GroupTypeOK, Ready, Outcomes
<1> DEFINE Kept(t) == promise'[t] = promise[t] /\ ended'[t] = ended[t]
           Moved(t) == ~Ready(t) /\ (ended'[t] = IF promise'[t] \in {"Completed", "Failed"} THEN promise'[t]
                                                ELSE "never ran")
           Unposted(t) == call'[t] \in {"new", "posting"} => promise'[t] = "none"
           Steps == \A t \in Tasks : (Kept(t) \/ Moved(t)) /\ Unposted(t)
<1>1. ASSUME NEW t \in Tasks, SubmitBegin(t) \/ PostRefused(t) \/ Register(t) \/ CancelTask(t) PROVE Steps
  <2>1. promise' = promise /\ ended' = ended
      BY <1>1 DEF SubmitBegin, PostRefused, Register, CancelTask
  <2>2. \A u \in Tasks : call'[u] \in {"new", "posting"} => call[u] \in {"new", "posting"}
      BY <1>1 DEF SubmitBegin, PostRefused, Register, CancelTask
  <2> QED
      BY <2>1, <2>2 DEF SettledAgree
<1>2. ASSUME NEW t \in Tasks, PostAccepted(t) PROVE Steps
    BY <1>2 DEF PostAccepted, SettledAgree
<1>3. ASSUME NEW t \in Tasks, WorkerTakes(t) \/ WrapperBegins(t) \/ Discarded(t) PROVE Steps
  <2>1. /\ promise[t] \in {"queued", "started"} /\ promise'[t] \notin {"Completed", "Failed"}
        /\ ended' = ended /\ call' = call /\ \A u \in Tasks \ {t} : promise'[u] = promise[u]
      BY <1>3 DEF WorkerTakes, Taken, WrapperBegins, Discarded
  <2>2. (Kept(t) \/ Moved(t)) /\ Unposted(t)
      BY <2>1 DEF SettledAgree
  <2>3. \A u \in Tasks \ {t} : Kept(u) /\ Unposted(u)
      BY <2>1 DEF SettledAgree
  <2> QED
      BY <2>2, <2>3
<1>4. ASSUME NEW t \in Tasks, NEW how \in {"Completed", "Failed"}, CallbackEnds(t, how) PROVE Steps
    BY <1>4 DEF CallbackEnds, SettledAgree
<1>5. ASSUME UNCHANGED <<call, promise, ended>> PROVE Steps
    BY <1>5 DEF SettledAgree
<1>w. ASSUME NEW w \in Waiters, Waiting(w) \/ \E kind \in {"wait", "until"} : WaitBegin(w, kind)
      PROVE  UNCHANGED <<call, promise, ended>>
    BY <1>w DEF Waiting, WaitBegin, Observe, GiveUp, WaitEnd, submitVars
<1>c. ASSUME Cancel \/ UNCHANGED vars PROVE UNCHANGED <<call, promise, ended>>
    BY <1>c DEF Cancel, vars, submitVars
<1>6. Steps
  <2> HIDE DEF Steps
  <2> QED
      BY <1>1, <1>2, <1>3, <1>4, <1>5, <1>w, <1>c DEF Next, Submit, Run
<1>7. \A t \in Tasks : Ready(t) => Kept(t)
    BY <1>6
<1>8. \A t \in Classified' : Ready(t)
  <2>1. CASE Classified' = Classified
      BY <2>1 DEF SettledAgree
  <2>2. ASSUME NEW w \in Waiters, Observe(w), Classified' = Classified \cup {Head(local[w])}
        PROVE  \A t \in Classified' : Ready(t)
      BY <2>2 DEF SettledAgree, Observe
  <2> QED
      BY <2>1, <2>2, ClassifiedStep
<1>9. Classified \subseteq Tasks /\ Classified' \subseteq Tasks
    BY DEF Classified, Submitted
<1>10. SettledAgree'
  <2>1. \A t \in Classified' : Ready(t)'
      BY <1>7, <1>8, <1>9
  <2>2. \A t \in Tasks : Unposted(t)
      BY <1>6
  <2>3. ASSUME NEW t \in Tasks
        PROVE  ended'[t] = IF promise'[t] \in {"Completed", "Failed"} THEN promise'[t] ELSE "never ran"
    <3>1. ended[t] = IF promise[t] \in {"Completed", "Failed"} THEN promise[t] ELSE "never ran"
        BY DEF SettledAgree
    <3>2. Kept(t) \/ Moved(t)
        BY <1>6
    <3> QED
        BY <3>1, <3>2
  <2> QED
      BY <2>1, <2>2, <2>3 DEF SettledAgree
<1> QED
    BY <1>7, <1>9, <1>10 DEF SettledAgree

\* What a group counts: the tasks among cs whose callback ended that way.
Count(cs, en, how) == Cardinality({t \in cs : en[t] = how})

\* A new task is counted once, under the end of its callback.
LEMMA CountJoined ==
    ASSUME NEW cs, IsFiniteSet(cs), NEW h, h \notin cs, NEW en, NEW how
    PROVE  /\ en[h] = how => Count(cs \cup {h}, en, how) = Count(cs, en, how) + 1
           /\ en[h] # how => Count(cs \cup {h}, en, how) = Count(cs, en, how)
<1> DEFINE old == {t \in cs : en[t] = how}
<1>1. IsFiniteSet(old) /\ h \notin old
    BY FS_Subset
<1>2. {t \in cs \cup {h} : en[t] = how} = IF en[h] = how THEN old \cup {h} ELSE old
    OBVIOUS
<1>3. Cardinality(old) \in Nat /\ Cardinality(old \cup {h}) = Cardinality(old) + 1
    BY <1>1, FS_CardinalityType, FS_AddElement
<1> HIDE DEF old
<1>4. CASE en[h] = how
    BY <1>2, <1>3, <1>4 DEF Count, old
<1>5. CASE en[h] # how
    BY <1>2, <1>3, <1>5 DEF Count, old
<1> QED
    BY <1>4, <1>5

\* A wait adds to one counter what it has observed, and nothing else is counted but
\* new submissions.
LEMMA OutcomesStep ==
    ASSUME GroupTypeOK, HeldOnce, SettledAgree, OutcomesAgree, [Next]_vars
    PROVE  OutcomesAgree'
<1>1. IsFiniteSet(Submitted) /\ IsFiniteSet(Classified) /\ Classified \subseteq Submitted /\ Submitted \subseteq Tasks
    BY GroupAssumption, FS_Subset DEF Submitted, Classified
<1>2. \A t \in Classified : ended'[t] = ended[t]
    BY SettledStep
<1>3. \A how : Count(Classified, ended', how) = Count(Classified, ended, how)
  <2> TAKE how
  <2>1. {t \in Classified : ended'[t] = how} = {t \in Classified : ended[t] = how}
      BY <1>2
  <2> QED
      BY <2>1 DEF Count
<1>4. ASSUME NEW t \in Tasks, Register(t) PROVE OutcomesAgree'
  <2>1. Cardinality(Submitted') = Cardinality(Submitted) + 1
      BY <1>4, <1>1, RegisterLists, FS_AddElement
  <2>2. Classified' = Classified
      BY <1>4, RegisterLists DEF Classified
  <2>3. /\ stats'["submitted"] = stats["submitted"] + 1
        /\ \A c \in Outcomes : stats'[c] = stats[c]
        /\ ended' = ended
      BY <1>4 DEF Register, GroupTypeOK, Outcomes, Counters
  <2> QED
      BY <2>1, <2>2, <2>3 DEF OutcomesAgree, Outcomes
<1>5. ASSUME NEW w \in Waiters, Observe(w) PROVE OutcomesAgree'
  <2> DEFINE h == Head(local[w])
  <2>1. /\ h \in Submitted /\ h \notin Classified /\ Classified' = Classified \cup {h}
        /\ Submitted' = Submitted /\ ended' = ended /\ Ready(h)
        /\ stats' = [stats EXCEPT ![Outcome(h)] = @ + 1]
    <3>1. h \in Unclassified /\ h \in Submitted
        BY <1>5, ObserveLists DEF HeldOnce
    <3> QED
        BY <1>5, <3>1, ObserveLists DEF Classified, Observe, submitVars
  <2> HIDE DEF h
  <2>2. /\ Outcome(h) \in Outcomes
        /\ ended[h] = IF Outcome(h) = "Cancelled" THEN "never ran" ELSE Outcome(h)
      BY <1>1, <2>1 DEF Ready, Outcome, Outcomes, SettledAgree
  <2>3. \A c \in Counters :
            /\ stats[c] \in Nat
            /\ c = Outcome(h) => stats'[c] = stats[c] + 1
            /\ c # Outcome(h) => stats'[c] = stats[c]
    <3>1. stats \in [Counters -> Nat]
        BY DEF GroupTypeOK
    <3> QED
        BY <2>1, <3>1
  <2>4. \A how :
            /\ ended[h] = how => Count(Classified', ended', how) = Count(Classified, ended, how) + 1
            /\ ended[h] # how => Count(Classified', ended', how) = Count(Classified, ended, how)
    <3> TAKE how
    <3>1. IsFiniteSet(Classified) /\ h \notin Classified
        BY <1>1, <2>1
    <3>2. /\ ended[h] = how => Count(Classified \cup {h}, ended, how) = Count(Classified, ended, how) + 1
          /\ ended[h] # how => Count(Classified \cup {h}, ended, how) = Count(Classified, ended, how)
        BY <3>1, CountJoined, SMT
    <3> QED
        BY <2>1, <3>2, Zenon
  <2>5. stats'["submitted"] = Cardinality(Submitted')
    <3>1. "submitted" \in Counters /\ "submitted" # Outcome(h)
        BY <2>2 DEF Counters, Outcomes
    <3>2. stats'["submitted"] = stats["submitted"]
        BY <2>3, <3>1
    <3> QED
        BY <2>1, <3>2 DEF OutcomesAgree
  <2>6. stats'["Cancelled"] = Count(Classified', ended', "never ran")
    <3>1. "Cancelled" \in Counters
        BY DEF Counters, Outcomes
    <3>2. (ended[h] = "never ran") <=> ("Cancelled" = Outcome(h))
        BY <2>2 DEF Outcomes
    <3>3. stats["Cancelled"] = Count(Classified, ended, "never ran")
        BY DEF OutcomesAgree, Count
    <3>4. CASE ended[h] = "never ran"
        BY <2>3, <2>4, <3>1, <3>2, <3>3, <3>4
    <3>5. CASE ended[h] # "never ran"
        BY <2>3, <2>4, <3>1, <3>2, <3>3, <3>5
    <3> QED
        BY <3>4, <3>5
  <2>7. ASSUME NEW how \in {"Completed", "Failed"} PROVE stats'[how] = Count(Classified', ended', how)
    <3>1. how \in Counters
        BY DEF Counters, Outcomes
    <3>2. (ended[h] = how) <=> (how = Outcome(h))
        BY <2>2 DEF Outcomes
    <3>3. stats[how] = Count(Classified, ended, how)
        BY DEF OutcomesAgree, Count
    <3>4. CASE ended[h] = how
        BY <2>3, <2>4, <3>1, <3>2, <3>3, <3>4
    <3>5. CASE ended[h] # how
        BY <2>3, <2>4, <3>1, <3>2, <3>3, <3>5
    <3> QED
        BY <3>4, <3>5
  <2> QED
      BY <2>5, <2>6, <2>7 DEF OutcomesAgree, Count
<1>6. ASSUME UNCHANGED stats, Submitted' = Submitted, Classified' = Classified PROVE OutcomesAgree'
    BY <1>3, <1>6 DEF OutcomesAgree, Count
<1>7. ASSUME NEW w \in Waiters, GiveUp(w) \/ WaitEnd(w) PROVE OutcomesAgree'
    BY <1>7, <1>6, GiveUpLists, WaitEndLists DEF Classified, GiveUp, WaitEnd
<1>8. ASSUME NEW w \in Waiters, NEW kind \in {"wait", "until"}, WaitBegin(w, kind) PROVE OutcomesAgree'
    BY <1>8, <1>6, WaitBeginLists DEF Classified, WaitBegin
<1>9. ASSUME (\E t \in Tasks : Elsewhere(t)) \/ Cancel \/ UNCHANGED vars PROVE OutcomesAgree'
    BY <1>9, <1>6, ElsewhereLists DEF Classified
<1> QED
    BY <1>4, <1>5, <1>7, <1>8, <1>9 DEF Next, Submit, Waiting, Elsewhere

------------------------------------------------------------------------------
(* What a wait owes. *)

\* Where a wait has nothing in its hands but what it had or has just taken, it still holds
\* all that it owes.
LEMMA OwedStep ==
    ASSUME GroupTypeOK, HeldOnce, OwedInHands, [Next]_vars
    PROVE  OwedInHands'
<1>1. ASSUME NEW t \in Tasks, Register(t) PROVE OwedInHands'
  <2>1. UNCHANGED <<place, due, heldByOthers>>
      BY <1>1 DEF Register, waitVars
  <2> QED
      BY <1>1, <2>1, RegisterLists DEF OwedInHands, Owed
<1>2. ASSUME NEW w \in Waiters, Observe(w) PROVE OwedInHands'
  <2>1. UNCHANGED <<place, due, heldByOthers>>
      BY <1>2 DEF Observe
  <2>2. \A v \in Waiters : InHands(v) \ {Head(local[w])} \subseteq InHands(v)'
      BY <1>2, ObserveLists
  <2> QED
      BY <1>2, <2>1, <2>2, ObserveLists DEF OwedInHands, Owed
<1>3. ASSUME NEW w \in Waiters, GiveUp(w) PROVE OwedInHands'
  <2>1. UNCHANGED <<place, due, heldByOthers>>
      BY <1>3 DEF GiveUp
  <2> QED
      BY <1>3, <2>1, GiveUpLists DEF OwedInHands, Owed
<1>4. ASSUME NEW w \in Waiters, WaitEnd(w) PROVE OwedInHands'
  <2>1. /\ \A v \in Waiters \ {w} : Owed(v)' = Owed(v)
        /\ place'[w] \notin {"wait", "until"}
        /\ \A v \in Waiters \ {w} : place'[v] = place[v]
      BY <1>4 DEF WaitEnd, Result, GroupTypeOK, Owed
  <2> QED
      BY <1>4, <2>1, WaitEndLists DEF OwedInHands, Owed
<1>5. ASSUME NEW w \in Waiters, NEW kind \in {"wait", "until"}, WaitBegin(w, kind) PROVE OwedInHands'
  <2>1. /\ Owed(w)' = Submitted \ UNION {InHands(v) : v \in Waiters \ {w}}
        /\ \A v \in Waiters \ {w} : place'[v] = place[v] /\ Owed(v)' = Owed(v)
      BY <1>5 DEF WaitBegin, GroupTypeOK, Owed
  <2>2. Unclassified \subseteq InHands(w)' \cup UNION {InHands(v) : v \in Waiters \ {w}}
    <3>1. InHands(w) = {}
        BY <1>5, EmptyList DEF WaitBegin, HeldOnce, InHands
    <3> QED
        BY <1>5, <3>1, WaitBeginLists DEF Unclassified
  <2>3. Owed(w)' \subseteq Submitted' /\ Owed(w)' \cap Unclassified' \subseteq InHands(w)'
      BY <1>5, <2>1, <2>2, WaitBeginLists
  <2>4. ASSUME NEW v \in Waiters \ {w}, place'[v] \in {"wait", "until"}
        PROVE  Owed(v)' \subseteq Submitted' /\ Owed(v)' \cap Unclassified' \subseteq InHands(v)'
      BY <1>5, <2>1, <2>4, WaitBeginLists DEF OwedInHands, Owed
  <2> QED
      BY <2>3, <2>4 DEF OwedInHands, Owed
<1>6. ASSUME (\E t \in Tasks : Elsewhere(t)) \/ Cancel \/ UNCHANGED vars PROVE OwedInHands'
    BY <1>6, ElsewhereLists DEF OwedInHands, Owed
<1> QED
    BY <1>1, <1>2, <1>3, <1>4, <1>5, <1>6 DEF Next, Submit, Waiting, Elsewhere

\* A wait that returns ok has nothing left in its hands.
LEMMA OkMeansClassified ==
    ASSUME GroupInv, [Next]_vars, NEW w \in Waiters,
           place[w] \in {"wait", "until"}, place'[w] = "ok"
    PROVE  Owed(w) \subseteq Classified
<1>1. WaitEnd(w)
  <2>1. ASSUME NEW v \in Waiters, WaitEnd(v) \/ \E kind \in {"wait", "until"} : WaitBegin(v, kind)
        PROVE  v = w \/ place'[w] = place[w]
      BY <2>1 DEF WaitEnd, WaitBegin, GroupInv, GroupTypeOK
  <2>2. ~ \E kind \in {"wait", "until"} : WaitBegin(w, kind)
      BY DEF WaitBegin
  <2>3. place' = place \/ \E v \in Waiters : WaitEnd(v) \/ \E kind \in {"wait", "until"} : WaitBegin(v, kind)
      BY ElsewhereLists DEF GroupInv, Next, Submit, Waiting, Elsewhere, Register, Observe, GiveUp, waitVars
  <2> QED
      BY <2>1, <2>2, <2>3
<1>2. pending[w] = <<>>
    BY <1>1 DEF WaitEnd, Result, GroupInv, GroupTypeOK
<1>3. InHands(w) = {}
    BY <1>1, <1>2, WaitEndLists DEF GroupInv
<1> QED
    BY <1>3 DEF GroupInv, OwedInHands, Classified

------------------------------------------------------------------------------
(* The theorems. *)

\* A new group has nothing submitted, and its waits hold nothing.
LEMMA GroupInit ==
    ASSUME Init
    PROVE  GroupInv
<1>1. GroupTypeOK
    BY DEF Init, GroupTypeOK, Outcomes, Counters
<1>2. Submitted = {} /\ Unclassified = {} /\ Classified = {}
    BY EmptyList DEF Init, Submitted, Unclassified, Classified, InHands
<1>3. HeldOnce
    BY <1>2, EmptyList DEF Init, HeldOnce, InHands
<1>4. SettledAgree
    BY <1>2 DEF Init, SettledAgree
<1>5. OwedInHands
    BY DEF Init, OwedInHands
<1>6. OutcomesAgree
  <2>1. \A how : {t \in Classified : ended[t] = how} = {}
      BY <1>2
  <2> QED
      BY <1>2, <2>1, FS_EmptySet DEF Init, OutcomesAgree, Counters, Outcomes
<1> QED
    BY <1>1, <1>3, <1>4, <1>5, <1>6 DEF GroupInv

\* The inductive invariant: every submitted task is in one place, until a wait has observed
\* how it ended and has counted it (Submit, Wait, WaitUntil).
THEOREM GroupCustody == Spec => []GroupInv
<1>1. Init => GroupInv
    BY GroupInit
<1>2. GroupInv /\ [Next]_vars => GroupInv'
    BY TypeStep, ClassifiedStep, SettledStep, OwedStep, OutcomesStep DEF GroupInv
<1> QED
    BY <1>1, <1>2, PTL DEF Spec

\* The statistics of a group count every submitted task once, under what happened to its
\* callback, however many waits overlap and time out (RecordOutcome, GetStats).
THEOREM GroupStatisticsRight == Spec => []OutcomesAgree
<1>1. GroupInv => OutcomesAgree
    BY DEF GroupInv
<1> QED
    BY <1>1, GroupCustody, PTL

\* A wait that returns ok has classified every task submitted before it began that no other
\* wait had taken by then (Wait, WaitUntil).
THEOREM WaitsClassify == Spec => WaitClassifiesUnheld
<1>1. GroupInv /\ [Next]_vars =>
          [\A w \in Waiters :
             Succeeds(w) => Owed(w) \subseteq Classified]_vars
    BY OkMeansClassified DEF Succeeds
<1> QED
    BY <1>1, GroupCustody, PTL DEF Spec, WaitClassifiesUnheld

===============================================================================
