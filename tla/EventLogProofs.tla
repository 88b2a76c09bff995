--------------------------- MODULE EventLogProofs ---------------------------
(***************************************************************************)
(* What the readers of the log (EventLog) and the Resume Coordinator        *)
(* (Resume) return, for every log, and how an append changes it.  The       *)
(* proofs by induction take a least counterexample.                         *)
(***************************************************************************)
EXTENDS Resume, FiniteSetTheorems, WellFoundedInduction, TLAPS

\* A set of natural numbers has a least member.
LEMMA LeastNat ==
    ASSUME NEW S \in SUBSET Nat, S # {}
    PROVE  \E x \in S : \A y \in S : x <= y
<1>1. IsWellFoundedOn({p \in Nat \X Nat : p[1] < p[2]}, Nat)
    BY NatLessThanWellFounded, Zenon DEF OpToRel
<1>2. PICK x \in S : \A y \in S : ~(<<y, x>> \in {p \in Nat \X Nat : p[1] < p[2]})
    BY <1>1, WFMin
<1>3. \A y \in S : ~(y < x)
    BY <1>2
<1> QED
    BY <1>3

\* A set of positions is finite.
LEMMA PositionsFinite ==
    ASSUME NEW n \in Nat, NEW S \in SUBSET (1..n)
    PROVE  IsFiniteSet(S) /\ Cardinality(S) \in Nat
<1>1. IsFiniteSet(1..n)
    BY FS_Interval
<1>2. IsFiniteSet(S)
    BY <1>1, FS_Subset
<1> QED
    BY <1>2, FS_CardinalityType

\* Latest is the last of a set of positions.
LEMMA LatestIsLast ==
    ASSUME NEW n \in Nat, NEW S \in SUBSET (1..n)
    PROVE  /\ S = {} => Latest(S) = 0
           /\ S # {} => Latest(S) \in S /\ \A k \in S : k <= Latest(S)
           /\ Latest(S) \in 0..n
<1>1. CASE S = {}
    BY <1>1 DEF Latest
<1>2. CASE S # {}
    <2> DEFINE T == {n - i : i \in S}
    <2>1. T \in SUBSET Nat
        <3>1. \A i \in S : n - i \in Nat
            OBVIOUS
        <3> QED
            BY <3>1
    <2>2. T # {}
        BY <1>2
    <2>3. PICK x \in T : \A y \in T : x <= y
        BY <2>1, <2>2, LeastNat
    <2>4. PICK i \in S : x = n - i
        BY <2>3
    <2>5. \A k \in S : k <= i
        BY <2>3, <2>4
    <2>6. Latest(S) \in S /\ \A k \in S : k <= Latest(S)
        BY <1>2, <2>5 DEF Latest
    <2>7. Latest(S) \in 1..n
        BY <2>6
    <2> QED
        BY <1>2, <2>6, <2>7
<1> QED
    BY <1>1, <1>2

\* A finite set of positions is listed in ascending order, each of them once: its members
\* have different ranks, so every rank is taken.
LEMMA InOrderAscends ==
    ASSUME NEW n \in Nat, NEW S \in SUBSET (1..n)
    PROVE  /\ Cardinality(S) \in Nat
           /\ InOrder(S) \in [1..Cardinality(S) -> S]
           /\ \A i, k \in 1..Cardinality(S) : i < k => InOrder(S)[i] < InOrder(S)[k]
           /\ \A i \in S : \E k \in 1..Cardinality(S) : InOrder(S)[k] = i
           /\ \A k \in 1..Cardinality(S) : Cardinality({j \in S : j <= InOrder(S)[k]}) = k
<1> DEFINE Upto(i) == {j \in S : j <= i}
           c == Cardinality(S)
           rank == [i \in S |-> Cardinality(Upto(i))]
           ranked == {<<i, Cardinality(Upto(i))>> : i \in S}
<1>0. IsFiniteSet(S) /\ c \in Nat
    BY PositionsFinite
<1>a. \A i \in S : i \in Nat
    OBVIOUS
<1>1. \A i \in S : IsFiniteSet(Upto(i)) /\ rank[i] \in Nat
    <2> SUFFICES ASSUME NEW i \in S
                 PROVE  IsFiniteSet(Upto(i)) /\ rank[i] \in Nat
        OBVIOUS
    <2>1. Upto(i) \in SUBSET S
        OBVIOUS
    <2> HIDE DEF Upto
    <2>2. IsFiniteSet(Upto(i))
        BY <1>0, <2>1, FS_Subset
    <2> QED
        BY <2>2, FS_CardinalityType
<1>2. \A i \in S : rank[i] \in 1..c
    <2> SUFFICES ASSUME NEW i \in S
                 PROVE  rank[i] \in 1..c
        OBVIOUS
    <2>1. Upto(i) \in SUBSET S /\ i \in Upto(i) /\ Upto(i) # {}
        BY <1>a
    <2>2. rank[i] <= c
        BY <1>0, <2>1, FS_Subset
    <2>3. rank[i] # 0
        BY <1>1, <2>1, FS_EmptySet
    <2> QED
        BY <1>0, <1>1, <2>2, <2>3
<1>3. \A i, k \in S : i < k => rank[i] < rank[k]
    <2> SUFFICES ASSUME NEW i \in S, NEW k \in S, i < k
                 PROVE  rank[i] < rank[k]
        OBVIOUS
    <2>1. Upto(i) \in SUBSET Upto(k) /\ k \in Upto(k) /\ k \notin Upto(i)
        <3>1. i \in Nat /\ k \in Nat
            BY <1>a
        <3>2. \A j \in S : j <= i => j <= k
            BY <1>a, <3>1
        <3>3. k <= k /\ ~(k <= i)
            BY <3>1
        <3> QED
            BY <3>2, <3>3, Zenon
    <2> HIDE DEF Upto
    <2>2. rank[i] <= rank[k] /\ (rank[k] = rank[i] => Upto(k) = Upto(i))
        BY <1>1, <2>1, FS_Subset
    <2> QED
        BY <1>1, <2>1, <2>2
<1> HIDE DEF Upto
<1>4. \A k \in 1..c : \E i \in S : rank[i] = k
    <2>1. \A i, k \in S : rank[i] = rank[k] => i = k
        BY <1>a, <1>2, <1>3
    <2>2. rank \in [S -> 1..c]
        BY <1>2
    <2>3. rank \in Injection(S, 1..c)
        BY <2>1, <2>2 DEF Injection, IsInjective
    <2>4. IsFiniteSet(1..c) /\ Cardinality(1..c) = c
        BY <1>0, FS_Interval
    <2>5. rank \in Surjection(S, 1..c)
        BY <2>3, <2>4, FS_Injection
    <2> QED
        BY <2>5 DEF Surjection
<1>5. InOrder(S) = [k \in 1..c |-> (CHOOSE r \in ranked : r[2] = k)[1]]
    BY DEF InOrder, Upto
<1>6. ASSUME NEW k \in 1..c
      PROVE  InOrder(S)[k] \in S /\ rank[InOrder(S)[k]] = k
    <2> DEFINE r == CHOOSE q \in ranked : q[2] = k
    <2>1. PICK i \in S : rank[i] = k
        BY <1>4
    <2>2. <<i, k>> \in ranked
        BY <2>1
    <2>3. \E q \in ranked : q[2] = k
        BY <2>2
    <2> HIDE DEF ranked
    <2>4. r \in ranked /\ r[2] = k
        BY <2>3
    <2>5. InOrder(S)[k] = r[1]
        BY <1>5
    <2> HIDE DEF r
    <2>6. PICK m \in S : r = <<m, rank[m]>>
        BY <2>4 DEF ranked
    <2> QED
        BY <2>4, <2>5, <2>6
<1> HIDE DEF rank, ranked
<1>7. InOrder(S) \in [1..c -> S]
    <2> DEFINE f == InOrder(S)
    <2>1. f = [k \in 1..c |-> f[k]]
        BY <1>5
    <2>2. \A k \in 1..c : f[k] \in S
        BY <1>6
    <2> HIDE DEF f, c
    <2>3. f \in [1..c -> S]
        BY <2>1, <2>2
    <2> QED
        BY <2>3 DEF f
<1>8. \A i, k \in 1..c : i < k => InOrder(S)[i] < InOrder(S)[k]
    <2> SUFFICES ASSUME NEW i \in 1..c, NEW k \in 1..c, i < k, ~(InOrder(S)[i] < InOrder(S)[k])
                 PROVE  FALSE
        OBVIOUS
    <2> DEFINE a == InOrder(S)[i]
               b == InOrder(S)[k]
    <2>1. a \in S /\ b \in S /\ rank[a] = i /\ rank[b] = k
        BY <1>6
    <2>2. a \in Nat /\ b \in Nat /\ i \in Nat /\ k \in Nat
        <3>1. a \in Nat /\ b \in Nat
            BY <1>a, <2>1
        <3> HIDE DEF c
        <3>2. i \in Nat /\ k \in Nat
            BY <1>0
        <3> QED
            BY <3>1, <3>2
    <2>3. ~(a < b)
        OBVIOUS
    <2> HIDE DEF a, b
    <2> QED
        BY <1>3, <2>1, <2>2, <2>3
<1>9. \A i \in S : \E k \in 1..c : InOrder(S)[k] = i
    <2> SUFFICES ASSUME NEW i \in S
                 PROVE  InOrder(S)[rank[i]] = i
        BY <1>2
    <2> DEFINE a == InOrder(S)[rank[i]]
    <2>1. rank[i] \in 1..c /\ a \in S /\ rank[a] = rank[i]
        BY <1>2, <1>6
    <2>2. a \in Nat /\ i \in Nat /\ rank[i] \in Nat
        BY <1>a, <1>1, <2>1
    <2> HIDE DEF a
    <2>3. a = i
        BY <1>3, <2>1, <2>2
    <2> QED
        BY <2>3 DEF a
<1>10. \A k \in 1..c : Cardinality({j \in S : j <= InOrder(S)[k]}) = k
    BY <1>6 DEF rank, Upto
<1> QED
    BY <1>0, <1>7, <1>8, <1>9, <1>10

\* An interval of positions is listed as it is.
LEMMA InOrderInterval ==
    ASSUME NEW a \in Nat \ {0}, NEW b \in Nat, a <= b + 1
    PROVE  InOrder(a..b) = [k \in 1..(b - a + 1) |-> a + k - 1]
<1> DEFINE S == a..b
           c == b - a + 1
<1>1. S \in SUBSET (1..b) /\ c \in Nat
    OBVIOUS
<1>0. a \in Int /\ b \in Int
    OBVIOUS
<1>2. Cardinality(S) = c
    <2>1. Cardinality(a..b) = IF a > b THEN 0 ELSE b - a + 1
        BY <1>0, FS_Interval
    <2> QED
        BY <2>1
<1>3. /\ InOrder(S) \in [1..c -> S]
      /\ \A k \in 1..c : Cardinality({j \in S : j <= InOrder(S)[k]}) = k
    BY <1>1, <1>2, InOrderAscends
<1>4. ASSUME NEW k \in 1..c
      PROVE  InOrder(S)[k] = a + k - 1
    <2> DEFINE m == InOrder(S)[k]
    <2>1. m \in S /\ Cardinality({j \in S : j <= m}) = k
        BY <1>3
    <2> HIDE DEF m
    <2>2. {j \in S : j <= m} = a..m /\ m \in Nat /\ a <= m
        BY <2>1
    <2>3. Cardinality(a..m) = m - a + 1
        <3>1. Cardinality(a..m) = IF a > m THEN 0 ELSE m - a + 1
            BY <1>0, <2>2, FS_Interval
        <3> QED
            BY <2>2, <3>1
    <2>4. k = m - a + 1 /\ k \in Nat
        <3>1. Cardinality(a..m) = k
            BY <2>1, <2>2, Zenon
        <3> QED
            BY <1>1, <2>3, <3>1
    <2>5. m = a + k - 1
        BY <2>2, <2>4
    <2> QED
        BY <2>5 DEF m
<1> QED
    BY <1>3, <1>4

-----------------------------------------------------------------------------
(* Sequences of whatever it may be.                                        *)

\* IsSeq says of a sequence that it is one, whatever it is a sequence of.
IsSeq(s) == Len(s) \in Nat /\ s = [i \in 1..Len(s) |-> s[i]]

LEMMA SeqIsSeq ==
    ASSUME NEW S, NEW s \in Seq(S)
    PROVE  IsSeq(s) /\ DOMAIN s = 1..Len(s)
BY DEF IsSeq

LEMMA IsSeqSeq ==
    ASSUME NEW s, IsSeq(s), NEW S, \A i \in 1..Len(s) : s[i] \in S
    PROVE  s \in Seq(S) /\ DOMAIN s = 1..Len(s) /\ Len(s) \in Nat
<1> DEFINE n == Len(s)
<1>1. n \in Nat /\ s = [i \in 1..n |-> s[i]]
    BY DEF IsSeq
<1>2. s \in [1..n -> S] /\ DOMAIN s = 1..n
    <2> HIDE DEF n
    <2> QED
        BY <1>1
<1> HIDE DEF n
<1>3. s \in Seq(S)
    BY <1>1, <1>2
<1> QED
    BY <1>1, <1>2, <1>3 DEF n

\* What an append does to a sequence.
Longer(s, e, u) ==
    /\ IsSeq(u) /\ Len(u) = Len(s) + 1 /\ Len(s) \in Nat
    /\ \A i \in 1..Len(s) : u[i] = s[i]
    /\ u[Len(s) + 1] = e

LEMMA AppendLonger ==
    ASSUME NEW s, IsSeq(s), NEW e
    PROVE  Longer(s, e, Append(s, e))
<1> DEFINE S == {s[i] : i \in 1..Len(s)} \cup {e}
<1>1. s \in Seq(S)
    <2>1. \A i \in 1..Len(s) : s[i] \in S
        OBVIOUS
    <2> HIDE DEF S
    <2> QED
        BY <2>1, IsSeqSeq
<1>2. e \in S
    OBVIOUS
<1> HIDE DEF S
<1>3. Append(s, e) \in Seq(S)
    BY <1>1, <1>2
<1>4. IsSeq(Append(s, e))
    BY <1>3, SeqIsSeq
<1> QED
    BY <1>1, <1>2, <1>4 DEF Longer

\* Events of any kind, those of the context pass among them.
AreEvents(E) == \A e \in E : e.turn \in Nat /\ e.key \in Nat /\ e.job \in Nat

LEMMA KeptAreEvents == AreEvents(Event)
BY DEF AreEvents, Event

-----------------------------------------------------------------------------
(* An append.                                                              *)

\* Every position but the new one keeps its event.
LEMMA AppendEvents ==
    ASSUME NEW log \in Seq(Event), NEW e \in Event
    PROVE  /\ Append(log, e) \in Seq(Event)
           /\ Len(Append(log, e)) = Len(log) + 1
           /\ DOMAIN Append(log, e) = DOMAIN log \cup {Len(log) + 1}
           /\ Len(log) \in Nat /\ DOMAIN log = 1..Len(log)
           /\ \A i \in DOMAIN log : Append(log, e)[i] = log[i] /\ log[i] \in Event
           /\ Append(log, e)[Len(log) + 1] = e
OBVIOUS

\* Positions are positions of the log; the new event adds one if its type is asked
\* for.
LEMMA AppendPositionsAny ==
    ASSUME NEW E, NEW log \in Seq(E), NEW e \in E, NEW types
    PROVE  /\ Positions(log, types) \in SUBSET (1..Len(log))
           /\ Positions(Append(log, e), types) =
                  IF e.type \in types THEN Positions(log, types) \cup {Len(log) + 1}
                  ELSE Positions(log, types)
           /\ IsFiniteSet(Positions(log, types))
           /\ Cardinality(Positions(log, types)) \in Nat
           /\ Cardinality(Positions(Append(log, e), types)) =
                  Cardinality(Positions(log, types)) + (IF e.type \in types THEN 1 ELSE 0)
<1>1. Positions(log, types) \in SUBSET (1..Len(log))
    BY DEF Positions
<1>2. /\ Len(Append(log, e)) = Len(log) + 1
      /\ DOMAIN Append(log, e) = DOMAIN log \cup {Len(log) + 1}
      /\ Len(log) \in Nat /\ DOMAIN log = 1..Len(log)
      /\ \A i \in DOMAIN log : Append(log, e)[i] = log[i]
      /\ Append(log, e)[Len(log) + 1] = e
    OBVIOUS
<1>3. Positions(Append(log, e), types) =
          IF e.type \in types THEN Positions(log, types) \cup {Len(log) + 1}
          ELSE Positions(log, types)
    BY <1>2 DEF Positions
<1>4. IsFiniteSet(Positions(log, types)) /\ Cardinality(Positions(log, types)) \in Nat
    BY <1>1, <1>2, PositionsFinite
<1>5. Len(log) + 1 \notin Positions(log, types)
    BY <1>1, <1>2
<1>6. Cardinality(Positions(log, types) \cup {Len(log) + 1}) = Cardinality(Positions(log, types)) + 1
    BY <1>4, <1>5, FS_AddElement
<1> QED
    BY <1>1, <1>3, <1>4, <1>6

\* The same of a log of the kept events.
LEMMA AppendPositions ==
    ASSUME NEW log \in Seq(Event), NEW e \in Event, NEW types
    PROVE  /\ Positions(log, types) \in SUBSET (1..Len(log))
           /\ Positions(Append(log, e), types) =
                  IF e.type \in types THEN Positions(log, types) \cup {Len(log) + 1}
                  ELSE Positions(log, types)
           /\ IsFiniteSet(Positions(log, types))
           /\ Cardinality(Positions(log, types)) \in Nat
           /\ Cardinality(Positions(Append(log, e), types)) =
                  Cardinality(Positions(log, types)) + (IF e.type \in types THEN 1 ELSE 0)
BY AppendPositionsAny

\* Only a ModelCallStarted of the turn adds to its model calls.
LEMMA AppendModelCalls ==
    ASSUME NEW log \in Seq(Event), NEW e \in Event, NEW t
    PROVE  /\ CountModelCalls(log, t) \in Nat
           /\ CountModelCalls(Append(log, e), t) =
                  CountModelCalls(log, t)
                  + (IF e.type = "ModelCallStarted" /\ e.turn = t THEN 1 ELSE 0)
<1> DEFINE P == Positions(log, {"ModelCallStarted"})
           C == {i \in P : log[i].turn = t}
           CC == {i \in Positions(Append(log, e), {"ModelCallStarted"}) : Append(log, e)[i].turn = t}
<1>1. /\ P \in SUBSET (1..Len(log)) /\ IsFiniteSet(P)
      /\ Positions(Append(log, e), {"ModelCallStarted"}) =
             IF e.type = "ModelCallStarted" THEN P \cup {Len(log) + 1} ELSE P
    BY AppendPositions
<1>2. /\ Len(log) \in Nat
      /\ \A i \in 1..Len(log) : Append(log, e)[i] = log[i]
      /\ Append(log, e)[Len(log) + 1] = e
    BY AppendEvents
<1>3. CC = IF e.type = "ModelCallStarted" /\ e.turn = t THEN C \cup {Len(log) + 1} ELSE C
    BY <1>1, <1>2
<1>4. IsFiniteSet(C) /\ Cardinality(C) \in Nat
    <2>1. C \in SUBSET (1..Len(log))
        BY <1>1
    <2> QED
        BY <1>2, <2>1, PositionsFinite
<1>5. Len(log) + 1 \notin C
    BY <1>1, <1>2
<1>6. Cardinality(C \cup {Len(log) + 1}) = Cardinality(C) + 1
    BY <1>4, <1>5, FS_AddElement
<1> HIDE DEF C, CC
<1>7. Cardinality(CC) = Cardinality(C) + (IF e.type = "ModelCallStarted" /\ e.turn = t THEN 1 ELSE 0)
    <2>1. CASE e.type = "ModelCallStarted" /\ e.turn = t
        BY <1>3, <1>6, <2>1
    <2>2. CASE ~(e.type = "ModelCallStarted" /\ e.turn = t)
        BY <1>3, <1>4, <2>2
    <2> QED
        BY <2>1, <2>2
<1> QED
    BY <1>4, <1>7 DEF CountModelCalls, C, CC

\* A call that is looked up is that of a JobSubmitted in the log.
LEMMA LookupCallTypeAny ==
    ASSUME NEW E, AreEvents(E), NEW log \in Seq(E), NEW j
    PROVE  /\ LookupCallId(log, j) \in Nat
           /\ LookupCallId(log, j) # None =>
                  \E i \in DOMAIN log : /\ log[i].type = "JobSubmitted" /\ log[i].job = j
                                        /\ LookupCallId(log, j) = log[i].key
<1> DEFINE S == {i \in Positions(log, {"JobSubmitted"}) : log[i].job = j}
<1>1. Len(log) \in Nat /\ S \in SUBSET (1..Len(log)) /\ DOMAIN log = 1..Len(log)
    BY DEF Positions
<1>2. Latest(S) = 0 \/ Latest(S) \in S
    BY <1>1, LatestIsLast
<1>3. CASE Latest(S) = 0
    BY <1>3 DEF LookupCallId, None
<1>4. CASE Latest(S) \in S
    <2>1. Latest(S) \in 1..Len(log) /\ log[Latest(S)] \in E
        BY <1>1, <1>4
    <2>2. log[Latest(S)].type = "JobSubmitted" /\ log[Latest(S)].job = j
        BY <1>4 DEF Positions
    <2>3. LookupCallId(log, j) = log[Latest(S)].key
        BY <2>1 DEF LookupCallId
    <2>4. log[Latest(S)].key \in Nat
        BY <2>1 DEF AreEvents
    <2> HIDE DEF S
    <2> QED
        BY <1>1, <2>1, <2>2, <2>3, <2>4
<1> QED
    BY <1>2, <1>3, <1>4

\* The same of a log of the kept events.
LEMMA LookupCallType ==
    ASSUME NEW log \in Seq(Event), NEW j
    PROVE  /\ LookupCallId(log, j) \in Nat
           /\ LookupCallId(log, j) # None =>
                  \E i \in DOMAIN log : /\ log[i].type = "JobSubmitted" /\ log[i].job = j
                                        /\ LookupCallId(log, j) = log[i].key
BY KeptAreEvents, LookupCallTypeAny

\* A job's call is looked up as before, unless the new event submits the job.
LEMMA AppendLookup ==
    ASSUME NEW log \in Seq(Event), NEW e \in Event, NEW j
    PROVE  LookupCallId(Append(log, e), j) =
               IF e.type = "JobSubmitted" /\ e.job = j THEN e.key ELSE LookupCallId(log, j)
<1> DEFINE n == Len(log)
           kg == Append(log, e)
           S == {i \in Positions(log, {"JobSubmitted"}) : log[i].job = j}
           T == {i \in Positions(kg, {"JobSubmitted"}) : kg[i].job = j}
<1>1. n \in Nat /\ S \in SUBSET (1..n) /\ DOMAIN log = 1..n
    BY DEF Positions
<1>2. DOMAIN kg = 1..(n + 1) /\ (\A i \in 1..n : kg[i] = log[i]) /\ kg[n + 1] = e
    BY AppendEvents
<1>3. T = IF e.type = "JobSubmitted" /\ e.job = j THEN S \cup {n + 1} ELSE S
    BY <1>1, <1>2 DEF Positions
<1>4. T \in SUBSET (1..(n + 1)) /\ n + 1 \in Nat
    BY <1>1, <1>2 DEF Positions
<1>5. LookupCallId(log, j) = IF Latest(S) = 0 THEN None ELSE log[Latest(S)].key
    BY DEF LookupCallId
<1>6. LookupCallId(kg, j) = IF Latest(T) = 0 THEN None ELSE kg[Latest(T)].key
    BY DEF LookupCallId
<1> HIDE DEF S, T, kg, n
<1>7. CASE e.type = "JobSubmitted" /\ e.job = j
    <2>0. n + 1 \in T /\ T # {}
        BY <1>3, <1>7
    <2>1. Latest(T) \in T /\ \A k \in T : k <= Latest(T)
        BY <1>4, <2>0, LatestIsLast
    <2>a. Latest(T) \in 1..(n + 1) /\ n + 1 <= Latest(T)
        BY <1>4, <2>0, <2>1
    <2> DEFINE l == Latest(T)
    <2> HIDE DEF l
    <2>b. l \in 1..(n + 1) /\ n + 1 <= l
        BY <2>a DEF l
    <2>c. l = n + 1
        BY <1>1, <2>b
    <2>2. Latest(T) = n + 1
        BY <2>c DEF l
    <2>3. n + 1 # 0
        BY <1>1
    <2>4. LookupCallId(kg, j) = e.key
        BY <1>2, <1>6, <2>2, <2>3
    <2> QED
        BY <1>7, <2>4 DEF kg
<1>8. CASE ~(e.type = "JobSubmitted" /\ e.job = j)
    <2>1. Latest(T) = Latest(S) /\ (Latest(S) = 0 \/ Latest(S) \in 1..n)
        BY <1>1, <1>3, <1>8, LatestIsLast
    <2>2. LookupCallId(kg, j) = LookupCallId(log, j)
        BY <1>2, <1>5, <1>6, <2>1
    <2> QED
        BY <1>8, <2>2 DEF kg
<1> QED
    BY <1>7, <1>8

-----------------------------------------------------------------------------
(* The Resume Coordinator.                                                 *)

\* The points at which a turn is taken up again.
Taken == {"ResumeFromModelCompleted", "ResumeFromToolDispatching", "ResumePausedJob",
          "ResumeAfterJobCompletion"}

\* The calls to dispatch again are calls of the log.
CallsOf(log, pending) ==
    \A n \in DOMAIN pending :
        \E i \in DOMAIN log : log[i].type = "ToolUseRecorded" /\ log[i].key = pending[n].id

LEMMA PendingType ==
    ASSUME NEW E, AreEvents(E), NEW log \in Seq(E), NEW S \in SUBSET (1..Len(log)),
           \A i \in S : log[i].type = "ToolUseRecorded"
    PROVE  LET pending == [n \in DOMAIN InOrder(S) |->
                  [id |-> log[InOrder(S)[n]].key, ok |-> log[InOrder(S)[n]].info = "valid"]]
           IN  pending \in Seq([id : Nat, ok : BOOLEAN]) /\ CallsOf(log, pending)
<1> DEFINE c == Cardinality(S)
           f == InOrder(S)
           Item(n) == [id |-> log[f[n]].key, ok |-> log[f[n]].info = "valid"]
<1>1. Len(log) \in Nat /\ c \in Nat /\ f \in [1..c -> S]
    <2>1. Len(log) \in Nat
        OBVIOUS
    <2> QED
        BY <2>1, InOrderAscends
<1>2. \A n \in 1..c : log[f[n]] \in E
    <2> HIDE DEF c, f
    <2>1. \A n \in 1..c : f[n] \in 1..Len(log)
        BY <1>1
    <2> QED
        BY <2>1
<1>3. \A n \in 1..c : Item(n) \in [id : Nat, ok : BOOLEAN]
    BY <1>2 DEF AreEvents
<1> HIDE DEF c, Item
<1>4. [n \in 1..c |-> Item(n)] \in Seq([id : Nat, ok : BOOLEAN])
    BY <1>1, <1>3
<1>5. CallsOf(log, [n \in 1..c |-> Item(n)])
    <2> HIDE DEF f
    <2>1. DOMAIN log = 1..Len(log)
        OBVIOUS
    <2>2. \A n \in 1..c : f[n] \in S /\ f[n] \in DOMAIN log
        BY <1>1, <2>1
    <2>3. \A n \in 1..c : log[f[n]].type = "ToolUseRecorded" /\ log[f[n]].key = Item(n).id
        <3>1. \A n \in 1..c : Item(n).id = log[f[n]].key
            BY DEF Item
        <3> QED
            BY <2>2, <3>1
    <2> DEFINE P == [n \in 1..c |-> Item(n)]
    <2>4. DOMAIN P = 1..c /\ \A n \in 1..c : P[n] = Item(n)
        OBVIOUS
    <2> HIDE DEF P
    <2>5. CallsOf(log, P)
        BY <2>2, <2>3, <2>4 DEF CallsOf
    <2> QED
        BY <2>5 DEF P
<1> QED
    BY <1>1, <1>4, <1>5 DEF Item

\* What replay returns: a turn it takes up is that of the last boundary in the log,
\* a TurnStarted or a TurnPaused.
LEMMA ReplayShapeAny ==
    ASSUME NEW E, AreEvents(E), NEW log \in Seq(E)
    PROVE  LET d == Replay(log) IN
           /\ d.turn \in Nat /\ d.job \in Nat /\ d.call \in Nat
           /\ d.pending \in Seq([id : Nat, ok : BOOLEAN]) /\ CallsOf(log, d.pending)
           /\ d.point \in Taken \cup {"RestartCurrentTurn"} =>
                  \E b \in DOMAIN log :
                      /\ log[b].type \in {"TurnStarted", "TurnPaused"}
                      /\ d.turn = log[b].turn
                      /\ \A k \in DOMAIN log : log[k].type \in Boundaries => k <= b
                      /\ d.point \in {"ResumePausedJob", "ResumeAfterJobCompletion"} =>
                             log[b].type = "TurnPaused" /\ d.job = log[b].job
                      /\ d.point \in {"ResumeFromModelCompleted", "ResumeFromToolDispatching"} =>
                             log[b].type = "TurnStarted"
<1> DEFINE b == Latest(Positions(log, Boundaries))
           Good(d) == /\ d.turn \in Nat /\ d.job \in Nat /\ d.call \in Nat
                      /\ d.pending \in Seq([id : Nat, ok : BOOLEAN]) /\ CallsOf(log, d.pending)
<1>1. /\ Len(log) \in Nat /\ DOMAIN log = 1..Len(log)
      /\ Positions(log, Boundaries) \in SUBSET (1..Len(log))
    BY DEF Positions
<1>2. \/ b = 0
      \/ /\ b \in DOMAIN log /\ log[b] \in E /\ log[b].type \in Boundaries
         /\ \A k \in DOMAIN log : log[k].type \in Boundaries => k <= b
    BY <1>1, LatestIsLast DEF Positions
<1>3. /\ Good(Fresh) /\ Good(Malformed)
      /\ Fresh.point = "FreshTurn" /\ Malformed.point = "Malformed"
    BY DEF Fresh, Malformed, Decision, None, CallsOf
<1>4. CASE Replay(log) \in {Fresh, Malformed}
    BY <1>3, <1>4 DEF Taken
<1>5. CASE Replay(log) \notin {Fresh, Malformed}
    <2>1. /\ b # 0
          /\ \/ log[b].type = "TurnPaused" /\ Replay(log) = ResumeFromTurnPaused(log, b)
             \/ log[b].type = "TurnStarted" /\ Replay(log) = ResumeFromTurnStarted(log, b)
        <3> HIDE DEF Good
        <3> QED
            BY <1>2, <1>5 DEF Replay, Boundaries
    <2>2. /\ b \in DOMAIN log /\ log[b].turn \in Nat /\ log[b].job \in Nat
          /\ \A k \in DOMAIN log : log[k].type \in Boundaries => k <= b
        BY <1>2, <2>1 DEF AreEvents
    <2> HIDE DEF b
    <2>3. CASE log[b].type = "TurnPaused" /\ Replay(log) = ResumeFromTurnPaused(log, b)
        <3>1. \/ Replay(log) = Decision("ResumePausedJob", log[b].turn, <<>>, log[b].job,
                                        LookupCallId(log, log[b].job))
              \/ Replay(log) = Decision("ResumeAfterJobCompletion", log[b].turn, <<>>, log[b].job,
                                        LookupCallId(log, log[b].job))
            BY <1>5, <2>3 DEF ResumeFromTurnPaused
        <3>2. LookupCallId(log, log[b].job) \in Nat
            BY LookupCallTypeAny
        <3>3. /\ Replay(log).turn = log[b].turn /\ Replay(log).job = log[b].job
              /\ Replay(log).pending = <<>> /\ Replay(log).call \in Nat
              /\ Replay(log).point \in {"ResumePausedJob", "ResumeAfterJobCompletion"}
            BY <3>1, <3>2 DEF Decision
        <3>4. Good(Replay(log))
            BY <2>2, <3>3 DEF CallsOf
        <3> QED
            BY <2>2, <2>3, <3>3, <3>4
    <2>4. CASE log[b].type = "TurnStarted" /\ Replay(log) = ResumeFromTurnStarted(log, b)
        <3> DEFINE started == Latest({i \in Positions(log, {"ModelCallStarted"}) : i > b})
                   completed == Latest({i \in Positions(log, {"ModelCallCompleted"}) : i > b})
                   results == {log[i].key : i \in {k \in Positions(log, {"ToolResultRecorded"}) : k > completed}}
                   S == {i \in Positions(log, {"ToolUseRecorded"}) :
                            started < i /\ i < completed /\ log[i].key \notin results}
                   pending == [n \in DOMAIN InOrder(S) |->
                                  [id |-> log[InOrder(S)[n]].key, ok |-> log[InOrder(S)[n]].info = "valid"]]
        <3>1. S \in SUBSET (1..Len(log))
            BY <1>1 DEF Positions
        <3>2. pending \in Seq([id : Nat, ok : BOOLEAN]) /\ CallsOf(log, pending)
            <4>1. \A i \in S : log[i].type = "ToolUseRecorded"
                BY DEF Positions
            <4> HIDE DEF S
            <4> QED
                BY <3>1, <4>1, PendingType
        <3>3. \/ Replay(log) = Decision("RestartCurrentTurn", log[b].turn, <<>>, None, None)
              \/ Replay(log) = Decision("ResumeFromModelCompleted", log[b].turn, <<>>, None, None)
              \/ Replay(log) = Decision("ResumeFromToolDispatching", log[b].turn, pending, None, None)
            BY <1>5, <2>4 DEF ResumeFromTurnStarted
        <3> HIDE DEF pending
        <3>4. /\ Replay(log).turn = log[b].turn
              /\ Replay(log).pending = <<>> \/ Replay(log).pending = pending
              /\ Replay(log).job = 0 /\ Replay(log).call = 0
              /\ Replay(log).point \notin {"ResumePausedJob", "ResumeAfterJobCompletion"}
            BY <3>3 DEF Decision, None
        <3>5. Replay(log).pending \in Seq([id : Nat, ok : BOOLEAN])
            <4> DEFINE Calls == Seq([id : Nat, ok : BOOLEAN])
            <4>1. <<>> \in Calls
                OBVIOUS
            <4> HIDE DEF Calls
            <4>2. pending \in Calls
                BY <3>2 DEF Calls
            <4>3. Replay(log).pending \in Calls
                BY <3>4, <4>1, <4>2
            <4> QED
                BY <4>3 DEF Calls
        <3>7. CallsOf(log, Replay(log).pending)
            <4>1. CASE Replay(log).pending = <<>>
                BY <4>1 DEF CallsOf
            <4>2. CASE Replay(log).pending = pending
                BY <3>2, <4>2
            <4> QED
                BY <3>4, <4>1, <4>2
        <3>6. Good(Replay(log))
            BY <2>2, <3>4, <3>5, <3>7
        <3> QED
            BY <2>2, <2>4, <3>4, <3>6
    <2> QED
        BY <2>1, <2>3, <2>4
<1> QED
    BY <1>4, <1>5

\* The same of a log of the kept events.
LEMMA ReplayShape ==
    ASSUME NEW log \in Seq(Event)
    PROVE  LET d == Replay(log) IN
           /\ d.turn \in Nat /\ d.job \in Nat /\ d.call \in Nat
           /\ d.pending \in Seq([id : Nat, ok : BOOLEAN])
           /\ d.point \in Taken \cup {"RestartCurrentTurn"} =>
                  \E b \in DOMAIN log :
                      /\ log[b].type \in {"TurnStarted", "TurnPaused"}
                      /\ d.turn = log[b].turn
                      /\ \A k \in DOMAIN log : log[k].type \in Boundaries => k <= b
                      /\ d.point \in {"ResumePausedJob", "ResumeAfterJobCompletion"} =>
                             log[b].type = "TurnPaused" /\ d.job = log[b].job
BY KeptAreEvents, ReplayShapeAny

-----------------------------------------------------------------------------
(* The turns of a log.                                                     *)

\* The turns a log has started, and those it has ended.
StartedIn(log) == 1..Cardinality(Positions(log, {"TurnStarted"}))
EndedIn(log) == {log[i].turn : i \in Positions(log, {"TurnCompleted", "TurnFailed"})}

\* Every event belongs to a turn that was started.
OfStartedTurns(log) == \A i \in DOMAIN log : log[i].turn \in StartedIn(log)

\* No event of a turn comes after its end.
EndsAreLast(log) ==
    \A i \in Positions(log, {"TurnCompleted", "TurnFailed"}) :
        \A k \in DOMAIN log : k > i => log[k].turn # log[i].turn

\* No turn has made more than max model calls.
Within(log, max) == \A t \in StartedIn(log) : CountModelCalls(log, t) <= max

\* A turn with no event has made no model call.
LEMMA NoModelCallYet ==
    ASSUME NEW log, NEW t, \A i \in DOMAIN log : log[i].turn # t
    PROVE  CountModelCalls(log, t) = 0
<1>1. {i \in Positions(log, {"ModelCallStarted"}) : log[i].turn = t} = {}
    BY DEF Positions
<1> QED
    BY <1>1, FS_EmptySet DEF CountModelCalls

\* The next turn is minted when a TurnStarted is written, and is no turn before.
LEMMA AppendStarted ==
    ASSUME NEW log \in Seq(Event), NEW e \in Event
    PROVE  /\ Cardinality(Positions(log, {"TurnStarted"})) \in Nat
           /\ FreshTurn(log) \in Nat \ {0} /\ FreshTurn(log) \notin StartedIn(log)
           /\ e.type # "TurnStarted" => StartedIn(Append(log, e)) = StartedIn(log)
                                       /\ FreshTurn(Append(log, e)) = FreshTurn(log)
           /\ e.type = "TurnStarted" => StartedIn(Append(log, e)) = StartedIn(log) \cup {FreshTurn(log)}
           /\ StartedIn(log) \subseteq StartedIn(Append(log, e))
<1> DEFINE n == Cardinality(Positions(log, {"TurnStarted"}))
<1>1. /\ n \in Nat
      /\ Cardinality(Positions(Append(log, e), {"TurnStarted"})) =
             n + (IF e.type \in {"TurnStarted"} THEN 1 ELSE 0)
    BY AppendPositions
<1> HIDE DEF n
<1>2. 1..(n + 1) = 1..n \cup {n + 1}
    BY <1>1
<1> QED
    BY <1>1, <1>2 DEF StartedIn, FreshTurn, n

\* An event of a started turn, or the start of the next one, keeps every event
\* with its turn.
LEMMA AppendOfStarted ==
    ASSUME NEW log \in Seq(Event), NEW e \in Event, OfStartedTurns(log),
           \/ e.turn \in StartedIn(log)
           \/ e.type = "TurnStarted" /\ e.turn = FreshTurn(log)
    PROVE  OfStartedTurns(Append(log, e))
<1>1. /\ DOMAIN Append(log, e) = DOMAIN log \cup {Len(log) + 1}
      /\ \A i \in DOMAIN log : Append(log, e)[i] = log[i]
      /\ Append(log, e)[Len(log) + 1] = e
    BY AppendEvents
<1>2. StartedIn(log) \subseteq StartedIn(Append(log, e)) /\ e.turn \in StartedIn(Append(log, e))
    BY AppendStarted
<1> QED
    BY <1>1, <1>2 DEF OfStartedTurns

\* Only an end ends a turn.
LEMMA AppendEnded ==
    ASSUME NEW log \in Seq(Event), NEW e \in Event
    PROVE  EndedIn(Append(log, e)) =
               IF e.type \in {"TurnCompleted", "TurnFailed"} THEN EndedIn(log) \cup {e.turn}
               ELSE EndedIn(log)
<1> DEFINE P == Positions(log, {"TurnCompleted", "TurnFailed"})
<1>1. /\ P \in SUBSET (1..Len(log))
      /\ Positions(Append(log, e), {"TurnCompleted", "TurnFailed"}) =
             IF e.type \in {"TurnCompleted", "TurnFailed"} THEN P \cup {Len(log) + 1} ELSE P
    BY AppendPositions
<1>2. /\ \A i \in 1..Len(log) : Append(log, e)[i] = log[i]
      /\ Append(log, e)[Len(log) + 1] = e
    BY AppendEvents
<1>3. \A i \in P : Append(log, e)[i] = log[i]
    BY <1>1, <1>2
<1> HIDE DEF P
<1> QED
    BY <1>1, <1>2, <1>3 DEF EndedIn, P

\* An event of a turn that has not ended keeps the ends last.
LEMMA AppendEndsLast ==
    ASSUME NEW log \in Seq(Event), NEW e \in Event, EndsAreLast(log), e.turn \notin EndedIn(log)
    PROVE  EndsAreLast(Append(log, e))
<1> DEFINE P == Positions(log, {"TurnCompleted", "TurnFailed"})
           PP == Positions(Append(log, e), {"TurnCompleted", "TurnFailed"})
<1>1. /\ P \in SUBSET (1..Len(log)) /\ Len(log) \in Nat
      /\ PP \subseteq P \cup {Len(log) + 1}
    BY AppendPositions, AppendEvents
<1>2. /\ DOMAIN Append(log, e) = DOMAIN log \cup {Len(log) + 1} /\ DOMAIN log = 1..Len(log)
      /\ \A i \in 1..Len(log) : Append(log, e)[i] = log[i]
      /\ Append(log, e)[Len(log) + 1] = e
    BY AppendEvents
<1> SUFFICES ASSUME NEW i \in PP, NEW k \in DOMAIN Append(log, e), k > i
             PROVE  Append(log, e)[k].turn # Append(log, e)[i].turn
    BY DEF EndsAreLast
<1>3. i \in P /\ i \in 1..Len(log)
    BY <1>1, <1>2
<1>4. CASE k = Len(log) + 1
    BY <1>2, <1>3, <1>4 DEF EndedIn
<1>5. CASE k \in DOMAIN log
    BY <1>2, <1>3, <1>5 DEF EndsAreLast
<1> QED
    BY <1>2, <1>4, <1>5

\* A model call keeps the turns within their budget if its turn was below it.
LEMMA AppendWithin ==
    ASSUME NEW log \in Seq(Event), NEW e \in Event, NEW max \in Nat, OfStartedTurns(log), Within(log, max),
           e.type = "ModelCallStarted" => CountModelCalls(log, e.turn) < max
    PROVE  Within(Append(log, e), max)
<1> SUFFICES ASSUME NEW t \in StartedIn(Append(log, e))
             PROVE  CountModelCalls(Append(log, e), t) <= max
    BY DEF Within
<1>1. /\ CountModelCalls(log, t) \in Nat
      /\ CountModelCalls(Append(log, e), t) =
             CountModelCalls(log, t) + (IF e.type = "ModelCallStarted" /\ e.turn = t THEN 1 ELSE 0)
    BY AppendModelCalls
<1>2. CASE t \in StartedIn(log)
    BY <1>1, <1>2 DEF Within
<1>3. CASE t \notin StartedIn(log)
    <2>1. e.type = "TurnStarted"
        BY <1>3, AppendStarted
    <2>2. \A i \in DOMAIN log : log[i].turn # t
        BY <1>3 DEF OfStartedTurns
    <2>3. CountModelCalls(log, t) = 0
        BY <2>2, NoModelCallYet
    <2> QED
        BY <1>1, <2>1, <2>3
<1> QED
    BY <1>2, <1>3
=============================================================================
