---------------------------- MODULE ContextProofs ----------------------------
(***************************************************************************)
(* What H11 has decided for a turn is what its later rounds are prompted    *)
(* with, the body of a skill is given once in the life of a session, and    *)
(* the calls and results of every request match; for any log, replies,      *)
(* skills and tools, and any number of turns, rounds, failed reads and      *)
(* writes, crashes and updates.                                             *)
(*                                                                         *)
(* The invariant says where what the pass works on comes from: a suffix     *)
(* holds what was activated in its turn, a result what its call asked for,  *)
(* the pass has read every event of an earlier turn, and a turn in which    *)
(* nothing failed has its suffix and its override from its first pass on.   *)
(* Of rounds it says that a call is never lost (Accounted), that between    *)
(* it and its result there is nothing a request says (Behind), and that no  *)
(* compaction cuts through a round (Bounded).                               *)
(***************************************************************************)
EXTENDS Context, EventLogProofs

Words == Seq(STRING)

-----------------------------------------------------------------------------
(* Sequences.                                                              *)

\* The elements of a sequence that is made longer, or shorter from its head.
LEMMA ToSetFacts ==
    ASSUME NEW S, NEW s \in Seq(S), NEW x \in S
    PROVE  /\ ToSet(<<>>) = {} /\ ToSet(<<x>>) = {x}
           /\ ToSet(Append(s, x)) = ToSet(s) \cup {x}
           /\ s # <<>> => /\ Head(s) \in S /\ Tail(s) \in Seq(S)
                          /\ ToSet(s) = {Head(s)} \cup ToSet(Tail(s))
<1>1. ToSet(<<>>) = {} /\ ToSet(<<x>>) = {x}
    BY DEF ToSet
<1>2. ToSet(Append(s, x)) = ToSet(s) \cup {x}
    <2>1. /\ DOMAIN Append(s, x) = DOMAIN s \cup {Len(s) + 1}
          /\ \A i \in DOMAIN s : Append(s, x)[i] = s[i]
          /\ Append(s, x)[Len(s) + 1] = x
        OBVIOUS
    <2> QED
        BY <2>1 DEF ToSet
<1>3. ASSUME s # <<>>
      PROVE  /\ Head(s) \in S /\ Tail(s) \in Seq(S)
             /\ ToSet(s) = {Head(s)} \cup ToSet(Tail(s))
    <2>1. /\ Head(s) \in S /\ Tail(s) \in Seq(S) /\ Head(s) = s[1]
          /\ Len(s) \in Nat \ {0} /\ DOMAIN s = 1..Len(s) /\ DOMAIN Tail(s) = 1..(Len(s) - 1)
          /\ \A i \in 1..(Len(s) - 1) : Tail(s)[i] = s[i + 1]
        BY <1>3
    <2> DEFINE n == Len(s)
               t == Tail(s)
    <2> HIDE DEF n, t
    <2>2. n \in Nat \ {0} /\ DOMAIN s = 1..n /\ DOMAIN t = 1..(n - 1) /\ \A i \in 1..(n - 1) : t[i] = s[i + 1]
        BY <2>1 DEF n, t
    <2>3. \A i \in 1..n : i = 1 \/ (i - 1 \in 1..(n - 1) /\ t[i - 1] = s[i])
        BY <2>2
    <2>4. \A i \in 1..(n - 1) : i + 1 \in 1..n
        BY <2>2
    <2>5. 1 \in 1..n
        BY <2>2
    <2>6. {s[i] : i \in 1..n} = {s[1]} \cup {t[i] : i \in 1..(n - 1)}
        BY <2>2, <2>3, <2>4, <2>5
    <2>7. ToSet(s) = {s[i] : i \in 1..n} /\ ToSet(t) = {t[i] : i \in 1..(n - 1)}
        BY <2>2 DEF ToSet
    <2> QED
        BY <2>1, <2>6, <2>7 DEF t
<1> QED
    BY <1>1, <1>2, <1>3

\* A sequence of sequences is one sequence when it is flattened.  The recursive function
\* has a value: up to the least n without one it would be extended.
LEMMA FlattenType ==
    ASSUME NEW S, NEW ss \in Seq(Seq(S))
    PROVE  FlattenSeq(ss) \in Seq(S)
<1> DEFINE N == Len(ss)
           Flat(f, n) == f = [i \in 1..n |-> IF i = 1 THEN ss[i] ELSE f[i - 1] \o ss[i]]
           Typed(n) == \E f \in [1..n -> Seq(S)] : Flat(f, n)
<1>1. N \in Nat /\ \A i \in 1..N : ss[i] \in Seq(S)
    OBVIOUS
<1>2. CASE N = 0
    <2>1. FlattenSeq(ss) = ss
        BY <1>2 DEF FlattenSeq
    <2>2. ss = <<>>
        BY <1>2
    <2> QED
        BY <2>1, <2>2
<1>3. CASE N # 0
    <2> HIDE DEF N, Flat
    <2>1. ASSUME NEW n \in 1..N
          PROVE  Typed(n)
        <3> DEFINE T == {k \in 1..N : ~Typed(k)}
        <3> SUFFICES ASSUME T # {}
                     PROVE  FALSE
            OBVIOUS
        <3>0. T \in SUBSET Nat
            BY <1>1
        <3>1. PICK k \in T : \A m \in T : k <= m
            BY <3>0, LeastNat
        <3>2. k \in 1..N /\ k \in Nat /\ ~Typed(k)
            BY <1>1, <3>1
        <3> HIDE DEF Typed
        <3>3. CASE k = 1
            <4> DEFINE f == [i \in 1..1 |-> ss[i]]
            <4>1. f \in [1..1 -> Seq(S)]
                BY <1>1, <3>2, <3>3
            <4>2. Flat(f, 1)
                BY DEF Flat
            <4> QED
                BY <3>2, <3>3, <4>1, <4>2 DEF Typed
        <3>4. CASE k # 1
            <4>1. k - 1 \in 1..N /\ k - 1 \in Nat /\ k - 1 < k
                BY <1>1, <3>2, <3>4
            <4>2. k - 1 \notin T
                BY <3>1, <4>1
            <4>3. PICK f \in [1..(k - 1) -> Seq(S)] : Flat(f, k - 1)
                BY <4>1, <4>2 DEF Typed
            <4> DEFINE last == f[k - 1] \o ss[k]
                       g == [i \in 1..k |-> IF i = k THEN last ELSE f[i]]
            <4>4. last \in Seq(S)
                <5>1. f[k - 1] \in Seq(S) /\ ss[k] \in Seq(S)
                    BY <1>1, <3>2, <4>1, <4>3
                <5> QED
                    BY <5>1
            <4>8. last = f[k - 1] \o ss[k]
                OBVIOUS
            <4> HIDE DEF last
            <4>5. g \in [1..k -> Seq(S)]
                <5>2. \A i \in 1..k : i # k => f[i] \in Seq(S)
                    BY <3>2, <4>3
                <5> QED
                    BY <4>4, <5>2
            <4>6. \A i \in 1..k : g[i] = IF i = 1 THEN ss[i] ELSE g[i - 1] \o ss[i]
                <5> SUFFICES ASSUME NEW i \in 1..k
                             PROVE  g[i] = IF i = 1 THEN ss[i] ELSE g[i - 1] \o ss[i]
                    OBVIOUS
                <5>1. CASE i = k
                    <6>1. k - 1 \in 1..k /\ k - 1 # k
                        BY <3>2, <4>1
                    <6>2. g[k - 1] = f[k - 1]
                        BY <6>1
                    <6>3. g[k] = last
                        BY <1>1, <3>2
                    <6> HIDE DEF g
                    <6> QED
                        BY <3>4, <4>8, <5>1, <6>2, <6>3
                <5>2. CASE i # k
                    <6>1. i \in 1..(k - 1) /\ g[i] = f[i]
                        BY <3>2, <5>2
                    <6>2. f[i] = IF i = 1 THEN ss[i] ELSE f[i - 1] \o ss[i]
                        BY <4>3, <6>1 DEF Flat
                    <6>3. i # 1 => i - 1 \in 1..k /\ i - 1 # k
                        BY <3>2, <6>1
                    <6>4. i # 1 => g[i - 1] = f[i - 1]
                        BY <6>3
                    <6> HIDE DEF g
                    <6> QED
                        BY <6>1, <6>2, <6>4
                <5> QED
                    BY <5>1, <5>2
            <4>7. Flat(g, k)
                <5> HIDE DEF g
                <5>1. g = [i \in 1..k |-> g[i]]
                    BY <4>5
                <5> QED
                    BY <4>6, <5>1 DEF Flat
            <4> HIDE DEF g
            <4> QED
                BY <3>2, <4>5, <4>7 DEF Typed
        <3> QED
            BY <3>3, <3>4
    <2> DEFINE F == CHOOSE f : Flat(f, N)
    <2>2. N \in 1..N
        BY <1>1, <1>3
    <2>3. Flat(F, N)
        BY <2>1, <2>2
    <2> HIDE DEF F
    <2>4. \A i \in 1..N : F[i] \in Seq(S)
        <3> DEFINE T == {k \in 1..N : F[k] \notin Seq(S)}
        <3> SUFFICES ASSUME T # {}
                     PROVE  FALSE
            OBVIOUS
        <3>0. T \in SUBSET Nat
            BY <1>1
        <3>1. PICK k \in T : \A m \in T : k <= m
            BY <3>0, LeastNat
        <3>2. k \in 1..N /\ k \in Nat /\ F[k] \notin Seq(S)
            BY <1>1, <3>1
        <3>3. F[k] = IF k = 1 THEN ss[k] ELSE F[k - 1] \o ss[k]
            BY <2>3, <3>2 DEF Flat
        <3>4. k # 1
            BY <1>1, <3>2, <3>3
        <3>5. k - 1 \in 1..N /\ k - 1 < k
            BY <1>1, <3>2, <3>4
        <3>6. F[k - 1] \in Seq(S) /\ ss[k] \in Seq(S)
            BY <1>1, <3>1, <3>2, <3>5
        <3>7. F[k - 1] \o ss[k] \in Seq(S)
            BY <3>6
        <3> QED
            BY <3>2, <3>3, <3>4, <3>7
    <2>5. FlattenSeq(ss) = F[N]
        BY <1>3 DEF FlattenSeq, F, Flat, N
    <2> QED
        BY <2>2, <2>4, <2>5
<1> QED
    BY <1>2, <1>3

\* What is picked are entries at the positions picked.
LEMMA PickedType ==
    ASSUME NEW S, NEW s \in Seq(S), NEW P \in SUBSET (DOMAIN s)
    PROVE  /\ Picked(s, P) \in Seq(S)
           /\ \A x \in ToSet(Picked(s, P)) : \E i \in P : x = s[i]
<1> DEFINE c == Cardinality(P)
           at == InOrder(P)
<1>1. Len(s) \in Nat /\ DOMAIN s = 1..Len(s)
    OBVIOUS
<1>2. c \in Nat /\ at \in [1..c -> P]
    BY <1>1, InOrderAscends
<1> HIDE DEF c, at
<1>3. \A k \in 1..c : at[k] \in P /\ s[at[k]] \in S
    BY <1>1, <1>2
<1> DEFINE q == [k \in 1..c |-> s[at[k]]]
<1>4. Picked(s, P) = q
    BY <1>2 DEF Picked, at
<1>5. q \in Seq(S)
    BY <1>2, <1>3
<1>6. \A x \in ToSet(q) : \E i \in P : x = s[i]
    <2>1. DOMAIN q = 1..c /\ \A k \in 1..c : q[k] = s[at[k]]
        OBVIOUS
    <2> HIDE DEF q
    <2> QED
        BY <1>3, <2>1 DEF ToSet
<1> QED
    BY <1>4, <1>5, <1>6

\* The first n of a sequence.
LEMMA FirstOf ==
    ASSUME NEW s, IsSeq(s), NEW n \in 0..Len(s)
    PROVE  /\ DOMAIN s = 1..Len(s) /\ DOMAIN SubSeq(s, 1, n) = 1..n
           /\ \A i \in 1..n : i \in DOMAIN s /\ SubSeq(s, 1, n)[i] = s[i]
<1> DEFINE E == {s[i] : i \in 1..Len(s)}
<1>1. \A i \in 1..Len(s) : s[i] \in E
    OBVIOUS
<1> HIDE DEF E
<1>2. s \in Seq(E) /\ DOMAIN s = 1..Len(s) /\ Len(s) \in Nat
    BY <1>1, IsSeqSeq
<1>3. n \in Nat /\ n <= Len(s)
    BY <1>2
<1>4. Len(SubSeq(s, 1, n)) = n /\ SubSeq(s, 1, n) \in Seq(E)
    BY <1>2, <1>3
<1>5. DOMAIN SubSeq(s, 1, n) = 1..n
    BY <1>3, <1>4
<1>6. \A i \in 1..n : SubSeq(s, 1, n)[i] = s[i]
    BY <1>2, <1>3
<1> QED
    BY <1>2, <1>3, <1>5, <1>6

\* They stay when the sequence grows.
LEMMA FirstOfLonger ==
    ASSUME NEW s, IsSeq(s), NEW e, NEW u, Longer(s, e, u), NEW n \in 0..Len(s)
    PROVE  SubSeq(u, 1, n) = SubSeq(s, 1, n)
<1>1. IsSeq(u) /\ n \in 0..Len(u) /\ \A i \in 1..n : u[i] = s[i]
    BY DEF Longer
<1>2. /\ DOMAIN SubSeq(s, 1, n) = 1..n /\ \A i \in 1..n : SubSeq(s, 1, n)[i] = s[i]
      /\ DOMAIN SubSeq(u, 1, n) = 1..n /\ \A i \in 1..n : SubSeq(u, 1, n)[i] = u[i]
    BY <1>1, FirstOf
<1> DEFINE a == SubSeq(s, 1, n)
           b == SubSeq(u, 1, n)
<1>3. a = [i \in 1..n |-> s[i]] /\ b = [i \in 1..n |-> u[i]]
    BY <1>2 DEF SubSeq
<1> QED
    BY <1>1, <1>3

-----------------------------------------------------------------------------
(* The log of a session.                                                   *)

Waiting == [id : Nat, names : Words]
StreamedBlock == [kind : BlockTypes, names : Words]

\* A body of the log, and a log of them.
IsBody(body) ==
    /\ body.ev.turn \in Nat \ {0} /\ body.ev.key \in Nat /\ body.ev.job \in Nat
    /\ body.data.names \in Words

WellTyped(lg) == IsSeq(lg) /\ \A i \in 1..Len(lg) : IsBody(lg[i])

EvsOf(lg) == [i \in DOMAIN lg |-> lg[i].ev]

\* The events of a type that a turn has, and the skills it has activated.
Of(lg, type, t) == {i \in DOMAIN lg : lg[i].ev.type = type /\ lg[i].ev.turn = t}

Activation(t) == Ev("SkillActivated", t, None, None, "-")
ActivatedAt(lg, i, t, x) == lg[i].ev = Activation(t) /\ x \in ToSet(lg[i].data.names)
ActivatedIn(lg, t) ==
    UNION {ToSet(lg[i].data.names) : i \in {k \in DOMAIN lg : lg[k].ev = Activation(t)}}

Called(lg, t) == Of(lg, "ModelCallStarted", t) # {}

\* A log with one more body.
LEMMA LogGrows ==
    ASSUME NEW lg, WellTyped(lg), NEW body, IsBody(body), NEW mg, Longer(lg, body, mg)
    PROVE  /\ WellTyped(mg) /\ Len(lg) \in Nat /\ Len(mg) = Len(lg) + 1
           /\ DOMAIN lg = 1..Len(lg) /\ DOMAIN mg = 1..(Len(lg) + 1)
           /\ \A i \in 1..Len(lg) : mg[i] = lg[i]
           /\ mg[Len(lg) + 1] = body
<1>1. /\ IsSeq(lg) /\ IsSeq(mg) /\ Len(lg) \in Nat /\ Len(mg) = Len(lg) + 1
      /\ \A i \in 1..Len(lg) : mg[i] = lg[i] /\ IsBody(lg[i])
      /\ mg[Len(lg) + 1] = body
    BY DEF Longer, WellTyped
<1>2. DOMAIN lg = 1..Len(lg) /\ DOMAIN mg = 1..Len(mg)
    <2> DEFINE L == {lg[i] : i \in 1..Len(lg)}
               M == {mg[i] : i \in 1..Len(mg)}
    <2>1. (\A i \in 1..Len(lg) : lg[i] \in L) /\ (\A i \in 1..Len(mg) : mg[i] \in M)
        OBVIOUS
    <2> HIDE DEF L, M
    <2> QED
        BY <1>1, <2>1, IsSeqSeq
<1>3. \A i \in 1..Len(mg) : IsBody(mg[i])
    <2>1. \A i \in 1..Len(mg) : i \in 1..Len(lg) \/ i = Len(lg) + 1
        BY <1>1
    <2> QED
        BY <1>1, <2>1
<1> QED
    BY <1>1, <1>2, <1>3 DEF WellTyped

\* The events of a log are a log of events.
LEMMA EvsType ==
    ASSUME NEW lg, WellTyped(lg)
    PROVE  /\ DOMAIN lg = 1..Len(lg) /\ Len(lg) \in Nat
           /\ DOMAIN EvsOf(lg) = DOMAIN lg /\ Len(EvsOf(lg)) = Len(lg)
           /\ \A i \in DOMAIN lg : EvsOf(lg)[i] = lg[i].ev
           /\ \E E : AreEvents(E) /\ EvsOf(lg) \in Seq(E)
           /\ FreshTurn(EvsOf(lg)) \in Nat \ {0} /\ FreshCall(EvsOf(lg)) \in Nat \ {0}
<1> DEFINE E == {lg[i].ev : i \in 1..Len(lg)}
           L == {lg[i] : i \in 1..Len(lg)}
<1>1. IsSeq(lg) /\ \A i \in 1..Len(lg) : IsBody(lg[i]) /\ lg[i].ev \in E /\ lg[i] \in L
    BY DEF WellTyped
<1>2. AreEvents(E)
    BY <1>1 DEF AreEvents, IsBody
<1> HIDE DEF E, L
<1>3. DOMAIN lg = 1..Len(lg) /\ Len(lg) \in Nat
    BY <1>1, IsSeqSeq
<1>4. /\ EvsOf(lg) \in Seq(E) /\ Len(EvsOf(lg)) = Len(lg) /\ DOMAIN EvsOf(lg) = DOMAIN lg
      /\ \A i \in DOMAIN lg : EvsOf(lg)[i] = lg[i].ev
    BY <1>1, <1>3 DEF EvsOf
<1>5. \A types : Cardinality(Positions(EvsOf(lg), types)) \in Nat
    <2> SUFFICES ASSUME NEW types
                 PROVE  Cardinality(Positions(EvsOf(lg), types)) \in Nat
        OBVIOUS
    <2>1. Positions(EvsOf(lg), types) \in SUBSET (1..Len(lg))
        BY <1>3, <1>4 DEF Positions
    <2> QED
        BY <1>3, <2>1, PositionsFinite
<1> QED
    BY <1>2, <1>3, <1>4, <1>5 DEF FreshTurn, FreshCall

\* A turn is minted with every TurnStarted.
LEMMA FreshGrows ==
    ASSUME NEW lg, WellTyped(lg), NEW body, IsBody(body), NEW mg, Longer(lg, body, mg)
    PROVE  FreshTurn(EvsOf(mg)) = FreshTurn(EvsOf(lg)) + (IF body.ev.type = "TurnStarted" THEN 1 ELSE 0)
<1> DEFINE E == {lg[i].ev : i \in 1..Len(lg)} \cup {body.ev}
           el == EvsOf(lg)
           em == EvsOf(mg)
           c == Cardinality(Positions(el, {"TurnStarted"}))
<1>1. /\ Len(lg) \in Nat /\ DOMAIN lg = 1..Len(lg) /\ DOMAIN mg = 1..(Len(lg) + 1)
      /\ \A i \in 1..Len(lg) : mg[i] = lg[i]
      /\ mg[Len(lg) + 1] = body
    BY LogGrows
<1>2. \A i \in 1..Len(lg) : lg[i].ev \in E
    OBVIOUS
<1>3. body.ev \in E
    OBVIOUS
<1> HIDE DEF E
<1>4. el \in Seq(E) /\ Len(el) = Len(lg)
    BY <1>1, <1>2 DEF EvsOf
<1>5. em = Append(el, body.ev)
    <2>1. em = [i \in 1..(Len(lg) + 1) |-> mg[i].ev]
        BY <1>1 DEF EvsOf
    <2>2. el = [i \in 1..Len(lg) |-> lg[i].ev]
        BY <1>1 DEF EvsOf
    <2>3. /\ Append(el, body.ev) \in Seq(E) /\ Len(Append(el, body.ev)) = Len(lg) + 1
          /\ \A i \in 1..Len(lg) : Append(el, body.ev)[i] = el[i]
          /\ Append(el, body.ev)[Len(lg) + 1] = body.ev
        BY <1>3, <1>4
    <2>4. \A i \in 1..(Len(lg) + 1) : Append(el, body.ev)[i] = mg[i].ev
        BY <1>1, <2>2, <2>3
    <2> DEFINE a == Append(el, body.ev)
    <2> HIDE DEF a, el, em
    <2>5. a \in Seq(E) /\ Len(a) = Len(lg) + 1 /\ \A i \in 1..(Len(lg) + 1) : a[i] = mg[i].ev
        BY <2>3, <2>4 DEF a
    <2>6. a = em
        BY <1>1, <2>1, <2>5
    <2> QED
        BY <2>6 DEF a
<1> HIDE DEF el, em
<1>6. /\ c \in Nat
      /\ Cardinality(Positions(Append(el, body.ev), {"TurnStarted"})) =
             c + (IF body.ev.type \in {"TurnStarted"} THEN 1 ELSE 0)
    BY <1>3, <1>4, AppendPositionsAny
<1> QED
    BY <1>5, <1>6 DEF FreshTurn, el, em

\* The new body is an event of its own type and turn only.
LEMMA OfGrows ==
    ASSUME NEW lg, WellTyped(lg), NEW body, IsBody(body), NEW mg, Longer(lg, body, mg), NEW type, NEW t
    PROVE  Of(mg, type, t) = IF body.ev.type = type /\ body.ev.turn = t THEN Of(lg, type, t) \cup {Len(lg) + 1}
                             ELSE Of(lg, type, t)
<1>1. /\ Len(lg) \in Nat /\ DOMAIN lg = 1..Len(lg) /\ DOMAIN mg = 1..(Len(lg) + 1)
      /\ \A i \in 1..Len(lg) : mg[i] = lg[i]
      /\ mg[Len(lg) + 1] = body
    BY LogGrows
<1>2. DOMAIN mg = DOMAIN lg \cup {Len(lg) + 1}
    BY <1>1
<1> QED
    BY <1>1, <1>2 DEF Of

\* Only an activation of the turn adds to what is activated in it.
LEMMA ActivatedGrows ==
    ASSUME NEW lg, WellTyped(lg), NEW body, IsBody(body), NEW mg, Longer(lg, body, mg), NEW t
    PROVE  ActivatedIn(mg, t) = IF body.ev = Activation(t) THEN ActivatedIn(lg, t) \cup ToSet(body.data.names)
                                ELSE ActivatedIn(lg, t)
<1> DEFINE A == {k \in DOMAIN lg : lg[k].ev = Activation(t)}
           B == {k \in DOMAIN mg : mg[k].ev = Activation(t)}
<1>1. /\ Len(lg) \in Nat /\ DOMAIN lg = 1..Len(lg) /\ DOMAIN mg = 1..(Len(lg) + 1)
      /\ \A i \in 1..Len(lg) : mg[i] = lg[i]
      /\ mg[Len(lg) + 1] = body
    BY LogGrows
<1>2. DOMAIN mg = DOMAIN lg \cup {Len(lg) + 1}
    BY <1>1
<1>3. B = IF body.ev = Activation(t) THEN A \cup {Len(lg) + 1} ELSE A
    BY <1>1, <1>2
<1>4. \A i \in A : mg[i] = lg[i]
    BY <1>1
<1>5. ActivatedIn(lg, t) = UNION {ToSet(lg[i].data.names) : i \in A}
    BY DEF ActivatedIn
<1>6. ActivatedIn(mg, t) = UNION {ToSet(mg[i].data.names) : i \in B}
    BY DEF ActivatedIn
<1> HIDE DEF A, B
<1>7. UNION {ToSet(mg[i].data.names) : i \in A} = UNION {ToSet(lg[i].data.names) : i \in A}
    BY <1>4
<1> QED
    BY <1>1, <1>3, <1>5, <1>6, <1>7

-----------------------------------------------------------------------------
(* The invariant.                                                          *)

OnceTypes == {"SystemPromptInjected", "ToolFilterOverridden"}

\* From the read of the log to the request.
PassPcs == {"compact", "inject", "activate", "suffix", "override", "compose", "call"}
Away == {"idle", "refused"}

ContextTypes ==
    /\ WellTyped(log)
    /\ turn \in Nat /\ seen \in 0..Len(log)
    /\ turn = None <=> pc \in Away
    /\ turn # None => Len(log) >= 1
    /\ pc = "load" => Len(log) >= 2
    /\ todo \in Words /\ fresh \in Words
    /\ pending \in Seq(Waiting) /\ reply \in Seq(StreamedBlock)

\* Turns are minted upwards; one that a crash left open is dirty.
TurnsOK ==
    /\ \A i \in DOMAIN log : log[i].ev.turn < FreshTurn(EvsOf(log))
    /\ turn < FreshTurn(EvsOf(log))
    /\ \A i \in DOMAIN log : log[i].ev.type = "TurnStarted" =>
          \/ log[i].ev.turn \in dirty \cup {turn}
          \/ \E k \in DOMAIN log : k > i /\ log[k].ev.type \in {"TurnCompleted", "TurnFailed"}

\* The call c is among the first n events.
CallAmong(lg, c, names, n) ==
    \E j \in 1..n : /\ lg[j].ev.type = "ToolUseRecorded" /\ lg[j].ev.key = c
                    /\ lg[j].data.names = names

\* Where the names of a body written after the first n events come from: what a suffix
\* holds was activated in its turn, what a result loads its call asked for.
Sourced(lg, body, n) ==
    /\ body.ev.type = "SystemPromptInjected" =>
          \A x \in ToSet(body.data.names) : \E j \in 1..n : ActivatedAt(lg, j, body.ev.turn, x)
    /\ body.ev.type = "ToolResultRecorded" /\ body.data.names # <<>> =>
          body.data.form # "error" /\ CallAmong(lg, body.ev.key, body.data.names, n)

SourcesOf(lg) == \A i \in DOMAIN lg : Sourced(lg, lg[i], i - 1)

\* What a turn has in hand is in the log.
HandsOK ==
    /\ \A n \in DOMAIN pending : CallAmong(log, pending[n].id, pending[n].names, Len(log))
    /\ pc = "activate" => \A x \in ToSet(fresh) : \E j \in DOMAIN log : ActivatedAt(log, j, turn, x)

\* A turn has one suffix and one override.
OnceOf(lg) ==
    \A i, k \in DOMAIN lg : /\ lg[i].ev.type \in OnceTypes /\ lg[i].ev.type = lg[k].ev.type
                            /\ lg[i].ev.turn = lg[k].ev.turn
                            => i = k

\* The suffix and the override of turn t are among the first n events.
SuffixBy(lg, t, n) ==
    \E i \in Of(lg, "SystemPromptInjected", t) : i <= n /\ ToSet(lg[i].data.names) = ActivatedIn(lg, t)
OverrideBy(lg, t, n) == \E i \in Of(lg, "ToolFilterOverridden", t) : i <= n

\* A turn t at p whose reads and writes all succeeded, after a pass that read n events.
Clean(lg, t, p, n, td, fr) ==
    /\ p # "suffix"
    /\ p \in PassPcs => \A k \in DOMAIN lg : k > n => lg[k].ev.turn = t
    /\ p = "activate" => (ToSet(td) \cup ToSet(fr)) \cap Prior(SubSeq(lg, 1, n)) = {}
    /\ Called(lg, t) => SuffixBy(lg, t, Len(lg)) /\ OverrideBy(lg, t, Len(lg))
    /\ Called(lg, t) /\ p \in PassPcs => SuffixBy(lg, t, n) /\ OverrideBy(lg, t, n)
    /\ Called(lg, t) /\ p = "activate" => td = <<>>
    /\ p \in {"override", "compose", "call"} => SuffixBy(lg, t, Len(lg))
    /\ p \in {"compose", "call"} => OverrideBy(lg, t, Len(lg))
    /\ ~Called(lg, t) /\ p \in {"init", "load", "compact", "inject", "activate"} =>
          /\ Of(lg, "SystemPromptInjected", t) = {}
          /\ ActivatedIn(lg, t) = IF p = "activate" THEN ToSet(fr) ELSE {}
    /\ p \in {"stream", "dispatch"} => Called(lg, t)

CleanOK == turn # None /\ turn \notin dirty => Clean(log, turn, pc, seen, todo, fresh)

PromptOK ==
    pc = "call" => /\ prompt.system = Suffix(History, turn)
                   /\ prompt.messages = Walk(History)
                   /\ prompt.tools = Surface(deps.tools.list, OverrideMode(History, turn))

Base == ContextTypes /\ TurnsOK /\ SourcesOf(log) /\ HandsOK /\ OnceOf(log)

\* The first events of a log, and their positions.
LEMMA LatestForIs ==
    ASSUME NEW lg, NEW n \in Nat, DOMAIN lg = 1..n, NEW type, NEW t
    PROVE  /\ LatestFor(lg, type, t) = 0 <=> Of(lg, type, t) = {}
           /\ LatestFor(lg, type, t) # 0 => LatestFor(lg, type, t) \in Of(lg, type, t)
           /\ Of(lg, type, t) \in SUBSET (1..n)
<1> DEFINE P == {i \in DOMAIN lg : IsType(lg[i], {type}) /\ lg[i].ev.turn = t}
<1>1. P = Of(lg, type, t) /\ P \in SUBSET (1..n)
    BY DEF Of, IsType
<1>2. LatestFor(lg, type, t) = Latest(P)
    BY DEF LatestFor
<1> HIDE DEF P
<1>3. /\ P = {} => Latest(P) = 0
      /\ P # {} => Latest(P) \in P
    BY <1>1, LatestIsLast
<1>4. \A x \in P : x # 0
    BY <1>1
<1> QED
    BY <1>1, <1>2, <1>3, <1>4

\* What is once in a log is found where it is, among its first n events too.
LEMMA OnceFound ==
    ASSUME NEW lg, WellTyped(lg), OnceOf(lg), NEW type \in OnceTypes, NEW t, NEW i \in Of(lg, type, t),
           NEW n \in Nat, i <= n, n <= Len(lg),
           NEW h, DOMAIN h = 1..n, \A k \in 1..n : h[k] = lg[k]
    PROVE  LatestFor(lg, type, t) = i /\ LatestFor(h, type, t) = i /\ h[i] = lg[i]
<1>1. DOMAIN lg = 1..Len(lg) /\ Len(lg) \in Nat
    BY EvsType
<1>2. Of(lg, type, t) = {i}
    BY DEF Of, OnceOf
<1>3. i \in 1..Len(lg) /\ i \in 1..n /\ i # 0
    BY <1>1 DEF Of
<1>4. Of(h, type, t) = {i}
    <2>1. \A k \in 1..n : k \in DOMAIN lg
        BY <1>1
    <2> QED
        BY <1>2, <1>3, <2>1 DEF Of
<1>5. LatestFor(lg, type, t) = i
    BY <1>1, <1>2, <1>3, LatestForIs
<1>6. LatestFor(h, type, t) = i
    BY <1>3, <1>4, LatestForIs
<1> QED
    BY <1>3, <1>5, <1>6

-----------------------------------------------------------------------------
(* What a step writes.                                                     *)

BodyOf(ev, data) == [seq |-> Len(log), ev |-> ev, data |-> data]

\* A step that writes body.
Recorded(body) ==
    /\ IsBody(body) /\ log' = Append(log, body)
    /\ Sourced(log, body, Len(log))
    /\ body.ev.type \in OnceTypes => Of(log, body.ev.type, body.ev.turn) = {}
    /\ \/ body.ev.type # "TurnStarted" /\ turn # None /\ body.ev.turn = turn
       \/ /\ body.ev.type = "TurnStarted" /\ turn = None
          /\ body.ev.turn = FreshTurn(EvsOf(log)) /\ turn' = body.ev.turn

Writes == log' = log \/ \E body : Recorded(body)

\* An event of the turn that is no suffix, override or result.
LEMMA PlainWrite ==
    ASSUME Base, NEW ev, NEW data, log' = Appended(ev, data), turn # None, ev.turn = turn,
           ev.key \in Nat, ev.job \in Nat, data.names \in Words,
           ev.type \notin OnceTypes \cup {"TurnStarted", "ToolResultRecorded"}
    PROVE  Writes
<1> DEFINE b == BodyOf(ev, data)
<1>1. b.ev = ev /\ b.data = data /\ log' = Append(log, b)
    BY DEF BodyOf, Appended
<1> HIDE DEF b
<1>2. turn \in Nat \ {0}
    BY DEF Base, ContextTypes, None
<1>3. IsBody(b)
    BY <1>1, <1>2 DEF IsBody
<1>4. Recorded(b)
    BY <1>1, <1>3 DEF Recorded, Sourced, OnceTypes
<1> QED
    BY <1>4 DEF Writes

\* What a pass writes, it writes about itself.
LEMMA MetaIs ==
    ASSUME NEW type
    PROVE  /\ Meta(type).type = type /\ Meta(type).turn = turn
           /\ Meta(type).key \in Nat /\ Meta(type).job \in Nat
BY DEF Meta, Ev, None

\* A body whose names are given, and one without.
LEMMA NamesIs ==
    ASSUME NEW names \in Words
    PROVE  [NoData EXCEPT !.names = names].names = names
BY DEF NoData, Data

\* An event that carries no names.
LEMMA NoNames == NoData.names = <<>> /\ NoData.names \in Words /\ ToSet(NoData.names) = {}
<1>1. <<>> \in Words /\ ToSet(<<>>) = {}
    BY DEF Words, ToSet
<1> QED
    BY <1>1 DEF NoData, Data

\* A suffix or an override, at most once.
LEMMA OnceWrite ==
    ASSUME Base, NEW type \in OnceTypes, NEW data, data.names \in Words,
           log' = Appended(Meta(type), data), LatestFor(log, type, turn) = 0, turn # None,
           type = "SystemPromptInjected" =>
               \A x \in ToSet(data.names) : \E j \in DOMAIN log : ActivatedAt(log, j, turn, x)
    PROVE  Writes
<1> DEFINE b == BodyOf(Meta(type), data)
<1>1. /\ b.ev.type = type /\ b.ev.turn = turn /\ b.ev.key \in Nat /\ b.ev.job \in Nat
      /\ b.data = data /\ log' = Append(log, b)
    BY MetaIs DEF BodyOf, Appended
<1> HIDE DEF b
<1>2. turn \in Nat \ {0}
    BY DEF Base, ContextTypes, None
<1>3. IsBody(b)
    BY <1>1, <1>2 DEF IsBody
<1>4. DOMAIN log = 1..Len(log) /\ Len(log) \in Nat
    BY EvsType DEF Base, ContextTypes
<1>5. Of(log, type, turn) = {}
    BY <1>4, LatestForIs
<1>6. type # "TurnStarted" /\ type # "ToolResultRecorded"
    BY DEF OnceTypes
<1>7. Sourced(log, b, Len(log))
    BY <1>1, <1>4, <1>6 DEF Sourced
<1>8. Recorded(b)
    BY <1>1, <1>3, <1>5, <1>6, <1>7 DEF Recorded
<1> QED
    BY <1>8 DEF Writes

\* record_system_prompt_injected, record_tool_filter_overridden: they write such an event, or nothing.
LEMMA OnceWrites ==
    ASSUME Base, NEW type \in OnceTypes, NEW data, data.names \in Words, turn # None,
           RecordOnce(type, data),
           type = "SystemPromptInjected" =>
               \A x \in ToSet(data.names) : \E j \in DOMAIN log : ActivatedAt(log, j, turn, x)
    PROVE  Writes
<1>1. \/ log' = log
      \/ LatestFor(log, type, turn) = 0 /\ log' = Appended(Meta(type), data)
    BY Zenon DEF RecordOnce, TryRecord, Record, Fail
<1> QED
    BY <1>1, OnceWrite DEF Writes

\* A step writes one body at most, of the turn it is about.
LEMMA StepWrites ==
    ASSUME Base, Next
    PROVE  Writes
<1>0. /\ DOMAIN log = 1..Len(log) /\ Len(log) \in Nat
      /\ FreshTurn(EvsOf(log)) \in Nat \ {0} /\ FreshCall(EvsOf(log)) \in Nat \ {0}
      /\ Evs = EvsOf(log)
    BY EvsType DEF Base, ContextTypes, Evs, EvsOf
<1>a. turn = None <=> pc \in Away
    BY DEF Base, ContextTypes
<1>1. ASSUME NEW names \in Asked, StartTurn(names)
      PROVE  Writes
    <2> DEFINE ev == TurnStarted(turn', turn')
               data == [NoData EXCEPT !.names = names]
               b == BodyOf(ev, data)
    <2>1. /\ pc = "idle" /\ turn' = FreshTurn(EvsOf(log)) /\ log' = Appended(ev, data)
        BY <1>0, <1>1, Zenon DEF StartTurn, Record
    <2>2. /\ ev.type = "TurnStarted" /\ ev.turn = turn' /\ ev.key = turn' /\ ev.job = 0
          /\ data.names \in Words
        <3>1. names \in Words
            BY AskedAssumption DEF Words
        <3> QED
            BY <3>1, NamesIs DEF TurnStarted, Ev, None
    <2> HIDE DEF ev, data
    <2>3. b.ev = ev /\ b.data = data /\ log' = Append(log, b)
        BY <2>1 DEF BodyOf, Appended
    <2> HIDE DEF b
    <2>4. IsBody(b)
        BY <1>0, <2>1, <2>2, <2>3 DEF IsBody
    <2>5. Recorded(b)
        BY <1>a, <2>1, <2>2, <2>3, <2>4 DEF Recorded, Sourced, OnceTypes, Away
    <2> QED
        BY <2>5 DEF Writes
<1>2. CASE Enter
    <2>1. \/ log' = log
          \/ pc = "init" /\ log' = Appended(Meta("ContextManageEntered"), NoData)
        BY <1>2, Zenon DEF Enter, Record
    <2>2. LET ev == Meta("ContextManageEntered") IN
          ev.type = "ContextManageEntered" /\ ev.turn = turn /\ ev.key \in Nat /\ ev.job \in Nat
        BY MetaIs
    <2> QED
        BY <1>a, <2>1, <2>2, PlainWrite, NoNames DEF Writes, Away, OnceTypes
<1>3. CASE Load \/ BeginInject \/ ComposePrompt \/ Round \/ Crash \/ \E spec \in Specs : Update(spec)
    <2>1. log' = log
        BY <1>3, Zenon DEF Load, BeginInject, ComposePrompt, Round, Crash, Update
    <2> QED
        BY <2>1 DEF Writes
<1>4. CASE Compact
    <2>1. \/ log' = log
          \/ pc = "compact" /\ \E r, how : log' = Appended(Meta("ContextCompacted"), Data(r[1], r[2], <<>>, how, Inherit))
        BY <1>4, Zenon DEF Compact, TryRecord, Record, Fail
    <2>2. CASE log' = log
        BY <2>2 DEF Writes
    <2>3. CASE log' # log
        <3>1. PICK r, how : pc = "compact" /\ log' = Appended(Meta("ContextCompacted"), Data(r[1], r[2], <<>>, how, Inherit))
            BY <2>1, <2>3
        <3> DEFINE data == Data(r[1], r[2], <<>>, how, Inherit)
        <3>2. data.names \in Words
            BY DEF Data, Words
        <3> HIDE DEF data
        <3>3. log' = Appended(Meta("ContextCompacted"), data)
            BY <3>1 DEF data
        <3> QED
            BY <1>a, <3>1, <3>2, <3>3, PlainWrite, MetaIs DEF Writes, Away, OnceTypes
    <2> QED
        BY <2>2, <2>3
<1>5. CASE Activate
    <2> DEFINE data == [NoData EXCEPT !.names = <<Head(todo)>>]
    <2>1. pc = "activate" /\ todo # <<>> /\ (log' = log \/ log' = Appended(Meta("SkillActivated"), data))
        BY <1>5, Zenon DEF Activate, Record, Fail
    <2>2. data.names \in Words
        <3>1. todo \in Seq(STRING) /\ todo # <<>>
            BY <2>1 DEF Base, ContextTypes, Words
        <3>2. Head(todo) \in STRING
            BY <3>1
        <3>3. <<Head(todo)>> \in Words
            BY <3>2 DEF Words
        <3> QED
            BY <3>3, NamesIs
    <2> HIDE DEF data
    <2> QED
        BY <1>a, <2>1, <2>2, PlainWrite, MetaIs DEF Writes, Away, OnceTypes
<1>6. CASE Inject
    <2> DEFINE data == [NoData EXCEPT !.names = fresh]
    <2>1. pc = "activate" /\ RecordOnce("SystemPromptInjected", data)
        BY <1>6, Zenon DEF Inject
    <2>2. data.names = fresh /\ fresh \in Words
        BY NamesIs DEF Base, ContextTypes
    <2>3. \A x \in ToSet(fresh) : \E j \in DOMAIN log : ActivatedAt(log, j, turn, x)
        BY <2>1 DEF Base, HandsOK
    <2> HIDE DEF data
    <2>4. turn # None
        BY <1>a, <2>1 DEF Away
    <2>5. "SystemPromptInjected" \in OnceTypes
        BY DEF OnceTypes
    <2> QED
        BY <2>1, <2>2, <2>3, <2>4, <2>5, OnceWrites
<1>7. CASE InjectFallback
    <2>1. pc = "suffix" /\ RecordOnce("SystemPromptInjected", NoData)
        BY <1>7, Zenon DEF InjectFallback
    <2>2. NoData.names = <<>> /\ NoData.names \in Words /\ ToSet(NoData.names) = {}
        BY NoNames
    <2>4. turn # None
        BY <1>a, <2>1 DEF Away
    <2>5. "SystemPromptInjected" \in OnceTypes
        BY DEF OnceTypes
    <2> QED
        BY <2>1, <2>2, <2>4, <2>5, OnceWrites
<1>8. CASE Override
    <2>0. turn # None /\ "ToolFilterOverridden" \in OnceTypes
        BY <1>a, <1>8 DEF Away, Override, OnceTypes
    <2>1. CASE \E mode \in Modes : RecordOnce("ToolFilterOverridden", [NoData EXCEPT !.mode = mode])
        <3>1. PICK mode \in Modes : RecordOnce("ToolFilterOverridden", [NoData EXCEPT !.mode = mode])
            BY <2>1
        <3> DEFINE data == [NoData EXCEPT !.mode = mode]
        <3>2. data.names \in Words
            BY DEF NoData, Data, Words
        <3> HIDE DEF data
        <3>3. RecordOnce("ToolFilterOverridden", data)
            BY <3>1 DEF data
        <3> QED
            BY <2>0, <3>2, <3>3, OnceWrites
    <2>2. CASE log' = IF LatestFor(log, "ToolFilterOverridden", turn) # 0 THEN log
                      ELSE Appended(Meta("ToolFilterOverridden"), NoData)
        BY <2>0, <2>2, OnceWrite, NoNames DEF Writes
    <2> QED
        BY <1>8, <2>1, <2>2, Zenon DEF Override
<1>9. CASE CallModel
    <2>1. pc = "call" /\ log' = Appended(ModelCallStarted(turn), NoData)
        BY <1>9, Zenon DEF CallModel, Record
    <2>2. LET ev == ModelCallStarted(turn) IN
          ev.type = "ModelCallStarted" /\ ev.turn = turn /\ ev.key \in Nat /\ ev.job \in Nat
        BY DEF ModelCallStarted, Ev, None
    <2> QED
        BY <1>a, <2>1, <2>2, PlainWrite, NoNames DEF Writes, Away, OnceTypes
<1>10. CASE StreamBlock
    <2> DEFINE b == Head(reply)
               ev == IF b.kind = "ToolUseRecorded" THEN ToolUse(turn, FreshCall(Evs), "valid") ELSE Meta(b.kind)
               data == [NoData EXCEPT !.names = b.names]
    <2>1. pc = "stream" /\ reply # <<>> /\ log' = Appended(ev, data)
        BY <1>10, Zenon DEF StreamBlock, Record
    <2>2. b \in StreamedBlock
        <3>1. reply \in Seq(StreamedBlock)
            BY DEF Base, ContextTypes
        <3> QED
            BY <2>1, <3>1
    <2>3. b.kind \in BlockTypes /\ b.names \in Words
        BY <2>2 DEF StreamedBlock
    <2> HIDE DEF b
    <2>4. data.names \in Words
        BY <2>3, NamesIs
    <2>5. ev.type = b.kind /\ ev.turn = turn /\ ev.key \in Nat /\ ev.job \in Nat
        <3>1. CASE b.kind = "ToolUseRecorded"
            BY <1>0, <3>1 DEF ToolUse, Ev, None
        <3>2. CASE b.kind # "ToolUseRecorded"
            <4>1. ev = Meta(b.kind)
                BY <3>2
            <4> HIDE DEF ev
            <4> QED
                BY <4>1, MetaIs
        <3> QED
            BY <3>1, <3>2
    <2> HIDE DEF ev, data
    <2>6. b.kind \notin OnceTypes \cup {"TurnStarted", "ToolResultRecorded"}
        BY <2>3 DEF BlockTypes, OnceTypes
    <2> QED
        BY <1>a, <2>1, <2>4, <2>5, <2>6, PlainWrite DEF Writes, Away
<1>11. CASE StreamEnd
    <2>1. \/ log' = log
          \/ pc = "stream" /\ \E stop : log' = Appended(ModelCallCompleted(turn, stop), NoData)
        BY <1>11, Zenon DEF StreamEnd, Record
    <2>2. \A stop : LET ev == ModelCallCompleted(turn, stop) IN
              ev.type = "ModelCallCompleted" /\ ev.turn = turn /\ ev.key \in Nat /\ ev.job \in Nat
        BY DEF ModelCallCompleted, Ev, None
    <2> QED
        BY <1>a, <2>1, <2>2, PlainWrite, NoNames DEF Writes, Away, OnceTypes
<1>12. CASE Dispatch
    <2> DEFINE c == Head(pending)
    <2>1. pc = "dispatch" /\ pending # <<>>
        BY <1>12 DEF Dispatch
    <2>2. PICK form : log' = Appended(ToolResult(turn, c.id),
                 [NoData EXCEPT !.form = form, !.names = IF form = "error" THEN <<>> ELSE c.names])
        BY <1>12, Zenon DEF Dispatch, Record
    <2>3. c \in Waiting /\ 1 \in DOMAIN pending /\ pending[1] = c
        <3>1. pending \in Seq(Waiting)
            BY DEF Base, ContextTypes
        <3> QED
            BY <2>1, <3>1
    <2>4. CallAmong(log, c.id, c.names, Len(log))
        BY <2>3, Zenon DEF Base, HandsOK
    <2> DEFINE ev == ToolResult(turn, c.id)
               data == [NoData EXCEPT !.form = form, !.names = IF form = "error" THEN <<>> ELSE c.names]
               b == BodyOf(ev, data)
    <2>5. c.id \in Nat /\ c.names \in Words
        BY <2>3 DEF Waiting
    <2> HIDE DEF c
    <2>6. /\ ev.type = "ToolResultRecorded" /\ ev.turn = turn /\ ev.key = c.id /\ ev.job \in Nat
        BY DEF ToolResult, Ev, None
    <2>7. /\ data.names \in Words
          /\ data.names # <<>> => data.form # "error" /\ data.names = c.names
        <3>1. <<>> \in Words
            BY DEF Words
        <3>2. data.form = form /\ data.names = IF form = "error" THEN <<>> ELSE c.names
            BY DEF NoData, Data
        <3> HIDE DEF data
        <3> QED
            BY <2>5, <3>1, <3>2
    <2> HIDE DEF ev, data
    <2>8. b.ev = ev /\ b.data = data /\ log' = Append(log, b)
        BY <2>2 DEF BodyOf, Appended, ev, data
    <2> HIDE DEF b
    <2>9. turn \in Nat \ {0} /\ turn # None
        BY <1>a, <2>1 DEF Base, ContextTypes, None, Away
    <2>10. IsBody(b)
        BY <2>5, <2>6, <2>7, <2>8, <2>9 DEF IsBody
    <2>11. Sourced(log, b, Len(log))
        BY <2>4, <2>6, <2>7, <2>8 DEF Sourced
    <2>12. Recorded(b)
        BY <2>6, <2>8, <2>9, <2>10, <2>11 DEF Recorded, OnceTypes
    <2> QED
        BY <2>12 DEF Writes
<1>13. CASE EndTurn
    <2>1. /\ pc \in {"complete", "fail"}
          /\ \E ev \in {TurnCompleted(turn), TurnFailed(turn)} : log' = Appended(ev, NoData)
        BY <1>13 DEF EndTurn, Record
    <2>2. \A ev \in {TurnCompleted(turn), TurnFailed(turn)} :
              ev.type \in {"TurnCompleted", "TurnFailed"} /\ ev.turn = turn /\ ev.key \in Nat /\ ev.job \in Nat
        BY DEF TurnCompleted, TurnFailed, Ev, None
    <2> QED
        BY <1>a, <2>1, <2>2, PlainWrite, NoNames DEF Writes, Away, OnceTypes
<1> QED
    BY <1>1, <1>2, <1>3, <1>4, <1>5, <1>6, <1>7, <1>8, <1>9, <1>10, <1>11, <1>12, <1>13, Zenon DEF Next

\* A crash: the turn that is taken up, if any, is one of the log that is not closed, the
\* calls to dispatch are calls of the log.
LEMMA CrashIs ==
    ASSUME Base, Crash
    PROVE  /\ log' = log /\ turn # None /\ dirty' = dirty \cup {turn}
           /\ seen' = 0 /\ todo' = <<>> /\ fresh' = <<>> /\ reply' = <<>>
           /\ pending' \in Seq(Waiting)
           /\ \A n \in DOMAIN pending' : CallAmong(log, pending'[n].id, pending'[n].names, Len(log))
           /\ \/ turn' = None /\ pc' \in Away
              \/ /\ turn' \in Nat \ {0} /\ turn' \in dirty' /\ pc' \in {"complete", "dispatch"}
                 /\ \E b \in DOMAIN log : turn' = log[b].ev.turn
<1> DEFINE el == EvsOf(log)
           d == Replay(el)
           use(c) == CHOOSE i \in DOMAIN log : IsType(log[i], {"ToolUseRecorded"}) /\ log[i].ev.key = c
           wait(n) == [id |-> d.pending[n].id, names |-> log[use(d.pending[n].id)].data.names]
<1>0. WellTyped(log) /\ Evs = el
    BY DEF Base, ContextTypes, Evs, EvsOf
<1>1. /\ DOMAIN log = 1..Len(log) /\ Len(log) \in Nat
      /\ DOMAIN el = DOMAIN log /\ \A i \in DOMAIN log : el[i] = log[i].ev
      /\ \A i \in DOMAIN log : IsBody(log[i])
    BY <1>0, EvsType DEF WellTyped
<1>2. PICK E : AreEvents(E) /\ el \in Seq(E)
    BY <1>0, EvsType
<1> HIDE DEF el, use
<1>3. /\ d.turn \in Nat /\ d.pending \in Seq([id : Nat, ok : BOOLEAN]) /\ CallsOf(el, d.pending)
      /\ d.point \in {"ResumeFromModelCompleted", "ResumeFromToolDispatching"} =>
             \E b \in DOMAIN el : /\ el[b].type = "TurnStarted" /\ d.turn = el[b].turn
                                  /\ \A k \in DOMAIN el : el[k].type \in Boundaries => k <= b
    BY <1>2, ReplayShapeAny DEF Taken
<1>4. /\ log' = log /\ turn # None /\ dirty' = dirty \cup {turn}
      /\ seen' = 0 /\ todo' = <<>> /\ fresh' = <<>> /\ reply' = <<>>
      /\ turn' = IF d.point \in {"ResumeFromModelCompleted", "ResumeFromToolDispatching"}
                 THEN d.turn ELSE None
      /\ pc' = CASE d.point = "Malformed" -> "refused"
                 [] d.point = "ResumeFromModelCompleted" -> "complete"
                 [] d.point = "ResumeFromToolDispatching" -> "dispatch"
                 [] OTHER -> "idle"
      /\ pending' = [n \in DOMAIN d.pending |-> wait(n)]
    BY <1>0, Zenon DEF Crash, use
<1> HIDE DEF d
<1> DEFINE m == Len(d.pending)
<1> DEFINE p == d.pending
<1>p. p \in Seq([id : Nat, ok : BOOLEAN]) /\ CallsOf(el, p)
    BY <1>3
<1>5. m \in Nat /\ DOMAIN p = 1..m /\ \A n \in 1..m : p[n].id \in Nat
    <2> HIDE DEF p
    <2>1. m = Len(p)
        BY DEF p
    <2> HIDE DEF m
    <2> DEFINE T == [id : Nat, ok : BOOLEAN]
    <2>2. \A w \in T : w.id \in Nat
        OBVIOUS
    <2>3. p \in Seq(T)
        BY <1>p
    <2> HIDE DEF T
    <2>4. Len(p) \in Nat /\ DOMAIN p = 1..Len(p) /\ \A n \in 1..Len(p) : p[n] \in T
        BY <2>3
    <2> QED
        BY <2>1, <2>2, <2>4
<1> HIDE DEF m
<1>6. \A n \in 1..m :
          \E j \in DOMAIN log : log[j].ev.type = "ToolUseRecorded" /\ log[j].ev.key = p[n].id
    <2> HIDE DEF p
    <2>1. \A n \in 1..m : \E j \in DOMAIN el : el[j].type = "ToolUseRecorded" /\ el[j].key = p[n].id
        BY <1>p, <1>5 DEF CallsOf
    <2> QED
        BY <1>1, <2>1
<1>7. ASSUME NEW n \in 1..m
      PROVE  wait(n) \in Waiting /\ CallAmong(log, wait(n).id, wait(n).names, Len(log))
    <2> DEFINE c == d.pending[n].id
               u == use(c)
    <2>1. c \in Nat /\ \E j \in DOMAIN log : IsType(log[j], {"ToolUseRecorded"}) /\ log[j].ev.key = c
        BY <1>5, <1>6 DEF IsType
    <2> HIDE DEF c
    <2>2. u \in DOMAIN log /\ IsType(log[u], {"ToolUseRecorded"}) /\ log[u].ev.key = c
        BY <2>1 DEF use
    <2> HIDE DEF u
    <2>3. wait(n) = [id |-> c, names |-> log[u].data.names]
        BY DEF c, u
    <2>4. log[u].data.names \in Words
        BY <1>1, <2>2 DEF IsBody
    <2> HIDE DEF wait
    <2>5. wait(n) \in Waiting /\ wait(n).id = c /\ wait(n).names = log[u].data.names
        BY <2>1, <2>3, <2>4 DEF Waiting
    <2>6. u \in 1..Len(log) /\ log[u].ev.type = "ToolUseRecorded" /\ log[u].ev.key = c
        BY <1>1, <2>2 DEF IsType
    <2> QED
        BY <2>5, <2>6 DEF CallAmong
<1> HIDE DEF wait
<1>8. /\ pending' \in Seq(Waiting)
      /\ \A n \in DOMAIN pending' : CallAmong(log, pending'[n].id, pending'[n].names, Len(log))
    <2>1. pending' = [n \in 1..m |-> wait(n)]
        BY <1>4, <1>5
    <2>2. \A n \in 1..m : wait(n) \in Waiting
        BY <1>7
    <2>3. pending' \in Seq(Waiting)
        BY <1>5, <2>1, <2>2
    <2>4. DOMAIN pending' = 1..m /\ \A n \in 1..m : pending'[n] = wait(n)
        BY <2>1
    <2>5. ASSUME NEW n \in DOMAIN pending'
          PROVE  CallAmong(log, pending'[n].id, pending'[n].names, Len(log))
        <3>1. n \in 1..m /\ pending'[n] = wait(n)
            BY <2>4
        <3> QED
            BY <1>7, <3>1
    <2> QED
        BY <2>3, <2>5
<1>9. CASE d.point \in {"ResumeFromModelCompleted", "ResumeFromToolDispatching"}
    <2>1. turn' = d.turn /\ pc' \in {"complete", "dispatch"}
        BY <1>4, <1>9
    <2>2. PICK b \in DOMAIN log : /\ log[b].ev.type = "TurnStarted" /\ d.turn = log[b].ev.turn
                                  /\ \A k \in DOMAIN log : log[k].ev.type \in Boundaries => k <= b
        BY <1>1, <1>3, <1>9
    <2>3. d.turn \in Nat \ {0}
        BY <1>1, <2>2 DEF IsBody
    <2>4. d.turn \in dirty \cup {turn}
        <3>1. \/ log[b].ev.turn \in dirty \cup {turn}
              \/ \E k \in DOMAIN log : k > b /\ log[k].ev.type \in {"TurnCompleted", "TurnFailed"}
            BY <2>2 DEF Base, TurnsOK
        <3>2. \A k \in DOMAIN log : log[k].ev.type \in {"TurnCompleted", "TurnFailed"} => ~(k > b)
            BY <1>1, <2>2 DEF Boundaries
        <3> QED
            BY <2>2, <3>1, <3>2
    <2> QED
        BY <1>4, <1>8, <2>1, <2>2, <2>3, <2>4
<1>10. CASE d.point \notin {"ResumeFromModelCompleted", "ResumeFromToolDispatching"}
    <2>1. turn' = None /\ pc' \in Away
        BY <1>4, <1>10 DEF Away
    <2> QED
        BY <1>4, <1>8, <2>1
<1> QED
    BY <1>9, <1>10

-----------------------------------------------------------------------------
(* The log, the turns and what a turn has in hand.                         *)

\* A step leaves the log alone or makes it longer by one body.
LEMMA StepLog ==
    ASSUME Base, Next
    PROVE  /\ WellTyped(log) /\ WellTyped(log') /\ Len(log) \in Nat
           /\ \/ log' = log
              \/ \E body : Recorded(body) /\ Longer(log, body, log') /\ Len(log') = Len(log) + 1
<1>1. WellTyped(log) /\ IsSeq(log) /\ Len(log) \in Nat
    BY EvsType DEF Base, ContextTypes, WellTyped
<1>2. CASE log' = log
    BY <1>1, <1>2
<1>3. CASE log' # log
    <2>1. PICK body : Recorded(body)
        BY <1>3, StepWrites DEF Writes
    <2>2. Longer(log, body, log') /\ IsBody(body)
        BY <1>1, <2>1, AppendLonger DEF Recorded
    <2>3. WellTyped(log') /\ Len(log') = Len(log) + 1
        BY <1>1, <2>2, LogGrows
    <2> QED
        BY <1>1, <2>1, <2>2, <2>3
<1> QED
    BY <1>2, <1>3

\* Who the turn is after a step.
LEMMA TurnMoves ==
    ASSUME Base, Next
    PROVE  /\ dirty \subseteq dirty'
           /\ \/ turn' = turn
              \/ /\ turn = None /\ turn' = FreshTurn(EvsOf(log)) /\ pc' = "init"
                 /\ \E body : body.ev.type = "TurnStarted" /\ log' = Append(log, body)
              \/ /\ turn' = None /\ pc' = "idle"
                 /\ \E body : body.ev.type \in {"TurnCompleted", "TurnFailed"} /\ log' = Append(log, body)
              \/ Crash
<1>1. ASSUME NEW names \in Asked, StartTurn(names)
      PROVE  /\ dirty' = dirty /\ turn = None /\ turn' = FreshTurn(EvsOf(log)) /\ pc' = "init"
             /\ \E body : body.ev.type = "TurnStarted" /\ log' = Append(log, body)
    <2>1. /\ dirty' = dirty /\ pc = "idle" /\ turn' = FreshTurn(Evs) /\ pc' = "init"
          /\ log' = Appended(TurnStarted(turn', turn'), [NoData EXCEPT !.names = names])
        BY <1>1, Zenon DEF StartTurn, Record
    <2>2. turn = None
        BY <2>1 DEF Base, ContextTypes, Away
    <2>3. Evs = EvsOf(log)
        BY DEF Evs, EvsOf
    <2>4. \A data : BodyOf(TurnStarted(turn', turn'), data).ev.type = "TurnStarted"
        BY DEF BodyOf, TurnStarted, Ev
    <2> QED
        BY <2>1, <2>2, <2>3, <2>4, Zenon DEF Appended, BodyOf
<1>2. CASE EndTurn
    <2>1. /\ dirty' = dirty /\ turn' = None /\ pc' = "idle"
          /\ \E ev \in {TurnCompleted(turn), TurnFailed(turn)} : log' = Append(log, BodyOf(ev, NoData))
        BY <1>2 DEF EndTurn, Record, Appended, BodyOf
    <2>2. \A ev \in {TurnCompleted(turn), TurnFailed(turn)} :
              BodyOf(ev, NoData).ev.type \in {"TurnCompleted", "TurnFailed"}
        BY DEF BodyOf, TurnCompleted, TurnFailed, Ev
    <2> QED
        BY <2>1, <2>2
<1>3. CASE Crash
    BY <1>3, CrashIs
<1>4. CASE Load
    <2>1. turn' = turn /\ (dirty' = IF short' THEN dirty \cup {turn} ELSE dirty)
        BY <1>4, Zenon DEF Load, Goto
    <2> QED
        BY <2>1
<1>5. ASSUME \/ Enter \/ Compact \/ BeginInject \/ Activate \/ Inject \/ InjectFallback
             \/ Override \/ ComposePrompt \/ CallModel \/ StreamBlock \/ StreamEnd
             \/ Dispatch \/ Round \/ \E spec \in Specs : Update(spec)
      PROVE  turn' = turn /\ (dirty' = dirty \/ dirty' = dirty \cup {turn})
    BY <1>5, Zenon DEF Enter, Compact, BeginInject, Activate, Inject, InjectFallback, Override,
       ComposePrompt, CallModel, StreamBlock, StreamEnd, Dispatch, Round, Update, Goto,
       Record, TryRecord, RecordOnce, Fail
<1> QED
    BY <1>1, <1>2, <1>3, <1>4, <1>5, Zenon DEF Next

\* What messages name are names.
LEMMA NamedType ==
    ASSUME NEW h, NEW n \in Nat, DOMAIN h = 1..n, \A i \in 1..n : h[i].data.names \in Words,
           NEW type, NEW turns
    PROVE  Named(h, type, turns) \in Words
<1> DEFINE part(i) == IF IsType(h[i], {type}) /\ h[i].ev.turn \in turns THEN h[i].data.names ELSE <<>>
           parts == [i \in 1..n |-> part(i)]
<1>1. \A i \in 1..n : part(i) \in Words
    <2>1. <<>> \in Words
        BY DEF Words
    <2> QED
        BY <2>1
<1>2. Named(h, type, turns) = FlattenSeq(parts)
    BY DEF Named
<1> HIDE DEF part
<1>3. parts \in Seq(Words)
    BY <1>1
<1> HIDE DEF parts
<1> QED
    BY <1>2, <1>3, FlattenType DEF Words

\* The candidates are names that no activation before has brought.
LEMMA CandidatesType ==
    ASSUME NEW h, NEW n \in Nat, DOMAIN h = 1..n, \A i \in 1..n : h[i].data.names \in Words,
           NEW t, NEW provider
    PROVE  /\ Candidates(h, t, provider) \in Words
           /\ ToSet(Candidates(h, t, provider)) \cap Prior(h) = {}
<1> DEFINE said == Named(h, "AssistantMessageAppended", 1..t - 1)
           own == Named(h, "TurnStarted", {t})
           P == {i \in DOMAIN said : said[i] \in provider \ Hidden}
           by == ByModel(h, t, provider)
           asked == own \o by
           prior == Prior(h)
           Q == {i \in DOMAIN asked : /\ asked[i] \in provider \ prior
                                      /\ \A k \in 1..i - 1 : asked[k] # asked[i]}
<1>1. said \in Words /\ own \in Words
    BY NamedType
<1>2. by = Picked(said, P)
    BY DEF ByModel
<1>3. by \in Words
    <2>1. P \in SUBSET (DOMAIN said)
        OBVIOUS
    <2> HIDE DEF said, P, by
    <2> QED
        BY <1>1, <1>2, <2>1, PickedType DEF Words
<1>4. Candidates(h, t, provider) = Picked(asked, Q)
    BY DEF Candidates
<1> HIDE DEF said, own, by, P
<1>5. asked \in Words
    BY <1>1, <1>3 DEF Words
<1> HIDE DEF asked, prior
<1>6. Q \in SUBSET (DOMAIN asked) /\ \A i \in Q : asked[i] \notin prior
    OBVIOUS
<1> HIDE DEF Q
<1>7. /\ Picked(asked, Q) \in Words
      /\ \A x \in ToSet(Picked(asked, Q)) : \E i \in Q : x = asked[i]
    BY <1>5, <1>6, PickedType DEF Words
<1> QED
    BY <1>4, <1>6, <1>7 DEF prior

\* The history of the pass.
LEMMA HistoryIs ==
    ASSUME ContextTypes
    PROVE  /\ seen \in Nat /\ seen <= Len(log) /\ DOMAIN History = 1..seen
           /\ DOMAIN log = 1..Len(log) /\ Len(log) \in Nat
           /\ \A i \in 1..seen : /\ i \in DOMAIN log /\ History[i] = log[i]
                                 /\ IsBody(log[i]) /\ History[i].data.names \in Words
<1>1. Len(log) \in Nat /\ DOMAIN log = 1..Len(log) /\ IsSeq(log) /\ \A i \in 1..Len(log) : IsBody(log[i])
    BY EvsType DEF ContextTypes, WellTyped
<1>2. seen \in 0..Len(log)
    BY DEF ContextTypes
<1>3. DOMAIN History = 1..seen /\ \A i \in 1..seen : i \in DOMAIN log /\ History[i] = log[i]
    BY <1>1, <1>2, FirstOf DEF History
<1> QED
    BY <1>1, <1>2, <1>3 DEF IsBody

\* What the pass has to activate, what it has activated, what is streamed and called.
LEMMA HandsTyped ==
    ASSUME Base, Next
    PROVE  todo' \in Words /\ fresh' \in Words /\ pending' \in Seq(Waiting) /\ reply' \in Seq(StreamedBlock)
<1> DEFINE Goal == todo' \in Words /\ fresh' \in Words /\ pending' \in Seq(Waiting) /\ reply' \in Seq(StreamedBlock)
<1>0. /\ todo \in Words /\ fresh \in Words /\ pending \in Seq(Waiting) /\ reply \in Seq(StreamedBlock)
      /\ <<>> \in Words /\ <<>> \in Seq(Waiting) /\ <<>> \in Seq(StreamedBlock)
    BY DEF Base, ContextTypes, Words
<1>1. ASSUME \/ \E names \in Asked : StartTurn(names)
             \/ Enter \/ Load \/ Compact \/ InjectFallback \/ Override \/ ComposePrompt \/ Round
             \/ EndTurn \/ \E spec \in Specs : Update(spec)
      PROVE  todo' = todo /\ fresh' = fresh /\ pending' = pending /\ reply' = reply
    BY <1>1, Zenon DEF StartTurn, Enter, Load, Compact, InjectFallback, Override, ComposePrompt, Round,
       EndTurn, Update, PassVars, CallVars
<1>2. CASE BeginInject
    <2>1. /\ fresh' = <<>> /\ pending' = pending /\ reply' = reply
          /\ \/ todo' = todo
             \/ todo' = <<>>
             \/ todo' = Candidates(History, turn, deps.pipe.skills)
        BY <1>2, Zenon DEF BeginInject, CallVars
    <2>2. Candidates(History, turn, deps.pipe.skills) \in Words
        BY HistoryIs, CandidatesType DEF Base
    <2> QED
        BY <1>0, <2>1, <2>2
<1>3. CASE Activate
    <2>1. /\ pending' = pending /\ reply' = reply /\ todo # <<>>
          /\ \/ todo' = <<>> /\ fresh' = <<>>
             \/ todo' = Tail(todo) /\ fresh' = Append(fresh, Head(todo))
        BY <1>3, Zenon DEF Activate, CallVars
    <2>2. Tail(todo) \in Words /\ Append(fresh, Head(todo)) \in Words
        <3>1. todo \in Seq(STRING) /\ fresh \in Seq(STRING) /\ todo # <<>>
            BY <1>0, <2>1 DEF Words
        <3>2. Head(todo) \in STRING /\ Tail(todo) \in Seq(STRING)
            BY <3>1
        <3> QED
            BY <3>1, <3>2 DEF Words
    <2> QED
        BY <1>0, <2>1, <2>2
<1>4. CASE Inject
    <2>1. todo' = todo /\ fresh' = <<>> /\ pending' = pending /\ reply' = reply
        BY <1>4, Zenon DEF Inject, CallVars
    <2> QED
        BY <1>0, <2>1
<1>5. CASE CallModel
    <2>1. todo' = todo /\ fresh' = fresh /\ pending' = pending /\ reply' \in Replies
        BY <1>5, Zenon DEF CallModel, PassVars
    <2> QED
        BY <1>0, <2>1, RepliesAssumption DEF StreamedBlock, Words
<1>6. CASE StreamBlock
    <2> DEFINE b == Head(reply)
               ev == IF b.kind = "ToolUseRecorded" THEN ToolUse(turn, FreshCall(Evs), "valid") ELSE Meta(b.kind)
    <2>1. /\ todo' = todo /\ fresh' = fresh /\ reply # <<>> /\ reply' = Tail(reply)
          /\ pending' = IF b.kind = "ToolUseRecorded"
                        THEN Append(pending, [id |-> ev.key, names |-> b.names]) ELSE pending
        BY <1>6, Zenon DEF StreamBlock, PassVars
    <2>2. b \in StreamedBlock /\ Tail(reply) \in Seq(StreamedBlock)
        BY <1>0, <2>1
    <2>3. b.kind = "ToolUseRecorded" => ev.key \in Nat
        BY EvsType DEF Base, ContextTypes, Evs, EvsOf, ToolUse, Ev
    <2>4. b.names \in Words
        BY <2>2 DEF StreamedBlock
    <2> HIDE DEF b, ev
    <2>5. b.kind = "ToolUseRecorded" => [id |-> ev.key, names |-> b.names] \in Waiting
        BY <2>3, <2>4 DEF Waiting
    <2>6. pending' \in Seq(Waiting)
        BY <1>0, <2>1, <2>5
    <2> QED
        BY <1>0, <2>1, <2>2, <2>6
<1>7. CASE StreamEnd
    <2>1. /\ todo' = todo /\ fresh' = fresh /\ reply' = <<>> /\ (pending' = pending \/ pending' = <<>>)
        BY <1>7, Zenon DEF StreamEnd, PassVars
    <2> QED
        BY <1>0, <2>1
<1>8. CASE Dispatch
    <2>1. todo' = todo /\ fresh' = fresh /\ reply' = reply /\ pending # <<>> /\ pending' = Tail(pending)
        BY <1>8, Zenon DEF Dispatch, PassVars
    <2>2. Tail(pending) \in Seq(Waiting)
        BY <1>0, <2>1
    <2> QED
        BY <1>0, <2>1, <2>2
<1>9. CASE Crash
    BY <1>0, <1>9, CrashIs
<1> QED
    BY <1>0, <1>1, <1>2, <1>3, <1>4, <1>5, <1>6, <1>7, <1>8, <1>9, Zenon DEF Next

\* The type invariant, over a step.
LEMMA TypesStep ==
    ASSUME Base, Next
    PROVE  ContextTypes'
<1>0. /\ turn \in Nat /\ seen \in 0..Len(log) /\ (turn = None <=> pc \in Away)
      /\ (turn # None => Len(log) >= 1) /\ (pc = "load" => Len(log) >= 2)
    BY DEF Base, ContextTypes
<1>1. WellTyped(log') /\ Len(log) \in Nat /\ Len(log') \in Nat /\ Len(log') >= Len(log)
    BY StepLog
<1>2. todo' \in Words /\ fresh' \in Words /\ pending' \in Seq(Waiting) /\ reply' \in Seq(StreamedBlock)
    BY HandsTyped
<1>3. ASSUME NEW names \in Asked, StartTurn(names)
      PROVE  ContextTypes'
    <2>1. turn' = FreshTurn(Evs) /\ pc' = "init" /\ seen' = seen /\ \E b : log' = Append(log, b)
        BY <1>3, Zenon DEF StartTurn, PassVars, Record, Appended
    <2>2. turn' \in Nat \ {0}
        BY <2>1, EvsType DEF Base, ContextTypes, Evs, EvsOf
    <2>3. Len(log') = Len(log) + 1
        BY <2>1, AppendLonger DEF Longer, Base, ContextTypes, WellTyped
    <2> QED
        BY <1>0, <1>1, <1>2, <2>1, <2>2, <2>3 DEF ContextTypes, Away, None
<1>4. CASE Enter
    <2>1. /\ pc = "init" /\ turn' = turn /\ seen' = seen
          /\ pc' = "fail" \/ (pc' = "load" /\ \E b : log' = Append(log, b))
        BY <1>4, Zenon DEF Enter, PassVars, Goto, Record, Appended
    <2>2. pc' = "load" => Len(log') = Len(log) + 1
        BY <2>1, AppendLonger DEF Longer, Base, ContextTypes, WellTyped
    <2> QED
        BY <1>0, <1>1, <1>2, <2>1, <2>2 DEF ContextTypes, Away
<1>5. CASE Load
    <2>1. /\ pc = "load" /\ turn' = turn /\ pc' = "compact" /\ log' = log
          /\ seen' = Len(log) \/ seen' \in {0, Len(log) - 2}
        BY <1>5, Zenon DEF Load, Goto
    <2>2. seen' \in 0..Len(log')
        BY <1>0, <1>1, <2>1
    <2> QED
        BY <1>0, <1>1, <1>2, <2>1, <2>2 DEF ContextTypes, Away
<1>6. ASSUME Compact \/ BeginInject \/ Activate \/ Inject \/ InjectFallback \/ Override \/ ComposePrompt
             \/ CallModel \/ StreamBlock \/ StreamEnd \/ Dispatch \/ Round
      PROVE  ContextTypes'
    <2>1. /\ turn' = turn /\ seen' = seen
          /\ pc \in {"compact", "inject", "activate", "suffix", "override", "compose", "call", "stream", "dispatch"}
          /\ pc' \in {"inject", "activate", "suffix", "override", "compose", "call", "stream", "dispatch",
                      "complete", "fail", "init"}
        <3>1. CASE Compact \/ BeginInject \/ Activate \/ Inject \/ InjectFallback \/ Override
            BY <3>1 DEF Compact, BeginInject, Activate, Inject, InjectFallback, Override, PassVars, Goto
        <3>2. CASE ComposePrompt \/ CallModel \/ StreamBlock \/ StreamEnd \/ Dispatch \/ Round
            BY <3>2 DEF ComposePrompt, CallModel, StreamBlock, StreamEnd, Dispatch, Round, PassVars, Goto
        <3> QED
            BY <1>6, <3>1, <3>2
    <2>2. turn # None /\ pc' # "load" /\ pc' \notin Away
        BY <1>0, <2>1 DEF Away
    <2> QED
        BY <1>0, <1>1, <1>2, <2>1, <2>2 DEF ContextTypes
<1>7. CASE EndTurn
    <2>1. turn' = None /\ pc' = "idle" /\ seen' = 0
        BY <1>7, Zenon DEF EndTurn
    <2> QED
        BY <1>0, <1>1, <1>2, <2>1 DEF ContextTypes, Away, None
<1>8. ASSUME \E spec \in Specs : Update(spec)
      PROVE  ContextTypes'
    <2>1. turn' = turn /\ pc' = pc /\ seen' = seen /\ log' = log
        BY <1>8, Zenon DEF Update
    <2> QED
        BY <1>0, <1>1, <1>2, <2>1 DEF ContextTypes
<1>9. CASE Crash
    <2>1. DOMAIN log = 1..Len(log)
        BY EvsType DEF Base, ContextTypes
    <2>2. /\ log' = log /\ seen' = 0
          /\ turn' \in Nat /\ (turn' = None <=> pc' \in Away) /\ pc' # "load"
        BY <1>9, CrashIs DEF None, Away
    <2>3. turn # None
        BY <1>9, CrashIs
    <2> QED
        BY <1>0, <1>1, <1>2, <2>2, <2>3 DEF ContextTypes
<1> QED
    BY <1>3, <1>4, <1>5, <1>6, <1>7, <1>8, <1>9, Zenon DEF Next

\* Turns are minted upwards and closed before the next, over a step.
LEMMA TurnsStep ==
    ASSUME Base, Next
    PROVE  TurnsOK'
<1> DEFINE F == FreshTurn(EvsOf(log))
           G == FreshTurn(EvsOf(log'))
           n == Len(log)
           Closes(lg, i) == \E k \in DOMAIN lg : k > i /\ lg[k].ev.type \in {"TurnCompleted", "TurnFailed"}
<1>0. /\ \A i \in DOMAIN log : log[i].ev.turn < F
      /\ turn < F /\ turn \in Nat /\ F \in Nat \ {0}
      /\ \A i \in DOMAIN log : log[i].ev.type = "TurnStarted" =>
            log[i].ev.turn \in dirty \cup {turn} \/ Closes(log, i)
      /\ \A i \in DOMAIN log : log[i].ev.turn \in Nat \ {0}
      /\ WellTyped(log) /\ n \in Nat /\ DOMAIN log = 1..n
    BY EvsType DEF Base, TurnsOK, ContextTypes, WellTyped, IsBody
<1>1. dirty \subseteq dirty'
    BY TurnMoves
<1> DEFINE Adds(body) == /\ Recorded(body) /\ DOMAIN log' = 1..(n + 1) /\ log'[n + 1] = body
                         /\ \A i \in 1..n : log'[i] = log[i]
                         /\ G = F + (IF body.ev.type = "TurnStarted" THEN 1 ELSE 0)
                         /\ body.ev.turn \in Nat \ {0}
<1>g. (log' = log /\ G = F) \/ \E body : Adds(body)
    <2>1. CASE log' = log
        BY <2>1
    <2>2. CASE log' # log
        <3>1. PICK body : Recorded(body) /\ Longer(log, body, log')
            BY <2>2, StepLog
        <3>2. IsBody(body)
            BY <3>1 DEF Recorded
        <3> QED
            BY <1>0, <3>1, <3>2, LogGrows, FreshGrows DEF IsBody
    <2> QED
        BY <2>1, <2>2
<1> HIDE DEF F, G, n
<1>2. (\A i \in DOMAIN log' : log'[i].ev.turn < G) /\ F <= G
    <2>1. CASE log' = log /\ G = F
        BY <1>0, <2>1
    <2>2. CASE \E body : Adds(body)
        <3>1. PICK body : Adds(body)
            BY <2>2
        <3>2. F <= G /\ body.ev.turn < G /\ G \in Nat
            <4>1. \/ body.ev.type # "TurnStarted" /\ body.ev.turn = turn
                  \/ body.ev.type = "TurnStarted" /\ body.ev.turn = F
                BY <3>1 DEF Recorded, F
            <4> QED
                BY <1>0, <3>1, <4>1
        <3>3. \A i \in DOMAIN log' : i \in 1..n \/ i = n + 1
            BY <1>0, <3>1
        <3>4. \A i \in 1..n : log[i].ev.turn < G
            BY <1>0, <3>2
        <3> QED
            BY <3>1, <3>2, <3>3, <3>4
    <2> QED
        BY <1>g, <2>1, <2>2
<1>3. \A i \in DOMAIN log : Closes(log, i) => Closes(log', i)
    BY <1>0, <1>g
<1>4. G \in Nat
    <2>1. WellTyped(log')
        BY StepLog
    <2> QED
        BY <2>1, EvsType DEF G
<1>5. CASE turn' = turn
    <2>1. \A i \in DOMAIN log' : log'[i].ev.type = "TurnStarted" => i \in DOMAIN log /\ log'[i] = log[i]
        <3>1. CASE log' = log
            BY <3>1
        <3>2. CASE log' # log
            <4>1. PICK body : Adds(body)
                BY <1>g, <3>2
            <4>2. body.ev.type # "TurnStarted"
                <5>1. FreshTurn(EvsOf(log)) # turn
                    BY <1>0 DEF F
                <5> QED
                    BY <1>5, <4>1, <5>1 DEF Recorded
            <4>3. \A i \in 1..(n + 1) : i \in 1..n \/ i = n + 1
                BY <1>0
            <4> QED
                BY <1>0, <4>1, <4>2, <4>3
        <3> QED
            BY <3>1, <3>2
    <2>2. turn' < G
        BY <1>0, <1>2, <1>4, <1>5
    <2>3. \A i \in DOMAIN log' : log'[i].ev.type = "TurnStarted" =>
              log'[i].ev.turn \in dirty' \cup {turn'} \/ Closes(log', i)
        BY <1>0, <1>1, <1>3, <1>5, <2>1
    <2> QED
        BY <1>2, <2>2, <2>3 DEF TurnsOK, G
<1>6. ASSUME turn = None, turn' = F, NEW body, body.ev.type = "TurnStarted", log' = Append(log, body)
      PROVE  TurnsOK'
    <2>1. Longer(log, body, log')
        BY <1>0, <1>6, AppendLonger DEF WellTyped
    <2>2. log' # log /\ log'[n + 1] = body
        BY <1>0, <2>1 DEF Longer, n
    <2>3. PICK b : Adds(b)
        BY <1>g, <2>2
    <2>4. b = body
        BY <2>2, <2>3
    <2>5. turn' < G
        BY <1>0, <1>6, <2>3, <2>4
    <2>6. body.ev.turn = turn'
        BY <1>6, <2>3, <2>4 DEF Recorded
    <2>7. \A i \in 1..(n + 1) : i \in 1..n \/ i = n + 1
        BY <1>0
    <2>8. \A i \in DOMAIN log' : log'[i].ev.type = "TurnStarted" =>
              log'[i].ev.turn \in dirty' \cup {turn'} \/ Closes(log', i)
        <3> SUFFICES ASSUME NEW i \in DOMAIN log', log'[i].ev.type = "TurnStarted"
                     PROVE  log'[i].ev.turn \in dirty' \cup {turn'} \/ Closes(log', i)
            OBVIOUS
        <3>1. CASE i = n + 1
            BY <2>2, <2>6, <3>1
        <3>2. CASE i \in 1..n
            <4>1. log'[i] = log[i] /\ i \in DOMAIN log
                BY <1>0, <2>3, <3>2
            <4>2. log[i].ev.turn # None
                BY <1>0, <4>1 DEF None
            <4>3. log[i].ev.turn \in dirty \/ Closes(log, i)
                BY <1>0, <1>6, <4>1, <4>2
            <4> QED
                BY <1>1, <1>3, <4>1, <4>3
        <3> QED
            BY <2>3, <2>7, <3>1, <3>2
    <2> QED
        BY <1>2, <2>5, <2>8 DEF TurnsOK, G
<1>7. ASSUME turn' = None, NEW body, body.ev.type \in {"TurnCompleted", "TurnFailed"}, log' = Append(log, body)
      PROVE  TurnsOK'
    <2>1. Longer(log, body, log')
        BY <1>0, <1>7, AppendLonger DEF WellTyped
    <2>2. log' # log /\ log'[n + 1] = body
        BY <1>0, <2>1 DEF Longer, n
    <2>3. DOMAIN log' = 1..(n + 1)
        BY <1>g, <2>2
    <2>4. turn' < G
        BY <1>0, <1>2, <1>4, <1>7 DEF None
    <2>5. \A i \in DOMAIN log' : log'[i].ev.type = "TurnStarted" => Closes(log', i)
        <3>1. n + 1 \in DOMAIN log' /\ log'[n + 1].ev.type \in {"TurnCompleted", "TurnFailed"}
            BY <1>0, <1>7, <2>2, <2>3
        <3>2. \A i \in DOMAIN log' : i = n + 1 \/ n + 1 > i
            BY <1>0, <2>3
        <3> QED
            BY <3>1, <3>2
    <2> QED
        BY <1>2, <2>4, <2>5 DEF TurnsOK, G
<1>8. CASE Crash
    <2>1. /\ log' = log /\ dirty' = dirty \cup {turn}
          /\ turn' = None \/ \E b \in DOMAIN log : turn' = log[b].ev.turn
        BY <1>8, CrashIs
    <2>2. turn' < G
        BY <1>0, <1>2, <2>1 DEF None, F, G
    <2>3. \A i \in DOMAIN log' : log'[i].ev.type = "TurnStarted" =>
              log'[i].ev.turn \in dirty' \cup {turn'} \/ Closes(log', i)
        BY <1>0, <2>1
    <2> QED
        BY <1>2, <2>2, <2>3 DEF TurnsOK, G
<1> QED
    BY <1>5, <1>6, <1>7, <1>8, TurnMoves DEF F

\* Where names come from, and that a turn has one suffix and one override, over a step.
LEMMA SourcesStep ==
    ASSUME Base, Next
    PROVE  SourcesOf(log') /\ OnceOf(log')
<1>0. WellTyped(log) /\ SourcesOf(log) /\ OnceOf(log)
    BY DEF Base, ContextTypes
<1>1. CASE log' = log
    BY <1>0, <1>1
<1>2. CASE log' # log
    <2>1. PICK body : Recorded(body) /\ Longer(log, body, log')
        BY <1>2, StepLog
    <2> DEFINE n == Len(log)
               mg == log'
    <2>2. /\ n \in Nat /\ DOMAIN log = 1..n /\ DOMAIN mg = 1..(n + 1)
          /\ (\A i \in 1..n : mg[i] = log[i]) /\ mg[n + 1] = body
        BY <1>0, <2>1, LogGrows DEF Recorded
    <2> HIDE DEF n, mg
    <2>3. \A i \in 1..(n + 1) : i \in 1..n \/ i = n + 1
        BY <2>2
    <2>4. ASSUME NEW b, NEW m \in 0..n, Sourced(log, b, m)
          PROVE  Sourced(mg, b, m)
        <3>1. \A j \in 1..m : mg[j] = log[j]
            BY <2>2
        <3> QED
            BY <2>4, <3>1 DEF Sourced, ActivatedAt, CallAmong
    <2>5. SourcesOf(mg)
        <3> SUFFICES ASSUME NEW i \in DOMAIN mg
                     PROVE  Sourced(mg, mg[i], i - 1)
            BY DEF SourcesOf
        <3>1. CASE i \in 1..n
            <4>1. Sourced(log, log[i], i - 1) /\ i - 1 \in 0..n /\ mg[i] = log[i]
                BY <1>0, <2>2, <3>1 DEF SourcesOf
            <4> QED
                BY <2>4, <4>1
        <3>2. CASE i = n + 1
            <4>1. Sourced(log, body, n) /\ n \in 0..n /\ i - 1 = n /\ mg[i] = body
                BY <2>1, <2>2, <3>2 DEF Recorded, n
            <4> QED
                BY <2>4, <4>1
        <3> QED
            BY <2>2, <2>3, <3>1, <3>2
    <2>6. OnceOf(mg)
        <3>1. \A i \in 1..n : ~(/\ log[i].ev.type \in OnceTypes /\ log[i].ev.type = body.ev.type
                                /\ log[i].ev.turn = body.ev.turn)
            <4>1. body.ev.type \in OnceTypes => Of(log, body.ev.type, body.ev.turn) = {}
                BY <2>1 DEF Recorded
            <4> QED
                BY <2>2, <4>1 DEF Of
        <3> SUFFICES ASSUME NEW i \in DOMAIN mg, NEW k \in DOMAIN mg, mg[i].ev.type \in OnceTypes,
                            mg[i].ev.type = mg[k].ev.type, mg[i].ev.turn = mg[k].ev.turn
                     PROVE  i = k
            BY DEF OnceOf
        <3>2. CASE i \in 1..n /\ k \in 1..n
            BY <1>0, <2>2, <3>2 DEF OnceOf
        <3>3. CASE i = n + 1 /\ k = n + 1
            BY <3>3
        <3>4. ~(i \in 1..n /\ k = n + 1) /\ ~(i = n + 1 /\ k \in 1..n)
            BY <2>2, <3>1
        <3> QED
            BY <2>2, <2>3, <3>2, <3>3, <3>4
    <2> QED
        BY <2>5, <2>6 DEF mg
<1> QED
    BY <1>1, <1>2

\* What a turn has in hand is in the log, over a step.
LEMMA HandsStep ==
    ASSUME Base, Next
    PROVE  HandsOK'
<1> DEFINE Calls(lg, p) == \A n \in DOMAIN p : CallAmong(lg, p[n].id, p[n].names, Len(lg))
           Skills(lg, t, f) == \A x \in ToSet(f) : \E j \in DOMAIN lg : ActivatedAt(lg, j, t, x)
<1>0. /\ WellTyped(log) /\ Calls(log, pending) /\ (pc = "activate" => Skills(log, turn, fresh))
      /\ DOMAIN log = 1..Len(log) /\ Len(log) \in Nat
      /\ pending \in Seq(Waiting) /\ reply \in Seq(StreamedBlock) /\ todo \in Words /\ fresh \in Words
    BY EvsType DEF Base, ContextTypes, HandsOK
<1>1. \/ log' = log
      \/ \E body : /\ Recorded(body) /\ Len(log') = Len(log) + 1 /\ DOMAIN log' = 1..(Len(log) + 1)
                   /\ \A i \in 1..Len(log) : log'[i] = log[i]
                   /\ log'[Len(log) + 1] = body
    BY <1>0, StepLog, LogGrows DEF Recorded
<1>2. \A c, names : CallAmong(log, c, names, Len(log)) => CallAmong(log', c, names, Len(log'))
    BY <1>0, <1>1 DEF CallAmong
<1>3. \A t, x : (\E j \in DOMAIN log : ActivatedAt(log, j, t, x)) => \E j \in DOMAIN log' : ActivatedAt(log', j, t, x)
    BY <1>0, <1>1 DEF ActivatedAt
<1>4. Calls(log', pending)
    BY <1>0, <1>2
<1>5. pc = "activate" => Skills(log', turn, fresh)
    BY <1>0, <1>3
<1>6. ASSUME \/ \E names \in Asked : StartTurn(names)
             \/ Enter \/ Load \/ Compact \/ InjectFallback \/ Override \/ ComposePrompt \/ CallModel \/ Round
             \/ EndTurn
      PROVE  pending' = pending /\ pc' # "activate"
    <2>1. CASE (\E names \in Asked : StartTurn(names)) \/ Enter \/ Load \/ Compact \/ InjectFallback
        BY <2>1 DEF StartTurn, Enter, Load, Compact, InjectFallback, CallVars, Goto
    <2>2. CASE Override \/ ComposePrompt \/ CallModel \/ Round \/ EndTurn
        BY <2>2 DEF Override, ComposePrompt, CallModel, Round, EndTurn, CallVars, Goto
    <2> QED
        BY <1>6, <2>1, <2>2
<1>7. CASE BeginInject
    <2>1. pending' = pending /\ fresh' = <<>>
        BY <1>7, Zenon DEF BeginInject, CallVars
    <2>2. ToSet(<<>>) = {}
        BY DEF ToSet
    <2> QED
        BY <1>4, <2>1, <2>2 DEF HandsOK
<1>8. CASE Activate
    <2>1. pending' = pending /\ pc = "activate" /\ todo # <<>> /\ turn' = turn
        BY <1>8, Zenon DEF Activate, CallVars, Goto
    <2>2. \/ pc' = "suffix"
          \/ /\ log' = Appended(Meta("SkillActivated"), [NoData EXCEPT !.names = <<Head(todo)>>])
             /\ fresh' = Append(fresh, Head(todo))
        BY <1>8, Zenon DEF Activate, Goto, Record
    <2>3. CASE pc' = "suffix"
        BY <1>4, <2>1, <2>3 DEF HandsOK
    <2>4. CASE pc' # "suffix"
        <3> DEFINE x == Head(todo)
                   data == [NoData EXCEPT !.names = <<x>>]
                   b == BodyOf(Meta("SkillActivated"), data)
                   S == STRING
        <3>0. Words = Seq(S)
            BY DEF Words
        <3> HIDE DEF S
        <3>1. x \in S
            BY <1>0, <2>1, <3>0
        <3>2. fresh' = Append(fresh, x) /\ fresh \in Seq(S)
            BY <1>0, <2>2, <2>4, <3>0
        <3> HIDE DEF x
        <3>3. ToSet(fresh') = ToSet(fresh) \cup {x} /\ ToSet(<<x>>) = {x} /\ <<x>> \in Words
            <4>1. ToSet(Append(fresh, x)) = ToSet(fresh) \cup {x} /\ ToSet(<<x>>) = {x}
                BY <3>1, <3>2, ToSetFacts
            <4>2. <<x>> \in Words
                BY <3>0, <3>1
            <4> QED
                BY <3>2, <4>1, <4>2
        <3>4. b.ev = Activation(turn) /\ b.data.names = <<x>> /\ log' = Append(log, b)
            <4>1. b.ev = Activation(turn)
                BY DEF BodyOf, Meta, Activation
            <4>2. b.data.names = <<x>>
                BY <3>3, NamesIs DEF BodyOf
            <4>3. log' = Append(log, b)
                BY <2>2, <2>4 DEF Appended, BodyOf, x
            <4> QED
                BY <4>1, <4>2, <4>3
        <3> HIDE DEF b
        <3>5. Longer(log, b, log')
            BY <1>0, <3>4, AppendLonger DEF WellTyped
        <3>6. log' # log /\ log'[Len(log) + 1] = b
            BY <1>0, <3>5 DEF Longer
        <3>7. Len(log) + 1 \in DOMAIN log' /\ ActivatedAt(log', Len(log) + 1, turn, x)
            <4>1. DOMAIN log' = 1..(Len(log) + 1)
                BY <1>1, <3>6
            <4>2. Len(log) + 1 \in DOMAIN log'
                BY <1>0, <4>1
            <4>3. x \in ToSet(<<x>>)
                BY <3>3
            <4> QED
                BY <3>4, <3>6, <4>2, <4>3 DEF ActivatedAt
        <3>8. Skills(log', turn, fresh')
            BY <1>5, <2>1, <3>3, <3>7
        <3> QED
            BY <1>4, <2>1, <3>8 DEF HandsOK
    <2> QED
        BY <2>3, <2>4
<1>9. CASE Inject
    <2>1. pending' = pending /\ fresh' = <<>>
        BY <1>9, Zenon DEF Inject, CallVars
    <2>2. ToSet(<<>>) = {}
        BY DEF ToSet
    <2> QED
        BY <1>4, <2>1, <2>2 DEF HandsOK
<1>10. CASE StreamBlock
    <2> DEFINE b == Head(reply)
               ev == IF b.kind = "ToolUseRecorded" THEN ToolUse(turn, FreshCall(Evs), "valid") ELSE Meta(b.kind)
               data == [NoData EXCEPT !.names = b.names]
               w == [id |-> ev.key, names |-> b.names]
               new == BodyOf(ev, data)
    <2>1. /\ reply # <<>> /\ pc' = "stream" /\ log' = Appended(ev, data)
          /\ pending' = IF b.kind = "ToolUseRecorded" THEN Append(pending, w) ELSE pending
        BY <1>10, Zenon DEF StreamBlock, Goto, Record
    <2>2. CASE b.kind # "ToolUseRecorded"
        BY <1>4, <2>1, <2>2 DEF HandsOK
    <2>3. CASE b.kind = "ToolUseRecorded"
        <3>1. b \in StreamedBlock
            BY <1>0, <2>1
        <3>2. b.names \in Words
            BY <3>1 DEF StreamedBlock
        <3>3. ev.key \in Nat /\ ev.type = "ToolUseRecorded"
            BY <2>3, EvsType DEF Base, ContextTypes, Evs, EvsOf, ToolUse, Ev
        <3>4. log' = Append(log, new) /\ new.ev = ev /\ new.data.names = b.names
            <4>1. data.names = b.names
                BY <3>2, NamesIs
            <4> HIDE DEF ev, data
            <4> QED
                BY <2>1, <4>1 DEF BodyOf, Appended
        <3>5. pending' = Append(pending, w)
            BY <2>1, <2>3
        <3> HIDE DEF b, ev, new
        <3>6. w \in Waiting /\ w.id = ev.key /\ w.names = b.names
            BY <3>2, <3>3 DEF Waiting
        <3> HIDE DEF w
        <3>7. Longer(log, new, log')
            BY <1>0, <3>4, AppendLonger DEF WellTyped
        <3>8. log' # log /\ log'[Len(log) + 1] = new /\ Len(log') = Len(log) + 1
            BY <1>0, <3>7 DEF Longer
        <3>9. CallAmong(log', w.id, w.names, Len(log'))
            <4>1. Len(log) + 1 \in 1..Len(log')
                BY <1>0, <3>8
            <4> QED
                BY <3>3, <3>4, <3>6, <3>8, <4>1 DEF CallAmong
        <3>10. \A n \in DOMAIN pending' : (n \in DOMAIN pending /\ pending'[n] = pending[n]) \/ pending'[n] = w
            BY <1>0, <3>5, <3>6
        <3>11. Calls(log', pending')
            BY <1>4, <3>9, <3>10
        <3> QED
            BY <2>1, <3>11 DEF HandsOK
    <2> QED
        BY <2>2, <2>3
<1>11. CASE StreamEnd
    <2>1. (pending' = pending \/ pending' = <<>>) /\ pc' # "activate"
        BY <1>11 DEF StreamEnd, Goto
    <2> QED
        BY <1>4, <2>1 DEF HandsOK
<1>12. CASE Dispatch
    <2>1. pending # <<>> /\ pending' = Tail(pending) /\ pc' = "dispatch"
        BY <1>12, Zenon DEF Dispatch, Goto
    <2>2. \A n \in DOMAIN pending' : n + 1 \in DOMAIN pending /\ pending'[n] = pending[n + 1]
        BY <1>0, <2>1
    <2>3. Calls(log', pending')
        BY <1>4, <2>2
    <2> QED
        BY <2>1, <2>3 DEF HandsOK
<1>13. CASE Crash
    <2>1. /\ log' = log /\ pc' # "activate"
          /\ \A n \in DOMAIN pending' : CallAmong(log, pending'[n].id, pending'[n].names, Len(log))
        BY <1>13, CrashIs DEF Away
    <2> QED
        BY <2>1 DEF HandsOK
<1>14. ASSUME \E spec \in Specs : Update(spec)
       PROVE  HandsOK'
    <2>1. pending' = pending /\ fresh' = fresh /\ pc' = pc /\ turn' = turn
        BY <1>14, Zenon DEF Update
    <2> QED
        BY <1>4, <1>5, <2>1 DEF HandsOK
<1>15. ASSUME pending' = pending, pc' # "activate"
       PROVE  HandsOK'
    BY <1>4, <1>15 DEF HandsOK
<1> QED
    BY <1>6, <1>7, <1>8, <1>9, <1>10, <1>11, <1>12, <1>13, <1>14, <1>15, Zenon DEF Next

-----------------------------------------------------------------------------
(* A turn in which nothing fails.                                          *)

Telling == {"ModelCallStarted", "SystemPromptInjected", "SkillActivated"}

\* What a step appends is a body as StepWrites has it.
LEMMA NewBody ==
    ASSUME Base, Next, NEW ev, NEW data, log' = Appended(ev, data)
    PROVE  LET body == BodyOf(ev, data) IN
           /\ Longer(log, body, log') /\ Recorded(body) /\ IsBody(body)
           /\ body.ev = ev /\ body.data = data
<1> DEFINE b == BodyOf(ev, data)
<1>1. b.ev = ev /\ b.data = data /\ log' = Append(log, b)
    BY DEF BodyOf, Appended
<1> HIDE DEF b
<1>2. IsSeq(log)
    BY DEF Base, ContextTypes, WellTyped
<1>3. Longer(log, b, log')
    BY <1>1, <1>2, AppendLonger
<1>4. log' # log /\ log'[Len(log) + 1] = b
    BY <1>3 DEF Longer
<1>5. PICK body : Recorded(body) /\ Longer(log, body, log')
    BY <1>4, StepLog
<1>6. body = b
    BY <1>4, <1>5 DEF Longer
<1> QED
    BY <1>1, <1>3, <1>5, <1>6 DEF Recorded, b

\* An event of the turn that no clause is about.
LEMMA QuietClean ==
    ASSUME NEW lg, WellTyped(lg), NEW body, IsBody(body), NEW mg, Longer(lg, body, mg),
           NEW t, NEW p, NEW m \in 0..Len(lg), NEW td, NEW fr,
           body.ev.turn = t, body.ev.type \notin Telling, Clean(lg, t, p, m, td, fr)
    PROVE  Clean(mg, t, p, m, td, fr)
<1> DEFINE n == Len(lg)
<1>1. /\ n \in Nat /\ DOMAIN lg = 1..n /\ DOMAIN mg = 1..(n + 1) /\ Len(mg) = n + 1
      /\ (\A i \in 1..n : mg[i] = lg[i]) /\ mg[n + 1] = body
    BY LogGrows
<1>2. SubSeq(mg, 1, m) = SubSeq(lg, 1, m)
    BY FirstOfLonger DEF WellTyped
<1>3. /\ Of(mg, "SystemPromptInjected", t) = Of(lg, "SystemPromptInjected", t)
      /\ Of(mg, "ModelCallStarted", t) = Of(lg, "ModelCallStarted", t)
      /\ Of(lg, "ToolFilterOverridden", t) \subseteq Of(mg, "ToolFilterOverridden", t)
    BY OfGrows DEF Telling
<1>4. ActivatedIn(mg, t) = ActivatedIn(lg, t)
    <2>1. body.ev # Activation(t)
        BY DEF Telling, Activation, Ev
    <2> QED
        BY <2>1, ActivatedGrows
<1> HIDE DEF n
<1>5. \A type : \A i \in Of(lg, type, t) : i \in 1..n /\ mg[i] = lg[i] /\ i <= n + 1
    BY <1>1 DEF Of
<1>6. \A k : SuffixBy(lg, t, k) => SuffixBy(mg, t, k) /\ SuffixBy(mg, t, n + 1)
    BY <1>3, <1>4, <1>5 DEF SuffixBy
<1>7. \A k : OverrideBy(lg, t, k) => OverrideBy(mg, t, k) /\ OverrideBy(mg, t, n + 1)
    BY <1>3, <1>5 DEF OverrideBy
<1>8. Called(mg, t) <=> Called(lg, t)
    BY <1>3 DEF Called
<1>9. (\A k \in DOMAIN lg : k > m => lg[k].ev.turn = t) => (\A k \in DOMAIN mg : k > m => mg[k].ev.turn = t)
    <2>1. \A k \in 1..(n + 1) : k \in 1..n \/ k = n + 1
        BY <1>1
    <2> QED
        BY <1>1, <2>1
<1>10. /\ p # "suffix"
       /\ p \in PassPcs => \A k \in DOMAIN mg : k > m => mg[k].ev.turn = t
       /\ p = "activate" => (ToSet(td) \cup ToSet(fr)) \cap Prior(SubSeq(mg, 1, m)) = {}
    BY <1>2, <1>9, Zenon DEF Clean
<1>11. /\ Called(mg, t) => SuffixBy(mg, t, Len(mg)) /\ OverrideBy(mg, t, Len(mg))
       /\ Called(mg, t) /\ p \in PassPcs => SuffixBy(mg, t, m) /\ OverrideBy(mg, t, m)
       /\ Called(mg, t) /\ p = "activate" => td = <<>>
       /\ p \in {"override", "compose", "call"} => SuffixBy(mg, t, Len(mg))
       /\ p \in {"compose", "call"} => OverrideBy(mg, t, Len(mg))
    BY <1>1, <1>6, <1>7, <1>8 DEF Clean
<1>12. /\ ~Called(mg, t) /\ p \in {"init", "load", "compact", "inject", "activate"} =>
              /\ Of(mg, "SystemPromptInjected", t) = {}
              /\ ActivatedIn(mg, t) = IF p = "activate" THEN ToSet(fr) ELSE {}
       /\ p \in {"stream", "dispatch"} => Called(mg, t)
    BY <1>3, <1>4, <1>8 DEF Clean
<1> QED
    BY <1>10, <1>11, <1>12, Zenon DEF Clean

\* A step that tells nothing keeps what is true of a turn in which nothing failed.
LEMMA QuietStep ==
    ASSUME Base, Next, Clean(log, turn, pc, seen, todo, fresh),
           \/ log' = log
           \/ \E ev, data : log' = Appended(ev, data) /\ ev.turn = turn /\ ev.type \notin Telling
    PROVE  Clean(log', turn, pc, seen, todo, fresh)
<1>1. CASE log' = log
    BY <1>1
<1>2. CASE log' # log
    <2>1. PICK ev, data : log' = Appended(ev, data) /\ ev.turn = turn /\ ev.type \notin Telling
        BY <1>2
    <2> DEFINE b == BodyOf(ev, data)
    <2>2. Longer(log, b, log') /\ IsBody(b) /\ b.ev = ev
        BY <2>1, NewBody
    <2> HIDE DEF b
    <2>3. WellTyped(log) /\ seen \in 0..Len(log)
        BY DEF Base, ContextTypes
    <2> QED
        BY <2>1, <2>2, <2>3, QuietClean
<1> QED
    BY <1>1, <1>2

\* The start of a turn: nothing in the log is of it.
LEMMA CleanStart ==
    ASSUME Base, Next, NEW names \in Asked, StartTurn(names)
    PROVE  Clean(log', turn', pc', seen', todo', fresh')
<1> DEFINE t == turn'
           ev == TurnStarted(t, t)
           data == [NoData EXCEPT !.names = names]
           b == BodyOf(ev, data)
           n == Len(log)
<1>1. t = FreshTurn(Evs) /\ pc' = "init" /\ log' = Appended(ev, data)
    BY Zenon DEF StartTurn, Record
<1>2. Longer(log, b, log') /\ IsBody(b) /\ b.ev = ev
    <2> HIDE DEF ev, data, b
    <2> QED
        BY <1>1, NewBody DEF b
<1>3. b.ev.type = "TurnStarted"
    BY <1>2 DEF TurnStarted, Ev
<1>4. \A i \in DOMAIN log : log[i].ev.turn # t
    <2>1. t = FreshTurn(EvsOf(log)) /\ t \in Nat
        BY <1>1, EvsType DEF Base, ContextTypes, Evs, EvsOf
    <2>2. \A i \in DOMAIN log : log[i].ev.turn < t /\ log[i].ev.turn \in Nat
        BY <2>1, EvsType DEF Base, TurnsOK, ContextTypes, WellTyped, IsBody
    <2> HIDE DEF t
    <2> QED
        BY <2>1, <2>2
<1> HIDE DEF b, ev, data, t
<1>5. WellTyped(log)
    BY DEF Base, ContextTypes
<1>6. \A type \in Telling : Of(log', type, t) = {}
    <2>1. \A type : Of(log, type, t) = {}
        BY <1>4 DEF Of
    <2> QED
        BY <1>2, <1>3, <1>5, <2>1, OfGrows DEF Telling
<1>7. ActivatedIn(log', t) = {}
    <2>1. {k \in DOMAIN log : log[k].ev = Activation(t)} = {}
        BY <1>4 DEF Activation, Ev
    <2>2. ActivatedIn(log, t) = {}
        BY <2>1 DEF ActivatedIn
    <2>3. b.ev # Activation(t)
        BY <1>3 DEF Activation, Ev
    <2> QED
        BY <1>2, <1>5, <2>2, <2>3, ActivatedGrows
<1>8. ~Called(log', t)
    BY <1>6 DEF Called, Telling
<1> QED
    BY <1>1, <1>6, <1>7, <1>8 DEF Clean, PassPcs, Telling, t

\* The injector begins: a turn that has its suffix activates nothing more.
LEMMA CleanBeginInject ==
    ASSUME Base, BeginInject, Clean(log, turn, pc, seen, todo, fresh)
    PROVE  Clean(log', turn', pc', seen', todo', fresh')
<1> DEFINE at == LatestFor(History, "SystemPromptInjected", turn)
           C == Candidates(History, turn, deps.pipe.skills)
<1>1. /\ log' = log /\ turn' = turn /\ seen' = seen /\ fresh' = <<>> /\ pc = "inject"
      /\ \/ at # 0 /\ pc' = "override"
         \/ /\ pc' = "activate"
            /\ (todo' = C /\ at = 0) \/ todo' = <<>>
    BY Zenon DEF BeginInject, Goto
<1>2. /\ seen \in 0..Len(log) /\ DOMAIN History = 1..seen /\ seen \in Nat /\ Len(log) \in Nat
      /\ \A i \in 1..seen : i \in DOMAIN log /\ History[i] = log[i] /\ History[i].data.names \in Words
      /\ DOMAIN log = 1..Len(log)
    BY HistoryIs DEF Base, ContextTypes
<1>3. ToSet(C) \cap Prior(History) = {}
    BY <1>2, CandidatesType
<1>4. at = 0 <=> Of(History, "SystemPromptInjected", turn) = {}
    BY <1>2, LatestForIs
<1>5. Of(History, "SystemPromptInjected", turn) = {i \in Of(log, "SystemPromptInjected", turn) : i <= seen}
    <2>1. \A i \in 1..Len(log) : i \in 1..seen <=> i <= seen
        BY <1>2
    <2> QED
        BY <1>2, <2>1 DEF Of
<1>6. ToSet(<<>>) = {}
    BY DEF ToSet
<1> HIDE DEF at, C
<1>7. Called(log, turn) => at # 0
    <2>1. Called(log, turn) => \E i \in Of(log, "SystemPromptInjected", turn) : i <= seen
        BY <1>1 DEF Clean, PassPcs, SuffixBy
    <2> QED
        BY <1>4, <1>5, <2>1
<1>8. at # 0 => Called(log, turn)
    BY <1>1, <1>4, <1>5 DEF Clean
<1>9. CASE at # 0 /\ pc' = "override"
    BY <1>1, <1>8, <1>9 DEF Clean, PassPcs
<1>10. CASE pc' = "activate" /\ ((todo' = C /\ at = 0) \/ todo' = <<>>)
    <2>1. (ToSet(todo') \cup ToSet(fresh')) \cap Prior(SubSeq(log, 1, seen)) = {}
        BY <1>1, <1>3, <1>6, <1>10 DEF History
    <2>2. Called(log, turn) => todo' = <<>>
        BY <1>7, <1>10
    <2> QED
        BY <1>1, <1>6, <1>10, <2>1, <2>2 DEF Clean, PassPcs
<1> QED
    BY <1>1, <1>9, <1>10

\* A skill is activated: it is one of the turn's, and not of those before it.
LEMMA CleanActivate ==
    ASSUME Base, Next, Activate, turn \notin dirty', Clean(log, turn, pc, seen, todo, fresh)
    PROVE  Clean(log', turn', pc', seen', todo', fresh')
<1> DEFINE x == Head(todo)
           data == [NoData EXCEPT !.names = <<x>>]
           ev == Meta("SkillActivated")
           b == BodyOf(ev, data)
           S == STRING
           n == Len(log)
           mg == log'
<1>1. /\ pc = "activate" /\ todo # <<>> /\ turn' = turn /\ seen' = seen
      /\ \/ dirty' = dirty \cup {turn}
         \/ /\ log' = Appended(ev, data) /\ pc' = "activate"
            /\ todo' = Tail(todo) /\ fresh' = Append(fresh, x)
    BY Zenon DEF Activate, Goto, Record, Fail
<1>2. /\ log' = Appended(ev, data) /\ pc' = "activate"
      /\ todo' = Tail(todo) /\ fresh' = Append(fresh, x)
    BY <1>1
<1>3. Words = Seq(S) /\ todo \in Words /\ fresh \in Words
    BY DEF Words, Base, ContextTypes
<1> HIDE DEF S
<1>4. x \in S /\ Tail(todo) \in Seq(S) /\ ToSet(todo) = {x} \cup ToSet(Tail(todo))
    <2>1. todo \in Seq(S) /\ todo # <<>> /\ Head(todo) \in S
        BY <1>1, <1>3
    <2> QED
        BY <2>1, ToSetFacts
<1> HIDE DEF x
<1>5. ToSet(fresh') = ToSet(fresh) \cup {x} /\ ToSet(<<x>>) = {x} /\ <<x>> \in Words
    BY <1>2, <1>3, <1>4, ToSetFacts
<1>6. data.names = <<x>>
    BY <1>5, NamesIs
<1>7. ev = Activation(turn) /\ ev.type = "SkillActivated" /\ ev.turn = turn
    BY DEF Meta, Activation, Ev
<1> HIDE DEF ev, data
<1>8. Longer(log, b, mg) /\ IsBody(b) /\ b.ev = ev /\ b.data = data
    BY <1>2, NewBody
<1> HIDE DEF b, mg
<1>9. WellTyped(log) /\ seen \in 0..n /\ IsSeq(log)
    BY DEF Base, ContextTypes, WellTyped
<1>10. /\ n \in Nat /\ DOMAIN log = 1..n /\ DOMAIN mg = 1..(n + 1)
       /\ (\A i \in 1..n : mg[i] = log[i]) /\ mg[n + 1] = b
    BY <1>8, <1>9, LogGrows
<1>11. SubSeq(mg, 1, seen) = SubSeq(log, 1, seen)
    BY <1>8, <1>9, FirstOfLonger
<1>12. \A type : type # "SkillActivated" => Of(mg, type, turn) = Of(log, type, turn)
    BY <1>7, <1>8, <1>9, OfGrows
<1>13. ~Called(log, turn) /\ ~Called(mg, turn)
    <2>1. ~Called(log, turn)
        BY <1>1 DEF Clean
    <2> QED
        BY <1>12, <2>1 DEF Called
<1>14. ActivatedIn(mg, turn) = ToSet(fresh')
    <2>1. ActivatedIn(log, turn) = ToSet(fresh)
        BY <1>1, <1>13 DEF Clean
    <2> QED
        BY <1>5, <1>6, <1>7, <1>8, <1>9, <2>1, ActivatedGrows
<1>15. Of(mg, "SystemPromptInjected", turn) = {}
    BY <1>1, <1>12, <1>13 DEF Clean
<1>16. \A k \in DOMAIN mg : k > seen => mg[k].ev.turn = turn
    <2>1. \A k \in DOMAIN log : k > seen => log[k].ev.turn = turn
        BY <1>1 DEF Clean, PassPcs
    <2>2. \A k \in 1..(n + 1) : k \in 1..n \/ k = n + 1
        BY <1>10
    <2> HIDE DEF n
    <2> QED
        BY <1>7, <1>8, <1>10, <2>1, <2>2
<1>17. (ToSet(todo') \cup ToSet(fresh')) \cap Prior(SubSeq(mg, 1, seen)) = {}
    <2>1. (ToSet(todo) \cup ToSet(fresh)) \cap Prior(SubSeq(log, 1, seen)) = {}
        BY <1>1 DEF Clean
    <2> QED
        BY <1>2, <1>4, <1>5, <1>11, <2>1
<1>18. Clean(mg, turn, "activate", seen, todo', fresh')
    BY <1>13, <1>14, <1>15, <1>16, <1>17 DEF Clean
<1> QED
    BY <1>1, <1>2, <1>18 DEF mg

\* The suffix is written: its names are those the turn has activated.
LEMMA CleanInject ==
    ASSUME Base, Next, Inject, turn \notin dirty', Clean(log, turn, pc, seen, todo, fresh)
    PROVE  Clean(log', turn', pc', seen', todo', fresh')
<1> DEFINE data == [NoData EXCEPT !.names = fresh]
           ev == Meta("SystemPromptInjected")
           b == BodyOf(ev, data)
           at == LatestFor(log, "SystemPromptInjected", turn)
           n == Len(log)
           mg == log'
<1>0. WellTyped(log) /\ seen \in 0..n /\ IsSeq(log) /\ fresh \in Words /\ DOMAIN log = 1..n /\ n \in Nat
    BY EvsType DEF Base, ContextTypes, WellTyped
<1>1. /\ pc = "activate" /\ turn' = turn /\ seen' = seen
      /\ \/ at # 0 /\ log' = log /\ troubles' = troubles
         \/ at = 0 /\ log' = Appended(ev, data) /\ troubles' = troubles
         \/ dirty' = dirty \cup {turn}
      /\ troubles' = troubles => pc' = "override"
    BY Zenon DEF Inject, RecordOnce, TryRecord, Record, Fail, Goto
<1>2. /\ pc' = "override"
      /\ \/ at # 0 /\ log' = log
         \/ at = 0 /\ log' = Appended(ev, data)
    BY <1>1
<1>3. at = 0 <=> Of(log, "SystemPromptInjected", turn) = {}
    BY <1>0, LatestForIs
<1> HIDE DEF at
<1>4. CASE at # 0 /\ log' = log
    <2>1. Called(log, turn)
        BY <1>1, <1>3, <1>4 DEF Clean
    <2> QED
        BY <1>1, <1>2, <1>4, <2>1 DEF Clean, PassPcs
<1>5. CASE at = 0 /\ log' = Appended(ev, data)
    <2>1. data.names = fresh
        BY <1>0, NamesIs
    <2>2. ev.type = "SystemPromptInjected" /\ ev.turn = turn
        BY MetaIs
    <2> HIDE DEF ev, data
    <2>3. Longer(log, b, mg) /\ IsBody(b) /\ b.ev = ev /\ b.data = data
        BY <1>5, NewBody
    <2> HIDE DEF b, mg
    <2>4. /\ n \in Nat /\ DOMAIN mg = 1..(n + 1) /\ Len(mg) = n + 1
          /\ (\A i \in 1..n : mg[i] = log[i]) /\ mg[n + 1] = b
        BY <1>0, <2>3, LogGrows
    <2>5. /\ Of(mg, "SystemPromptInjected", turn) = Of(log, "SystemPromptInjected", turn) \cup {n + 1}
          /\ Of(mg, "ModelCallStarted", turn) = Of(log, "ModelCallStarted", turn)
        BY <1>0, <2>2, <2>3, OfGrows
    <2>6. ~Called(log, turn)
        BY <1>3, <1>5 DEF Clean, SuffixBy
    <2>7. ~Called(mg, turn)
        BY <2>5, <2>6 DEF Called
    <2>8. ActivatedIn(mg, turn) = ToSet(fresh)
        <3>1. b.ev # Activation(turn)
            BY <2>2, <2>3 DEF Activation, Ev
        <3>2. ActivatedIn(log, turn) = ToSet(fresh)
            BY <1>1, <2>6 DEF Clean
        <3> QED
            BY <1>0, <2>3, <3>1, <3>2, ActivatedGrows
    <2>9. SuffixBy(mg, turn, Len(mg))
        <3>1. n + 1 \in Of(mg, "SystemPromptInjected", turn) /\ n + 1 <= Len(mg)
            BY <2>4, <2>5
        <3>2. ToSet(mg[n + 1].data.names) = ActivatedIn(mg, turn)
            BY <2>1, <2>3, <2>4, <2>8
        <3> QED
            BY <3>1, <3>2 DEF SuffixBy
    <2>10. \A k \in DOMAIN mg : k > seen => mg[k].ev.turn = turn
        <3>1. \A k \in DOMAIN log : k > seen => log[k].ev.turn = turn
            BY <1>1 DEF Clean, PassPcs
        <3>2. \A k \in 1..(n + 1) : k \in 1..n \/ k = n + 1
            BY <2>4
        <3> HIDE DEF n
        <3> QED
            BY <1>0, <2>2, <2>3, <2>4, <3>1, <3>2
    <2>11. Clean(mg, turn, "override", seen, todo', fresh')
        BY <2>7, <2>9, <2>10 DEF Clean
    <2> QED
        BY <1>1, <1>2, <2>11 DEF mg
<1> QED
    BY <1>2, <1>4, <1>5

\* The override is written.
LEMMA CleanOverride ==
    ASSUME Base, Next, Override, turn \notin dirty', Clean(log, turn, pc, seen, todo, fresh)
    PROVE  Clean(log', turn', pc', seen', todo', fresh')
<1> DEFINE ev == Meta("ToolFilterOverridden")
           at == LatestFor(log, "ToolFilterOverridden", turn)
           n == Len(log)
<1>0. WellTyped(log) /\ DOMAIN log = 1..n /\ n \in Nat
    BY EvsType DEF Base, ContextTypes
<1>1. /\ pc = "override" /\ pc' = "compose" /\ turn' = turn /\ seen' = seen
      /\ \/ dirty' = dirty \cup {turn}
         \/ at # 0 /\ log' = log
         \/ at = 0 /\ \E data : log' = Appended(ev, data)
    <2>1. /\ pc = "override" /\ pc' = "compose" /\ turn' = turn /\ seen' = seen
          /\ \/ dirty' = dirty \cup {turn}
             \/ \E data : RecordOnce("ToolFilterOverridden", data)
        BY Zenon DEF Override, Goto, PassVars
    <2>2. ASSUME NEW data, RecordOnce("ToolFilterOverridden", data)
          PROVE  \/ dirty' = dirty \cup {turn}
                 \/ at # 0 /\ log' = log
                 \/ at = 0 /\ log' = Appended(ev, data)
        BY <2>2, Zenon DEF RecordOnce, TryRecord, Record, Fail
    <2> HIDE DEF at, ev
    <2> QED
        BY <2>1, <2>2
<1>2. ev.type = "ToolFilterOverridden" /\ ev.turn = turn
    BY MetaIs
<1>3. /\ at = 0 <=> Of(log, "ToolFilterOverridden", turn) = {}
      /\ Of(log, "ToolFilterOverridden", turn) \in SUBSET (1..n)
    BY <1>0, LatestForIs
<1> HIDE DEF at, ev
<1>4. Clean(log', turn, pc, seen, todo, fresh)
    BY <1>1, <1>2, QuietStep DEF Telling
<1>5. OverrideBy(log', turn, Len(log'))
    <2>1. CASE at # 0 /\ log' = log
        BY <1>0, <1>3, <2>1 DEF OverrideBy
    <2>2. CASE \E data : log' = Appended(ev, data)
        <3>1. PICK data : log' = Appended(ev, data)
            BY <2>2
        <3> DEFINE b == BodyOf(ev, data)
        <3>2. Longer(log, b, log') /\ IsBody(b) /\ b.ev = ev
            BY <3>1, NewBody
        <3> HIDE DEF b
        <3>3. Of(log', "ToolFilterOverridden", turn) = Of(log, "ToolFilterOverridden", turn) \cup {n + 1}
            BY <1>0, <1>2, <3>2, OfGrows
        <3>4. Len(log') = n + 1
            BY <3>2 DEF Longer
        <3> QED
            BY <1>0, <3>3, <3>4 DEF OverrideBy
    <2> QED
        BY <1>1, <2>1, <2>2
<1> QED
    BY <1>1, <1>4, <1>5 DEF Clean, PassPcs

\* The model is called: the turn has its suffix and its override.
LEMMA CleanCall ==
    ASSUME Base, Next, CallModel, Clean(log, turn, pc, seen, todo, fresh)
    PROVE  Clean(log', turn', pc', seen', todo', fresh')
<1> DEFINE ev == ModelCallStarted(turn)
           b == BodyOf(ev, NoData)
           n == Len(log)
           mg == log'
<1>0. WellTyped(log) /\ DOMAIN log = 1..n /\ n \in Nat
    BY EvsType DEF Base, ContextTypes
<1>1. pc = "call" /\ pc' = "stream" /\ turn' = turn /\ log' = Appended(ev, NoData)
    BY Zenon DEF CallModel, Goto, Record
<1>2. ev.type = "ModelCallStarted" /\ ev.turn = turn /\ ev # Activation(turn)
    BY DEF ModelCallStarted, Activation, Ev
<1> HIDE DEF ev
<1>3. Longer(log, b, mg) /\ IsBody(b) /\ b.ev = ev
    BY <1>1, NewBody
<1> HIDE DEF b, mg
<1>4. Len(mg) = n + 1 /\ \A i \in 1..n : mg[i] = log[i]
    BY <1>0, <1>3, LogGrows
<1>5. /\ Of(mg, "ModelCallStarted", turn) # {}
      /\ Of(mg, "SystemPromptInjected", turn) = Of(log, "SystemPromptInjected", turn)
      /\ Of(mg, "ToolFilterOverridden", turn) = Of(log, "ToolFilterOverridden", turn)
      /\ ActivatedIn(mg, turn) = ActivatedIn(log, turn)
    <2>1. \A type : Of(mg, type, turn) = IF b.ev.type = type /\ b.ev.turn = turn
                                         THEN Of(log, type, turn) \cup {Len(log) + 1} ELSE Of(log, type, turn)
        BY <1>0, <1>3, OfGrows
    <2>2. /\ Of(mg, "ModelCallStarted", turn) = Of(log, "ModelCallStarted", turn) \cup {Len(log) + 1}
          /\ Of(mg, "SystemPromptInjected", turn) = Of(log, "SystemPromptInjected", turn)
          /\ Of(mg, "ToolFilterOverridden", turn) = Of(log, "ToolFilterOverridden", turn)
        BY <1>2, <1>3, <2>1
    <2>3. ActivatedIn(mg, turn) = ActivatedIn(log, turn)
        BY <1>0, <1>2, <1>3, ActivatedGrows
    <2> QED
        BY <2>2, <2>3
<1>6. \A type : \A i \in Of(log, type, turn) : i \in 1..n /\ i <= n + 1
    BY <1>0 DEF Of
<1>7. SuffixBy(log, turn, n) /\ OverrideBy(log, turn, n)
    BY <1>1 DEF Clean
<1> HIDE DEF n
<1>8. SuffixBy(mg, turn, n + 1) /\ OverrideBy(mg, turn, n + 1)
    BY <1>4, <1>5, <1>6, <1>7 DEF SuffixBy, OverrideBy
<1>9. Clean(mg, turn, "stream", seen', todo', fresh')
    BY <1>4, <1>5, <1>8 DEF Clean, Called, PassPcs
<1> QED
    BY <1>1, <1>9 DEF mg

\* A step that writes nothing, or an event of the turn that no clause of Clean is about.
Quiet ==
    \/ log' = log
    \/ \E ev, data : log' = Appended(ev, data) /\ ev.turn = turn /\ ev.type \notin Telling

\* The actions that tell nothing.
LEMMA QuietActions ==
    ASSUME Base,
           \/ Enter \/ Load \/ Compact \/ BeginInject \/ Override \/ ComposePrompt \/ StreamBlock
           \/ StreamEnd \/ Dispatch \/ Round \/ EndTurn \/ Crash \/ \E spec \in Specs : Update(spec)
    PROVE  Quiet
<1>1. CASE Load \/ BeginInject \/ ComposePrompt \/ Round \/ Crash \/ \E spec \in Specs : Update(spec)
    <2>1. log' = log
        BY <1>1, Zenon DEF Load, BeginInject, ComposePrompt, Round, Crash, Update
    <2> QED
        BY <2>1 DEF Quiet
<1>2. CASE Enter
    <2>1. log' = log \/ log' = Appended(Meta("ContextManageEntered"), NoData)
        BY <1>2, Zenon DEF Enter, Record
    <2> QED
        BY <2>1, MetaIs DEF Quiet, Telling
<1>3. CASE Compact
    <2>1. log' = log \/ \E data : log' = Appended(Meta("ContextCompacted"), data)
        BY <1>3, Zenon DEF Compact, TryRecord, Record, Fail
    <2> QED
        BY <2>1, MetaIs DEF Quiet, Telling
<1>4. CASE Override
    <2>1. \/ \E data : RecordOnce("ToolFilterOverridden", data)
          \/ log' = log
          \/ \E data : log' = Appended(Meta("ToolFilterOverridden"), data)
        <3>1. \/ \E mode \in Modes : RecordOnce("ToolFilterOverridden", [NoData EXCEPT !.mode = mode])
              \/ log' = IF LatestFor(log, "ToolFilterOverridden", turn) # 0 THEN log
                        ELSE Appended(Meta("ToolFilterOverridden"), NoData)
            BY <1>4, Zenon DEF Override
        <3> QED
            BY <3>1, Zenon
    <2>2. \A data : RecordOnce("ToolFilterOverridden", data) =>
              log' = log \/ log' = Appended(Meta("ToolFilterOverridden"), data)
        BY Zenon DEF RecordOnce, TryRecord, Record, Fail
    <2> QED
        BY <2>1, <2>2, MetaIs DEF Quiet, Telling
<1>5. CASE StreamBlock
    <2> DEFINE b == Head(reply)
               ev == IF b.kind = "ToolUseRecorded" THEN ToolUse(turn, FreshCall(Evs), "valid") ELSE Meta(b.kind)
    <2>1. reply # <<>> /\ \E data : log' = Appended(ev, data)
        BY <1>5, Zenon DEF StreamBlock, Record
    <2>2. b \in StreamedBlock
        <3>1. reply \in Seq(StreamedBlock)
            BY DEF Base, ContextTypes
        <3> QED
            BY <2>1, <3>1
    <2>3. b.kind \in BlockTypes
        BY <2>2 DEF StreamedBlock
    <2> HIDE DEF b
    <2>4. ev.type = b.kind /\ ev.turn = turn
        <3>1. CASE b.kind = "ToolUseRecorded"
            BY <3>1 DEF ToolUse, Ev, None
        <3>2. CASE b.kind # "ToolUseRecorded"
            <4>1. ev = Meta(b.kind)
                BY <3>2
            <4> HIDE DEF ev
            <4> QED
                BY <4>1, MetaIs
        <3> QED
            BY <3>1, <3>2
    <2> HIDE DEF ev
    <2>5. b.kind \notin Telling
        BY <2>3 DEF BlockTypes, Telling
    <2> QED
        BY <2>1, <2>4, <2>5 DEF Quiet
<1>6. CASE StreamEnd
    <2>1. log' = log \/ \E stop, data : log' = Appended(ModelCallCompleted(turn, stop), data)
        BY <1>6, Zenon DEF StreamEnd, Record
    <2>2. \A stop : LET ev == ModelCallCompleted(turn, stop) IN ev.type = "ModelCallCompleted" /\ ev.turn = turn
        BY DEF ModelCallCompleted, Ev
    <2> QED
        BY <2>1, <2>2 DEF Quiet, Telling
<1>7. CASE Dispatch
    <2>1. \E c, data : log' = Appended(ToolResult(turn, c), data)
        BY <1>7, Zenon DEF Dispatch, Record
    <2>2. \A c : LET ev == ToolResult(turn, c) IN ev.type = "ToolResultRecorded" /\ ev.turn = turn
        BY DEF ToolResult, Ev
    <2> QED
        BY <2>1, <2>2 DEF Quiet, Telling
<1>8. CASE EndTurn
    <2>1. \E ev \in {TurnCompleted(turn), TurnFailed(turn)} : log' = Appended(ev, NoData)
        BY <1>8 DEF EndTurn, Record
    <2>2. \A ev \in {TurnCompleted(turn), TurnFailed(turn)} :
              ev.type \in {"TurnCompleted", "TurnFailed"} /\ ev.turn = turn
        BY DEF TurnCompleted, TurnFailed, Ev
    <2> QED
        BY <2>1, <2>2 DEF Quiet, Telling
<1> QED
    BY <1>1, <1>2, <1>3, <1>4, <1>5, <1>6, <1>7, <1>8

\* A turn in which nothing failed, over a step.
LEMMA CleanStep ==
    ASSUME Base, CleanOK, Next
    PROVE  CleanOK'
<1> SUFFICES ASSUME turn' # None, turn' \notin dirty'
             PROVE  Clean(log', turn', pc', seen', todo', fresh')
    BY DEF CleanOK
<1>0. dirty \subseteq dirty' /\ (turn = None <=> pc \in Away)
    BY TurnMoves DEF Base, ContextTypes
<1>1. CASE \E names \in Asked : StartTurn(names)
    BY <1>1, CleanStart
<1>2. CASE Crash
    BY <1>2, CrashIs
<1>3. CASE EndTurn
    BY <1>3 DEF EndTurn
<1>4. CASE turn' = turn
    <2>1. Clean(log, turn, pc, seen, todo, fresh)
        BY <1>0, <1>4 DEF CleanOK
    <2>2. Quiet => Clean(log', turn, pc, seen, todo, fresh)
        BY <2>1, QuietStep DEF Quiet
    <2>3. CASE Enter
        <3>1. pc = "init" /\ pc' \in {"fail", "load"}
            BY <2>3 DEF Enter, Goto
        <3>2. Clean(log', turn, pc, seen, todo, fresh)
            BY <2>2, <2>3, QuietActions
        <3> QED
            BY <1>4, <3>1, <3>2 DEF Clean, PassPcs
    <2>4. CASE Load
        <3>1. pc = "load" /\ pc' = "compact" /\ log' = log /\ (seen' = Len(log) \/ dirty' = dirty \cup {turn})
            BY <2>4 DEF Load, Goto
        <3>2. seen' = Len(log) /\ DOMAIN log = 1..Len(log) /\ Len(log) \in Nat
            BY <1>4, <3>1, EvsType DEF Base, ContextTypes
        <3> QED
            BY <1>4, <2>1, <3>1, <3>2 DEF Clean, PassPcs
    <2>5. CASE Compact
        <3>1. pc = "compact" /\ pc' = "inject" /\ seen' = seen
            BY <2>5, Zenon DEF Compact, Goto, PassVars
        <3>2. Clean(log', turn, pc, seen, todo, fresh)
            BY <2>2, <2>5, QuietActions
        <3> QED
            BY <1>4, <3>1, <3>2 DEF Clean, PassPcs
    <2>6. CASE BeginInject
        BY <2>1, <2>6, CleanBeginInject
    <2>7. CASE Activate
        BY <1>4, <2>1, <2>7, CleanActivate
    <2>8. CASE Inject
        BY <1>4, <2>1, <2>8, CleanInject
    <2>9. CASE InjectFallback
        <3>1. pc = "suffix"
            BY <2>9 DEF InjectFallback
        <3> QED
            BY <2>1, <3>1 DEF Clean
    <2>10. CASE Override
        BY <1>4, <2>1, <2>10, CleanOverride
    <2>11. CASE ComposePrompt
        <3>1. pc = "compose" /\ pc' \in {"call", "fail"} /\ seen' = seen /\ log' = log
            BY <2>11 DEF ComposePrompt, Goto, PassVars
        <3> QED
            BY <1>4, <2>1, <3>1 DEF Clean, PassPcs
    <2>12. CASE CallModel
        BY <2>1, <2>12, CleanCall
    <2>13. CASE StreamBlock
        <3>1. pc = "stream" /\ pc' = "stream"
            BY <2>13, Zenon DEF StreamBlock, Goto
        <3>2. Clean(log', turn, pc, seen, todo, fresh)
            BY <2>2, <2>13, QuietActions
        <3> QED
            BY <1>4, <3>1, <3>2 DEF Clean, PassPcs
    <2>14. CASE StreamEnd
        <3>1. pc = "stream" /\ pc' \in {"complete", "dispatch", "fail"}
            BY <2>14 DEF StreamEnd, Goto
        <3>2. Clean(log', turn, pc, seen, todo, fresh)
            BY <2>2, <2>14, QuietActions
        <3> QED
            BY <1>4, <3>1, <3>2 DEF Clean, PassPcs
    <2>15. CASE Dispatch
        <3>1. pc = "dispatch" /\ pc' = "dispatch"
            BY <2>15, Zenon DEF Dispatch, Goto
        <3>2. Clean(log', turn, pc, seen, todo, fresh)
            BY <2>2, <2>15, QuietActions
        <3> QED
            BY <1>4, <3>1, <3>2 DEF Clean, PassPcs
    <2>16. CASE Round
        <3>1. pc = "dispatch" /\ pc' = "init" /\ log' = log
            BY <2>16, Zenon DEF Round, Goto
        <3> QED
            BY <1>4, <2>1, <3>1 DEF Clean, PassPcs
    <2>17. CASE \E spec \in Specs : Update(spec)
        <3>1. pc' = pc /\ seen' = seen /\ log' = log /\ todo' = todo /\ fresh' = fresh
            BY <2>17, Zenon DEF Update
        <3> QED
            BY <1>4, <2>1, <3>1
    <2> QED
        BY <1>1, <1>2, <1>3, <2>3, <2>4, <2>5, <2>6, <2>7, <2>8, <2>9, <2>10, <2>11, <2>12,
           <2>13, <2>14, <2>15, <2>16, <2>17, Zenon DEF Next
<1>5. CASE turn' # turn
    <2>1. \/ \E names \in Asked : StartTurn(names)
          \/ EndTurn \/ Crash
        <3>1. ASSUME \/ Enter \/ Load \/ Compact \/ BeginInject \/ Activate \/ Inject \/ InjectFallback
                     \/ Override \/ ComposePrompt \/ CallModel \/ StreamBlock \/ StreamEnd
                     \/ Dispatch \/ Round \/ \E spec \in Specs : Update(spec)
              PROVE  turn' = turn
            BY <3>1, Zenon DEF Enter, Load, Compact, BeginInject, Activate, Inject, InjectFallback, Override,
               ComposePrompt, CallModel, StreamBlock, StreamEnd, Dispatch, Round, Update, Goto
        <3> QED
            BY <1>5, <3>1, Zenon DEF Next
    <2> QED
        BY <1>1, <1>2, <1>3, <2>1
<1> QED
    BY <1>4, <1>5

-----------------------------------------------------------------------------
(* The request, and what is given once.                                    *)

\* The request is composed from the history the pass has read.
LEMMA PromptStep ==
    ASSUME Base, PromptOK, Next
    PROVE  PromptOK'
<1>1. CASE ComposePrompt
    <2>1. /\ prompt' = Compose(History, turn, deps.tools.list)
          /\ log' = log /\ seen' = seen /\ turn' = turn /\ deps' = deps
        BY <1>1, Zenon DEF ComposePrompt, Goto, PassVars
    <2>2. History' = History
        BY <2>1 DEF History
    <2>3. /\ prompt'.system = Suffix(History, turn) /\ prompt'.messages = Walk(History)
          /\ prompt'.tools = Surface(deps.tools.list, OverrideMode(History, turn))
        BY <2>1 DEF Compose
    <2> QED
        BY <2>1, <2>2, <2>3 DEF PromptOK
<1>2. ASSUME pc' # "call"
      PROVE  PromptOK'
    BY <1>2 DEF PromptOK
<1>3. CASE Crash
    <2>1. pc' # "call"
        BY <1>3, CrashIs DEF Away
    <2> QED
        BY <1>2, <2>1
<1>4. CASE \E spec \in Specs : Update(spec)
    <2>1. pc' = pc /\ pc # "call"
        BY <1>4 DEF Update
    <2> QED
        BY <1>2, <2>1
<1>5. ASSUME \/ \E names \in Asked : StartTurn(names)
             \/ Enter \/ Load \/ Compact \/ BeginInject \/ Activate \/ Inject \/ InjectFallback
             \/ Override \/ CallModel \/ StreamBlock \/ StreamEnd \/ Dispatch \/ Round \/ EndTurn
      PROVE  pc' # "call"
    <2>1. \/ pc' \in {"init", "fail", "load", "compact", "inject", "override", "activate", "suffix",
                      "compose", "stream", "idle", "complete", "dispatch"}
        BY <1>5 DEF StartTurn, Enter, Load, Compact, BeginInject, Activate, Inject, InjectFallback,
           Override, CallModel, StreamBlock, StreamEnd, Dispatch, Round, EndTurn, Goto
    <2> QED
        BY <2>1
<1> QED
    BY <1>1, <1>2, <1>3, <1>4, <1>5, Zenon DEF Next

\* What a suffix or a result before the read of the pass names is a prior activation of it.
LEMMA PriorHas ==
    ASSUME Base, NEW k \in 1..seen, log[k].ev.type \in {"SystemPromptInjected", "ToolResultRecorded"},
           NEW x \in ToSet(log[k].data.names)
    PROVE  x \in Prior(History)
<1> DEFINE h == History
<1>1. /\ seen \in Nat /\ DOMAIN h = 1..seen /\ \A i \in 1..seen : i \in DOMAIN log /\ h[i] = log[i]
    BY HistoryIs DEF Base
<1>2. Sourced(log, log[k], k - 1)
    BY <1>1 DEF Base, SourcesOf
<1>3. \A j \in 1..(k - 1) : j \in 1..seen
    BY <1>1
<1> HIDE DEF h
<1>4. CASE log[k].ev.type = "SystemPromptInjected"
    <2>1. PICK j \in 1..(k - 1) : ActivatedAt(log, j, log[k].ev.turn, x)
        BY <1>2, <1>4 DEF Sourced
    <2>2. j \in DOMAIN h /\ h[j] = log[j] /\ h[j].ev.type = "SkillActivated" /\ x \in ToSet(h[j].data.names)
        BY <1>1, <1>3, <2>1 DEF ActivatedAt, Activation, Ev
    <2>3. x \in Prior(h)
        BY <2>2 DEF Prior, IsType
    <2> QED
        BY <2>3 DEF h
<1>5. CASE log[k].ev.type = "ToolResultRecorded"
    <2>1. log[k].data.names # <<>>
        BY NoNames
    <2>2. log[k].data.form # "error" /\ CallAmong(log, log[k].ev.key, log[k].data.names, k - 1)
        BY <1>2, <1>5, <2>1 DEF Sourced
    <2>3. PICK j \in 1..(k - 1) : /\ log[j].ev.type = "ToolUseRecorded" /\ log[j].ev.key = log[k].ev.key
                                  /\ log[j].data.names = log[k].data.names
        BY <2>2 DEF CallAmong
    <2>4. j \in DOMAIN h /\ h[j] = log[j] /\ k \in DOMAIN h /\ h[k] = log[k]
        BY <1>1, <1>3, <2>3
    <2>5. x \in Prior(h)
        BY <1>5, <2>2, <2>3, <2>4 DEF Prior, IsType
    <2> QED
        BY <2>5 DEF h
<1> QED
    BY <1>4, <1>5

\* A suffix is written by the injector, or by its fallback.
LEMMA SuffixWrite ==
    ASSUME Base, Next, NEW body, Longer(log, body, log'), body.ev.type = "SystemPromptInjected"
    PROVE  Inject \/ InjectFallback
<1>0. /\ log' # log
      /\ \A ev, data : log' = Appended(ev, data) => ev.type = "SystemPromptInjected"
    <2>1. log' # log
        BY DEF Longer
    <2>2. ASSUME NEW ev, NEW data, log' = Appended(ev, data)
          PROVE  ev.type = "SystemPromptInjected"
        <3> DEFINE b == BodyOf(ev, data)
        <3>1. Longer(log, b, log') /\ b.ev = ev
            BY <2>2, NewBody
        <3> HIDE DEF b
        <3>2. b = body
            BY <3>1 DEF Longer
        <3> QED
            BY <3>1, <3>2
    <2> QED
        BY <2>1, <2>2
<1>1. ~Quiet
    BY <1>0 DEF Quiet, Telling
<1>2. \A names \in Asked : ~StartTurn(names)
    <2>1. \A names \in Asked : StartTurn(names) =>
              log' = Appended(TurnStarted(turn', turn'), [NoData EXCEPT !.names = names])
        BY Zenon DEF StartTurn, Record
    <2>2. TurnStarted(turn', turn').type # "SystemPromptInjected"
        BY DEF TurnStarted, Ev
    <2> QED
        BY <1>0, <2>1, <2>2
<1>3. ~Activate
    <2>1. Activate => log' = log \/ \E data : log' = Appended(Meta("SkillActivated"), data)
        BY Zenon DEF Activate, Record, Fail
    <2>2. Meta("SkillActivated").type # "SystemPromptInjected"
        BY DEF Meta, Ev
    <2> QED
        BY <1>0, <2>1, <2>2
<1>4. ~CallModel
    <2>1. CallModel => log' = Appended(ModelCallStarted(turn), NoData)
        BY Zenon DEF CallModel, Record
    <2>2. ModelCallStarted(turn).type # "SystemPromptInjected"
        BY DEF ModelCallStarted, Ev
    <2> QED
        BY <1>0, <2>1, <2>2
<1> QED
    BY <1>1, <1>2, <1>3, <1>4, QuietActions, Zenon DEF Next

\* The suffix of a turn in which nothing failed: nothing a prior activation has brought,
\* and the pass has read every event of another turn; or nothing at all.
LEMMA NewSuffix ==
    ASSUME Base, CleanOK, Next, NEW body, Longer(log, body, log'),
           body.ev.type = "SystemPromptInjected", body.ev.turn \notin dirty'
    PROVE  \/ ToSet(body.data.names) = {}
           \/ /\ ToSet(body.data.names) \cap Prior(History) = {}
              /\ \A k \in DOMAIN log : k > seen => log[k].ev.turn = body.ev.turn
<1> DEFINE ev == Meta("SystemPromptInjected")
           data == [NoData EXCEPT !.names = fresh]
<1>0. log' # log
    BY DEF Longer
<1>1. ASSUME NEW d, log' = Appended(ev, d)
      PROVE  body.ev = ev /\ body.data = d
    <2> DEFINE b == BodyOf(ev, d)
    <2> HIDE DEF ev
    <2>1. Longer(log, b, log') /\ b.ev = ev /\ b.data = d
        BY <1>1, NewBody
    <2> HIDE DEF b
    <2>2. b = body
        BY <2>1 DEF Longer
    <2> QED
        BY <2>1, <2>2
<1>2. \A d : RecordOnce("SystemPromptInjected", d) => log' = log \/ log' = Appended(ev, d)
    BY Zenon DEF RecordOnce, TryRecord, Record, Fail
<1>3. ev.turn = turn
    BY MetaIs
<1> HIDE DEF ev
<1>4. CASE Inject
    <2>1. pc = "activate" /\ log' = Appended(ev, data)
        BY <1>0, <1>2, <1>4 DEF Inject
    <2>2. body.ev.turn = turn /\ body.data.names = fresh
        <3>1. fresh \in Words
            BY DEF Base, ContextTypes
        <3>2. data.names = fresh
            BY <3>1, NamesIs
        <3> HIDE DEF data
        <3> QED
            BY <1>1, <1>3, <2>1, <3>2
    <2>3. turn # None /\ turn \notin dirty
        BY <2>1, <2>2, TurnMoves DEF Base, ContextTypes, Away
    <2>4. Clean(log, turn, pc, seen, todo, fresh)
        BY <2>3 DEF CleanOK
    <2>5. /\ \A k \in DOMAIN log : k > seen => log[k].ev.turn = turn
          /\ ToSet(fresh) \cap Prior(History) = {}
        BY <2>1, <2>4 DEF Clean, PassPcs, History
    <2> QED
        BY <2>2, <2>5
<1>5. CASE InjectFallback
    <2>1. log' = Appended(ev, NoData)
        BY <1>0, <1>2, <1>5 DEF InjectFallback
    <2>2. body.data = NoData
        BY <1>1, <2>1
    <2> QED
        BY <2>2, NoNames
<1> QED
    BY <1>4, <1>5, SuffixWrite

\* A body is given once, over a step: the suffix of a turn has nothing a suffix or a
\* result before it has brought, since the pass has read all of them.
LEMMA SkillStep ==
    ASSUME Base, CleanOK, SkillOnce, Next
    PROVE  SkillOnce'
<1> DEFINE n == Len(log)
           mg == log'
           Names(lg, i) == ToSet(lg[i].data.names)
           Telling2 == {"SystemPromptInjected", "ToolResultRecorded"}
<1>0. /\ WellTyped(log) /\ DOMAIN log = 1..n /\ n \in Nat
      /\ dirty \subseteq dirty' /\ seen \in Nat
    BY EvsType, TurnMoves, HistoryIs DEF Base, ContextTypes
<1>1. ASSUME NEW i \in 1..n, log[i].ev.type = "SystemPromptInjected", log[i].ev.turn \notin dirty',
             NEW k \in 1..i - 1, log[k].ev.turn < log[i].ev.turn, log[k].ev.type \in Telling2
      PROVE  Names(log, k) \cap Names(log, i) = {}
    BY <1>0, <1>1 DEF SkillOnce
<1>2. CASE log' = log
    BY <1>0, <1>1, <1>2 DEF SkillOnce
<1>3. CASE log' # log
    <2>1. PICK body : Recorded(body) /\ Longer(log, body, log')
        BY <1>3, StepLog
    <2>2. /\ DOMAIN mg = 1..(n + 1) /\ mg[n + 1] = body /\ \A i \in 1..n : mg[i] = log[i]
        BY <1>0, <2>1, LogGrows DEF Recorded
    <2> HIDE DEF n
    <2> SUFFICES ASSUME NEW i \in 1..(n + 1), mg[i].ev.type = "SystemPromptInjected", mg[i].ev.turn \notin dirty',
                        NEW k \in 1..i - 1, mg[k].ev.turn < mg[i].ev.turn, mg[k].ev.type \in Telling2
                 PROVE  Names(mg, k) \cap Names(mg, i) = {}
        BY <2>2 DEF SkillOnce
    <2>3. k \in 1..n /\ mg[k] = log[k]
        BY <1>0, <2>2
    <2>4. CASE i \in 1..n
        BY <1>1, <2>2, <2>3, <2>4
    <2>5. CASE i = n + 1
        <3>1. mg[i] = body /\ body.ev.type = "SystemPromptInjected" /\ body.ev.turn \notin dirty'
            BY <2>2, <2>5
        <3>2. CASE ToSet(body.data.names) = {}
            BY <3>1, <3>2
        <3>3. CASE /\ ToSet(body.data.names) \cap Prior(History) = {}
                   /\ \A j \in DOMAIN log : j > seen => log[j].ev.turn = body.ev.turn
            <4>1. log[k].ev.turn # body.ev.turn
                <5>1. log[k].ev.turn \in Nat /\ body.ev.turn \in Nat /\ log[k].ev.turn < body.ev.turn
                    BY <1>0, <2>1, <2>3, <3>1 DEF WellTyped, IsBody, Recorded, n
                <5> QED
                    BY <5>1
            <4>2. k \in 1..seen
                BY <1>0, <2>3, <3>3, <4>1
            <4>3. log[k].ev.type \in {"SystemPromptInjected", "ToolResultRecorded"}
                BY <2>3
            <4>4. \A x \in ToSet(log[k].data.names) : x \in Prior(History)
                BY <4>2, <4>3, PriorHas
            <4> QED
                BY <2>3, <3>1, <3>3, <4>4
        <3> QED
            BY <2>1, <3>1, <3>2, <3>3, NewSuffix
    <2> QED
        BY <1>0, <2>4, <2>5
<1> QED
    BY <1>2, <1>3

-----------------------------------------------------------------------------
(* Calls and results.                                                      *)

RoundTypes == BlockTypes \cup {"ToolResultRecorded", "ModelCallCompleted"}

\* From i to n: blocks of the message i is in, then results, and nothing else a request says.
Behind(lg, i, n) ==
    /\ \A j \in i + 1..n : lg[j].ev.type \in RoundTypes
    /\ \A j, k \in i + 1..n :
          j < k /\ lg[j].ev.type = "ToolResultRecorded" => lg[k].ev.type \notin BlockTypes

Use(lg, i, c) == lg[i].ev.type = "ToolUseRecorded" /\ lg[i].ev.key = c

\* The result at k, within the first n events, is that of the call at i.
ResultOf(lg, i, k, n) ==
    /\ k \in i + 1..n /\ Use(lg, i, lg[k].ev.key)
    /\ lg[k].ev.type = "ToolResultRecorded" /\ Behind(lg, i, k - 1)

\* The model is still streaming the message that began after m.
Streamed(lg, m, n) == \A j \in m + 1..n : lg[j].ev.type \in BlockTypes

\* No compaction cuts through a round: its range begins with a turn and ends
\* before the first pass of one.
Bounded(lg, lo, hi, n) ==
    /\ lo \in Nat /\ hi \in Nat /\ lo + 1 \in 1..n /\ hi + 1 \in 1..n
    /\ lg[lo + 1].ev.type = "TurnStarted"
    /\ \E s \in 1..hi + 1 :
          /\ lg[s].ev.type = "TurnStarted"
          /\ \A j \in s + 1..hi + 1 : lg[j].ev.type \notin {"TurnStarted", "ContextManageEntered"}

Entered(lg, n) ==
    \E e \in 1..n : /\ lg[e].ev.type = "ContextManageEntered"
                    /\ \A j \in e + 1..n : lg[j].ev.type # "TurnStarted"

\* Where a body written after the first n events stands in the log.
Placed(lg, body, n) ==
    /\ body.seq = n
    /\ body.ev.type = "ToolResultRecorded" =>
          \E i \in 1..n : Use(lg, i, body.ev.key) /\ Behind(lg, i, n)
    /\ body.ev.type = "ModelCallCompleted" =>
          \E m \in 1..n : lg[m].ev.type = "ModelCallStarted" /\ Streamed(lg, m, n)
    /\ body.ev.type \in BlockTypes => Entered(lg, n)
    /\ body.ev.type = "ContextCompacted" => Bounded(lg, body.data.lo, body.data.hi, n)

PlacesOf(lg) == \A i \in DOMAIN lg : Placed(lg, lg[i], i - 1)

\* What is said of the first n events is said of them in any log they begin.
LEMMA SamePlaces ==
    ASSUME NEW lg, NEW mg, NEW n \in Nat, \A j \in 1..n : mg[j] = lg[j]
    PROVE  /\ \A i \in 0..n : Behind(lg, i, n) <=> Behind(mg, i, n)
           /\ \A i \in 0..n : Streamed(lg, i, n) <=> Streamed(mg, i, n)
           /\ Entered(lg, n) <=> Entered(mg, n)
           /\ \A lo, hi : Bounded(lg, lo, hi, n) => Bounded(mg, lo, hi, n)
<1>1. \A i \in 0..n : \A j \in i + 1..n : j \in 1..n
    OBVIOUS
<1>2. \A i \in 0..n : Behind(lg, i, n) <=> Behind(mg, i, n)
    BY <1>1 DEF Behind
<1>3. \A i \in 0..n : Streamed(lg, i, n) <=> Streamed(mg, i, n)
    BY <1>1 DEF Streamed
<1>4. Entered(lg, n) <=> Entered(mg, n)
    BY <1>1 DEF Entered
<1>5. ASSUME NEW lo, NEW hi, Bounded(lg, lo, hi, n)
      PROVE  Bounded(mg, lo, hi, n)
    <2>1. \A s \in 1..hi + 1 : s \in 1..n
        BY <1>5 DEF Bounded
    <2>2. \A s \in 1..hi + 1 : \A j \in s + 1..hi + 1 : j \in 1..n
        BY <1>5 DEF Bounded
    <2> QED
        BY <1>5, <2>1, <2>2 DEF Bounded
<1> QED
    BY <1>2, <1>3, <1>4, <1>5

\* The log grows by a body that stands in its place.
LEMMA PlacesGrow ==
    ASSUME NEW lg, WellTyped(lg), PlacesOf(lg), NEW body, IsBody(body), Placed(lg, body, Len(lg)),
           NEW mg, Longer(lg, body, mg)
    PROVE  PlacesOf(mg)
<1> DEFINE n == Len(lg)
<1>1. /\ n \in Nat /\ DOMAIN lg = 1..n /\ DOMAIN mg = 1..(n + 1)
      /\ (\A i \in 1..n : mg[i] = lg[i]) /\ mg[n + 1] = body
    BY LogGrows
<1>p. Placed(lg, body, n)
    OBVIOUS
<1> HIDE DEF n
<1>2. ASSUME NEW b, NEW m \in 0..n, Placed(lg, b, m)
      PROVE  Placed(mg, b, m)
    <2>1. m \in Nat /\ \A j \in 1..m : mg[j] = lg[j]
        BY <1>1
    <2>2. /\ \A i \in 0..m : Behind(lg, i, m) <=> Behind(mg, i, m)
          /\ \A i \in 0..m : Streamed(lg, i, m) <=> Streamed(mg, i, m)
          /\ Entered(lg, m) <=> Entered(mg, m)
          /\ \A lo, hi : Bounded(lg, lo, hi, m) => Bounded(mg, lo, hi, m)
        BY <2>1, SamePlaces
    <2>3. \A i \in 1..m : i \in 0..m
        OBVIOUS
    <2> QED
        BY <1>2, <2>1, <2>2, <2>3 DEF Placed, Use
<1>3. \A i \in 1..(n + 1) : i \in 1..n \/ i = n + 1
    BY <1>1
<1> SUFFICES ASSUME NEW i \in DOMAIN mg
             PROVE  Placed(mg, mg[i], i - 1)
    BY DEF PlacesOf
<1>4. CASE i \in 1..n
    <2>1. Placed(lg, lg[i], i - 1) /\ i - 1 \in 0..n /\ mg[i] = lg[i]
        BY <1>1, <1>4 DEF PlacesOf
    <2> QED
        BY <1>1, <1>2, <1>4, <2>1
<1>5. CASE i = n + 1
    <2>1. n \in 0..n /\ i - 1 = n /\ mg[i] = body
        BY <1>1, <1>5
    <2> QED
        BY <1>2, <1>p, <2>1
<1> QED
    BY <1>1, <1>3, <1>4, <1>5

\* What is dropped begins with a turn and ends before a pass of one.
LEMMA DroppedIsBounded ==
    ASSUME NEW lg, NEW n \in Nat, \A i \in 1..n : lg[i].seq = i - 1,
           NEW h, DOMAIN h = 1..n, \A i \in 1..n : h[i] = lg[i],
           NEW t, NEW keepFirst \in BOOLEAN, NEW keepRecent \in Nat,
           NEW r \in TruncateRange(h, t, keepFirst, keepRecent)
    PROVE  Bounded(lg, r[1], r[2], n)
<1> DEFINE P == {i \in 1..n : lg[i].ev.type = "TurnStarted"}
           at == InOrder(P)
           c == Cardinality(P)
           ts == TurnStarts(h)
           drop == Droppable(h, keepFirst, keepRecent)
           first == CHOOSE k \in drop : \A q \in drop : k <= q
           last == CHOOSE k \in drop : \A q \in drop : q <= k
           end == TurnEnd(h, last)
<1>1. c \in Nat /\ at \in [1..c -> P]
    <2>1. P \in SUBSET (1..n)
        OBVIOUS
    <2> HIDE DEF P
    <2> QED
        BY <2>1, InOrderAscends
<1>2. ts = [k \in 1..c |-> h[at[k]]]
    <2>1. {i \in DOMAIN h : IsType(h[i], {"TurnStarted"})} = P
        BY DEF IsType
    <2> HIDE DEF P
    <2> QED
        BY <1>1, <2>1 DEF TurnStarts, Picked
<1>3. \A k \in 1..c : at[k] \in 1..n /\ lg[at[k]].ev.type = "TurnStarted" /\ ts[k].seq = at[k] - 1
    <2>1. \A p \in P : p \in 1..n /\ lg[p].ev.type = "TurnStarted" /\ h[p].seq = p - 1
        OBVIOUS
    <2> HIDE DEF P, at, c, ts
    <2> QED
        BY <1>1, <1>2, <2>1
<1>4. Len(ts) = c /\ c \in Nat
    <2> HIDE DEF at, c, ts
    <2> QED
        BY <1>1, <1>2
<1>5. drop # {} /\ r = <<ts[first].seq, end>>
    BY DEF TruncateRange
<1>6. drop \in SUBSET (1..c)
    <2> DEFINE from == IF keepFirst THEN 2 ELSE 1
    <2>1. drop \in SUBSET (from..(Len(ts) - keepRecent))
        BY DEF Droppable
    <2>2. from \in {1, 2}
        OBVIOUS
    <2> HIDE DEF drop, ts, c, from
    <2> QED
        BY <1>4, <2>1, <2>2
<1> HIDE DEF P, at, c, ts, drop
<1>7. first \in drop
    <2>1. drop \in SUBSET Nat
        BY <1>4, <1>6
    <2> QED
        BY <1>5, <2>1, LeastNat
<1>8. last \in drop
    <2>1. last = Latest(drop)
        BY <1>5 DEF Latest
    <2> QED
        BY <1>4, <1>5, <1>6, <2>1, LatestIsLast
<1> HIDE DEF first, last
<1> DEFINE p == at[last]
           stops == {h[i].seq : i \in {k \in DOMAIN h :
                        h[k].seq > ts[last].seq /\ IsType(h[k], {"TurnStarted", "ContextManageEntered"})}}
           K == {k \in DOMAIN h : h[k].seq >= ts[last].seq /\ \A s \in stops : h[k].seq < s}
           inside == {h[i].seq : i \in K}
<1>9. p \in 1..n /\ lg[p].ev.type = "TurnStarted" /\ ts[last].seq = p - 1
    BY <1>3, <1>6, <1>8
<1>10. end = CHOOSE s \in inside : \A q \in inside : q <= s
    BY DEF TurnEnd, ts
<1> HIDE DEF p, end
<1>11. \A j \in p + 1..n : lg[j].ev.type \in {"TurnStarted", "ContextManageEntered"} => j - 1 \in stops
    <2> SUFFICES ASSUME NEW j \in p + 1..n, lg[j].ev.type \in {"TurnStarted", "ContextManageEntered"}
                 PROVE  j - 1 \in stops
        OBVIOUS
    <2>1. j \in 1..n /\ j - 1 > p - 1 /\ j \in DOMAIN h
        BY <1>9
    <2>2. h[j].seq = j - 1 /\ h[j].seq > ts[last].seq /\ h[j].ev.type \in {"TurnStarted", "ContextManageEntered"}
        BY <1>9, <2>1
    <2> QED
        BY <2>1, <2>2 DEF IsType
<1>12. \A s \in stops : s \in Nat /\ s > p - 1
    BY <1>9
<1> HIDE DEF stops
<1>13. p \in K /\ K \in SUBSET (1..n) /\ \A k \in K : h[k].seq = k - 1
    BY <1>9, <1>12
<1>14. \A k \in K : k \in 1..n /\ k >= p /\ \A s \in stops : k - 1 < s
    BY <1>9
<1> HIDE DEF K
<1>15. PICK k \in K : end = k - 1
    <2> DEFINE m == Latest(K)
    <2>1. m \in K /\ \A k \in K : k <= m
        <3>1. K # {} /\ K \in SUBSET (1..n)
            BY <1>13
        <3> QED
            BY <3>1, LatestIsLast
    <2> HIDE DEF m
    <2>a. m \in Nat /\ h[m].seq = m - 1 /\ \A k \in K : k \in Nat /\ h[k].seq = k - 1 /\ k <= m
        <3>1. \A k \in K : k \in Nat /\ h[k].seq = k - 1
            <4>1. \A k \in 1..n : k \in Nat
                OBVIOUS
            <4> QED
                BY <1>13, <1>14, <4>1
        <3> HIDE DEF K
        <3> QED
            BY <2>1, <3>1
    <2>2. m - 1 \in inside /\ \A q \in inside : q <= m - 1
        <3>1. m - 1 \in inside
            BY <2>1, <2>a
        <3>2. ASSUME NEW q \in inside
              PROVE  q <= m - 1
            <4>1. PICK k \in K : q = h[k].seq
                OBVIOUS
            <4> QED
                BY <2>a, <4>1
        <3> QED
            BY <3>1, <3>2
    <2>3. end \in inside
        BY <1>10, <2>2
    <2> QED
        BY <1>13, <2>3
<1>16. \A j \in p + 1..k : lg[j].ev.type \notin {"TurnStarted", "ContextManageEntered"}
    <2> SUFFICES ASSUME NEW j \in p + 1..k, lg[j].ev.type \in {"TurnStarted", "ContextManageEntered"}
                 PROVE  FALSE
        OBVIOUS
    <2>1. j \in p + 1..n /\ k \in Nat
        BY <1>9, <1>14
    <2>2. j - 1 \in stops
        BY <1>11, <2>1
    <2>3. k - 1 < j - 1 /\ j \in Nat
        BY <1>9, <1>14, <2>2
    <2> QED
        BY <2>1, <2>3
<1>17. r[2] = k - 1 /\ r[1] = at[first] - 1 /\ at[first] \in 1..n /\ lg[at[first]].ev.type = "TurnStarted"
    BY <1>3, <1>5, <1>6, <1>7, <1>15
<1>18. r[1] \in Nat /\ r[2] \in Nat /\ r[1] + 1 = at[first] /\ r[2] + 1 = k /\ p \in 1..k /\ k \in 1..n
    BY <1>9, <1>14, <1>17
<1> QED
    BY <1>9, <1>16, <1>17, <1>18 DEF Bounded

-----------------------------------------------------------------------------
(* The walk of the projector, event by event.                              *)

Unwalked == [msgs |-> <<>>, buf |-> NoBuffer]
Visible(h, i) == ~Covered(h, h[i].seq)

\* f follows the walk over the first n events.
Walks(h, f, n) ==
    f = [k \in 0..n |-> IF k = 0 THEN Unwalked
                        ELSE IF Visible(h, k) THEN Step(f[k - 1], h[k]) ELSE f[k - 1]]

\* The walk has a value: up to the least n without one it would be extended.
LEMMA WalkExists ==
    ASSUME NEW h, NEW n \in Nat
    PROVE  \E f : Walks(h, f, n)
<1> DEFINE T == {k \in Nat : ~\E f : Walks(h, f, k)}
<1> SUFFICES ASSUME T # {}
             PROVE  FALSE
    OBVIOUS
<1>0. T \in SUBSET Nat
    OBVIOUS
<1>1. PICK k \in T : \A m \in T : k <= m
    BY <1>0, LeastNat
<1>2. k \in Nat /\ ~\E f : Walks(h, f, k)
    BY <1>1
<1>3. CASE k = 0
    <2> DEFINE f == [i \in 0..0 |-> Unwalked]
    <2>1. f = [i \in 0..0 |-> IF i = 0 THEN Unwalked
                             ELSE IF Visible(h, i) THEN Step(f[i - 1], h[i]) ELSE f[i - 1]]
        OBVIOUS
    <2> HIDE DEF f
    <2>2. Walks(h, f, 0)
        BY <2>1 DEF Walks
    <2> QED
        BY <1>2, <1>3, <2>2
<1>4. CASE k # 0
    <2>1. k - 1 \in Nat /\ ~(k <= k - 1)
        BY <1>2, <1>4
    <2>2. PICK f : Walks(h, f, k - 1)
        BY <1>1, <2>1
    <2> DEFINE new == IF Visible(h, k) THEN Step(f[k - 1], h[k]) ELSE f[k - 1]
               g == [i \in 0..k |-> IF i = k THEN new ELSE f[i]]
               At(u, i) == IF i = 0 THEN Unwalked
                           ELSE IF Visible(h, i) THEN Step(u[i - 1], h[i]) ELSE u[i - 1]
    <2>3. \A i \in 0..(k - 1) : f[i] = At(f, i)
        BY <2>2 DEF Walks
    <2>4. /\ \A i \in 0..(k - 1) : g[i] = f[i]
          /\ g[k] = new /\ DOMAIN g = 0..k
        BY <1>2, <1>4
    <2> HIDE DEF g
    <2>5. \A i \in 0..k : g[i] = At(g, i)
        <3> SUFFICES ASSUME NEW i \in 0..k
                     PROVE  g[i] = At(g, i)
            OBVIOUS
        <3>1. CASE i = 0
            BY <1>2, <1>4, <2>1, <2>3, <2>4, <3>1
        <3>2. CASE i # 0
            <4>1. i - 1 \in 0..(k - 1) /\ (i # k => i \in 0..(k - 1))
                BY <1>2, <1>4, <3>2
            <4>2. g[i - 1] = f[i - 1]
                BY <2>4, <4>1
            <4>3. CASE i = k
                BY <1>4, <2>4, <4>2, <4>3
            <4>4. CASE i # k
                BY <2>3, <2>4, <3>2, <4>1, <4>2, <4>4
            <4> QED
                BY <4>3, <4>4
        <3> QED
            BY <3>1, <3>2
    <2>6. g = [i \in 0..k |-> g[i]]
        BY <2>4 DEF g
    <2>7. Walks(h, g, k)
        BY <2>5, <2>6 DEF Walks
    <2> QED
        BY <1>2, <2>7
<1> QED
    BY <1>3, <1>4

\* The walk of a history is the last entry of such a table, flushed.
LEMMA WalkIs ==
    ASSUME NEW h, NEW n \in Nat, Len(h) = n
    PROVE  \E f : /\ f[0] = Unwalked
                  /\ \A k \in 1..n : f[k] = IF Visible(h, k) THEN Step(f[k - 1], h[k]) ELSE f[k - 1]
                  /\ Walk(h) = Flush(f[n]).msgs
<1> DEFINE f == CHOOSE f : Walks(h, f, n)
<1>1. Walks(h, f, n)
    BY WalkExists
<1>2. Walk(h) = Flush(f[n]).msgs
    BY DEF Walk, Walks, Visible, Unwalked
<1> HIDE DEF f
<1>3. f[0] = Unwalked
    BY <1>1 DEF Walks
<1>4. \A k \in 1..n : f[k] = IF Visible(h, k) THEN Step(f[k - 1], h[k]) ELSE f[k - 1]
    <2>1. \A k \in 1..n : k \in 0..n /\ k # 0
        OBVIOUS
    <2> QED
        BY <1>1, <2>1 DEF Walks
<1> QED
    BY <1>2, <1>3, <1>4

-----------------------------------------------------------------------------
(* One event of the walk.                                                  *)

Roles == {"assistant", "user", "tool"}
Kinds == {"Text", "ToolUse", "Thinking", "ToolResult", "Summary"}

\* Messages of blocks of S, and a walk that has some behind it.
Messages(S) == Seq([role : Roles, content : Seq(S)])
Accs(S) == [msgs : Messages(S), buf : [thinking : Seq(S), body : Seq(S)]]

Flushed(acc) ==
    IF acc.buf = NoBuffer THEN acc.msgs
    ELSE Append(acc.msgs, Message("assistant", acc.buf.thinking \o acc.buf.body))

IsSummary(body) == body.ev.type = "ContextCompacted" /\ body.data.form = "Summary"
Alone == {"TurnStarted", "ToolResultRecorded"}
RoleOf(body) == IF body.ev.type = "ToolResultRecorded" THEN "tool" ELSE "user"
KindOf(body) == CASE body.ev.type = "ToolResultRecorded" -> "ToolResult"
                  [] body.ev.type = "TurnStarted" -> "Text"
                  [] body.ev.type = "AssistantMessageAppended" -> "Text"
                  [] body.ev.type = "ToolUseRecorded" -> "ToolUse"
                  [] body.ev.type = "ThinkingBlockRecorded" -> "Thinking"
                  [] OTHER -> "Summary"

\* A message has its role and its blocks.
LEMMA MessageIs ==
    ASSUME NEW S, NEW role \in Roles, NEW blocks \in Seq(S)
    PROVE  /\ Message(role, blocks) \in [role : Roles, content : Seq(S)]
           /\ Message(role, blocks).role = role /\ Message(role, blocks).content = blocks
BY DEF Message

\* A flush leaves an empty buffer.
LEMMA FlushIs ==
    ASSUME NEW S, NEW acc \in Accs(S)
    PROVE  Flush(acc) = [msgs |-> Flushed(acc), buf |-> NoBuffer] /\ Flushed(acc) \in Messages(S)
<1> DEFINE all == acc.buf.thinking \o acc.buf.body
<1>1. /\ acc = [msgs |-> acc.msgs, buf |-> acc.buf] /\ acc.msgs \in Messages(S)
      /\ acc.buf.thinking \in Seq(S) /\ acc.buf.body \in Seq(S)
    BY DEF Accs
<1>2. all \in Seq(S)
    BY <1>1
<1> HIDE DEF all
<1>3. Message("assistant", all) \in [role : Roles, content : Seq(S)]
    BY <1>2, MessageIs DEF Roles
<1>4. Append(acc.msgs, Message("assistant", all)) \in Messages(S)
    BY <1>1, <1>3 DEF Messages
<1> QED
    BY <1>1, <1>4 DEF Flush, Flushed, all

\* An event that stands alone is a message of its own behind the assistant's.
LEMMA StepAlone ==
    ASSUME NEW S, NEW acc \in Accs(S), NEW body, \A kind \in Kinds : Block(kind, body) \in S,
           body.ev.type \in Alone \/ IsSummary(body)
    PROVE  /\ Step(acc, body) \in Accs(S)
           /\ Step(acc, body).buf = NoBuffer
           /\ Step(acc, body).msgs =
                  Append(Flushed(acc), Message(RoleOf(body), <<Block(KindOf(body), body)>>))
<1> DEFINE b == Block(KindOf(body), body)
           m == Message(RoleOf(body), <<b>>)
<1>1. Step(acc, body) = Push(acc, RoleOf(body), b)
    BY DEF Step, Alone, IsSummary, RoleOf, KindOf
<1>2. b \in S /\ RoleOf(body) \in Roles
    <2>1. KindOf(body) \in Kinds
        BY DEF KindOf, Kinds
    <2> QED
        BY <2>1 DEF RoleOf, Roles
<1> HIDE DEF b
<1>3. m \in [role : Roles, content : Seq(S)]
    <2>1. <<b>> \in Seq(S)
        BY <1>2
    <2> QED
        BY <1>2, <2>1, MessageIs
<1>4. Flush(acc) = [msgs |-> Flushed(acc), buf |-> NoBuffer] /\ Flushed(acc) \in Messages(S)
    BY FlushIs
<1>5. Push(acc, RoleOf(body), b) = [msgs |-> Append(Flushed(acc), m), buf |-> NoBuffer]
    <2>2. \A u, v, x : [[msgs |-> u, buf |-> v] EXCEPT !.msgs = Append(@, x)] = [msgs |-> Append(u, x), buf |-> v]
        OBVIOUS
    <2> DEFINE fl == Flush(acc)
    <2>3. Push(acc, RoleOf(body), b) = [fl EXCEPT !.msgs = Append(@, m)]
        BY DEF Push
    <2>4. fl = [msgs |-> Flushed(acc), buf |-> NoBuffer]
        BY <1>4
    <2> HIDE DEF m, fl
    <2>5. [fl EXCEPT !.msgs = Append(@, m)] = [msgs |-> Append(Flushed(acc), m), buf |-> NoBuffer]
        BY <2>2, <2>4
    <2> QED
        BY <2>3, <2>5
<1>6. Append(Flushed(acc), m) \in Messages(S)
    BY <1>3, <1>4 DEF Messages
<1>7. NoBuffer \in [thinking : Seq(S), body : Seq(S)]
    BY DEF NoBuffer
<1> QED
    BY <1>1, <1>5, <1>6, <1>7 DEF Accs, b

\* A block of the assistant is buffered.
LEMMA StepBlock ==
    ASSUME NEW S, NEW acc \in Accs(S), NEW body, \A kind \in Kinds : Block(kind, body) \in S,
           body.ev.type \in BlockTypes
    PROVE  LET b == Block(KindOf(body), body)
               think == body.ev.type = "ThinkingBlockRecorded"
           IN  /\ Step(acc, body) \in Accs(S) /\ Step(acc, body).msgs = acc.msgs
               /\ Step(acc, body).buf.thinking = IF think THEN Append(acc.buf.thinking, b) ELSE acc.buf.thinking
               /\ Step(acc, body).buf.body = IF think THEN acc.buf.body ELSE Append(acc.buf.body, b)
<1> DEFINE b == Block(KindOf(body), body)
<1>1. /\ acc.msgs \in Messages(S) /\ acc.buf \in [thinking : Seq(S), body : Seq(S)]
      /\ acc.buf.thinking \in Seq(S) /\ acc.buf.body \in Seq(S)
    BY DEF Accs
<1>2. b \in S
    BY DEF KindOf, Kinds
<1>3. Step(acc, body) = IF body.ev.type = "ThinkingBlockRecorded"
                        THEN [acc EXCEPT !.buf.thinking = Append(@, b)]
                        ELSE [acc EXCEPT !.buf.body = Append(@, b)]
    BY DEF Step, BlockTypes, KindOf
<1> HIDE DEF b
<1> DEFINE th == Append(acc.buf.thinking, b)
           bd == Append(acc.buf.body, b)
<1>4. th \in Seq(S) /\ bd \in Seq(S)
    BY <1>1, <1>2
<1>5. /\ acc = [msgs |-> acc.msgs, buf |-> acc.buf]
      /\ acc.buf = [thinking |-> acc.buf.thinking, body |-> acc.buf.body]
    BY DEF Accs
<1>6. Step(acc, body) =
          IF body.ev.type = "ThinkingBlockRecorded"
          THEN [msgs |-> acc.msgs, buf |-> [thinking |-> th, body |-> acc.buf.body]]
          ELSE [msgs |-> acc.msgs, buf |-> [thinking |-> acc.buf.thinking, body |-> bd]]
    BY <1>3, <1>5
<1>7. th = Append(acc.buf.thinking, Block(KindOf(body), body)) /\ bd = Append(acc.buf.body, Block(KindOf(body), body))
    BY DEF b
<1> HIDE DEF th, bd
<1>8. Step(acc, body) \in Accs(S)
    BY <1>1, <1>4, <1>6 DEF Accs
<1> QED
    BY <1>6, <1>7, <1>8

\* A compaction without a summary ends the assistant's message; the rest is not said.
LEMMA StepSilent ==
    ASSUME NEW S, NEW acc \in Accs(S), NEW body, body.ev.type \notin Alone \cup BlockTypes, ~IsSummary(body)
    PROVE  /\ Step(acc, body) \in Accs(S)
           /\ body.ev.type = "ContextCompacted" =>
                  Step(acc, body).msgs = Flushed(acc) /\ Step(acc, body).buf = NoBuffer
           /\ body.ev.type # "ContextCompacted" => Step(acc, body) = acc
<1>1. Step(acc, body) = IF body.ev.type = "ContextCompacted" THEN Flush(acc) ELSE acc
    BY DEF Step, Alone, BlockTypes, IsSummary
<1>2. Flush(acc) = [msgs |-> Flushed(acc), buf |-> NoBuffer] /\ Flushed(acc) \in Messages(S)
    BY FlushIs
<1>3. NoBuffer \in [thinking : Seq(S), body : Seq(S)]
    BY DEF NoBuffer
<1> QED
    BY <1>1, <1>2, <1>3 DEF Accs

-----------------------------------------------------------------------------
(* Calls and results over the walk.                                        *)

UseSeen(h, i, n) == i \in 1..n /\ Visible(h, i) /\ h[i].ev.type = "ToolUseRecorded"
ResultSeen(h, k, n) == k \in 1..n /\ Visible(h, k) /\ h[k].ev.type = "ToolResultRecorded"

CallBlock(h, i) == Block("ToolUse", h[i])
Reply(h, k) == <<Block("ToolResult", h[k])>>

Holds(ms, m, b) == m \in DOMAIN ms /\ b \in ToSet(ms[m].content)
ToolsBetween(ms, m, k) == \A j \in m + 1..k : ms[j].role = "tool"
Settled(h, i, ms) ==
    /\ \E m \in DOMAIN ms : Holds(ms, m, CallBlock(h, i))
    /\ \A m \in DOMAIN ms : Holds(ms, m, CallBlock(h, i)) => ToolsBetween(ms, m, Len(ms))

Calls(h, n, blocks) ==
    \A b \in ToSet(blocks) : b.kind = "ToolUse" => \E i \in 1..n : UseSeen(h, i, n) /\ b = CallBlock(h, i)

\* A result in the messages has its call right before it, a call its result right behind.
ResultsTold(h, n, ms) ==
    \A m \in DOMAIN ms : ms[m].role = "tool" =>
        \E k \in 1..n : /\ ResultSeen(h, k, n) /\ ms[m].content = Reply(h, k)
                        /\ \A i \in 1..k - 1 : UseSeen(h, i, n) /\ Behind(h, i, k) =>
                              \E l \in 1..m - 1 : Holds(ms, l, CallBlock(h, i)) /\ ToolsBetween(ms, l, m)
CallsTold(h, n, ms) ==
    \A m \in DOMAIN ms : \A k \in 1..n : \A i \in 1..k - 1 :
        UseSeen(h, i, n) /\ ResultSeen(h, k, n) /\ Behind(h, i, k) /\ Holds(ms, m, CallBlock(h, i)) =>
            \E j \in m + 1..Len(ms) : ms[j].content = Reply(h, k) /\ ToolsBetween(ms, m, j)
Told(h, n, ms) ==
    /\ \A m \in DOMAIN ms : Calls(h, n, ms[m].content)
    /\ ResultsTold(h, n, ms) /\ CallsTold(h, n, ms)

\* A call is in the buffer as long as no result follows it.
Buffered(h, n, acc) ==
    /\ Calls(h, n, acc.buf.body)
    /\ \A b \in ToSet(acc.buf.thinking) : b.kind # "ToolUse"
    /\ \A i \in 1..n : CallBlock(h, i) \in ToSet(acc.buf.body) =>
          \A k \in i + 1..n : ~ResultSeen(h, k, n)
    /\ \A i \in 1..n : UseSeen(h, i, n) /\ Behind(h, i, n) =>
          IF \E k \in i + 1..n : ResultSeen(h, k, n)
          THEN acc.buf = NoBuffer /\ Settled(h, i, acc.msgs)
          ELSE /\ CallBlock(h, i) \in ToSet(acc.buf.body)
               /\ \A m \in DOMAIN acc.msgs : ~Holds(acc.msgs, m, CallBlock(h, i))

\* A conversation with one more message.
LEMMA MoreMessages ==
    ASSUME NEW S, NEW ms \in Messages(S), NEW m \in [role : Roles, content : Seq(S)]
    PROVE  LET all == Append(ms, m) IN
           /\ Len(ms) \in Nat /\ DOMAIN ms = 1..Len(ms)
           /\ all \in Messages(S) /\ Len(all) = Len(ms) + 1 /\ DOMAIN all = 1..(Len(ms) + 1)
           /\ (\A j \in 1..Len(ms) : all[j] = ms[j]) /\ all[Len(ms) + 1] = m
<1> DEFINE T == [role : Roles, content : Seq(S)]
<1>1. ms \in Seq(T) /\ m \in T
    BY DEF Messages
<1> HIDE DEF T
<1>2. /\ Len(ms) \in Nat /\ DOMAIN ms = 1..Len(ms)
      /\ Append(ms, m) \in Seq(T) /\ Len(Append(ms, m)) = Len(ms) + 1 /\ DOMAIN Append(ms, m) = 1..(Len(ms) + 1)
      /\ (\A j \in 1..Len(ms) : Append(ms, m)[j] = ms[j]) /\ Append(ms, m)[Len(ms) + 1] = m
    BY <1>1
<1> QED
    BY <1>2 DEF Messages, T

\* The blocks of two sequences put together.
LEMMA BothSets ==
    ASSUME NEW S, NEW s \in Seq(S), NEW t \in Seq(S)
    PROVE  s \o t \in Seq(S) /\ ToSet(s \o t) = ToSet(s) \cup ToSet(t)
<1>1. /\ Len(s) \in Nat /\ Len(t) \in Nat /\ DOMAIN s = 1..Len(s) /\ DOMAIN t = 1..Len(t)
      /\ s \o t \in Seq(S) /\ DOMAIN (s \o t) = 1..(Len(s) + Len(t))
      /\ \A i \in 1..Len(s) : (s \o t)[i] = s[i]
      /\ \A i \in 1..Len(t) : (s \o t)[Len(s) + i] = t[i]
    OBVIOUS
<1> DEFINE u == s \o t
           a == Len(s)
           b == Len(t)
<1> HIDE DEF u, a, b
<1>2. /\ a \in Nat /\ b \in Nat /\ DOMAIN s = 1..a /\ DOMAIN t = 1..b /\ DOMAIN u = 1..(a + b)
      /\ (\A i \in 1..a : u[i] = s[i]) /\ (\A i \in 1..b : u[a + i] = t[i])
    BY <1>1 DEF u, a, b
<1>3. \A i \in 1..(a + b) : i \in 1..a \/ (i - a \in 1..b /\ i = a + (i - a))
    BY <1>2
<1>4. (\A i \in 1..a : i \in 1..(a + b)) /\ (\A i \in 1..b : a + i \in 1..(a + b))
    BY <1>2
<1>5. {u[i] : i \in 1..(a + b)} = {s[i] : i \in 1..a} \cup {t[i] : i \in 1..b}
    <2>1. ASSUME NEW i \in 1..(a + b)
          PROVE  u[i] \in {s[k] : k \in 1..a} \cup {t[k] : k \in 1..b}
        BY <1>2, <1>3
    <2>2. ASSUME NEW i \in 1..a
          PROVE  s[i] \in {u[k] : k \in 1..(a + b)}
        BY <1>2, <1>4
    <2>3. ASSUME NEW i \in 1..b
          PROVE  t[i] \in {u[k] : k \in 1..(a + b)}
        BY <1>2, <1>4
    <2> QED
        BY <2>1, <2>2, <2>3
<1>6. ToSet(u) = {u[i] : i \in 1..(a + b)} /\ ToSet(s) = {s[i] : i \in 1..a} /\ ToSet(t) = {t[i] : i \in 1..b}
    BY <1>2 DEF ToSet
<1> QED
    BY <1>1, <1>5, <1>6 DEF u

\* The buffer becomes a message.
LEMMA FlushTold ==
    ASSUME NEW S, NEW acc \in Accs(S), NEW h, NEW n \in Nat, Told(h, n, acc.msgs), Buffered(h, n, acc)
    PROVE  /\ Told(h, n, Flushed(acc))
           /\ \A i \in 1..n : UseSeen(h, i, n) /\ Behind(h, i, n) => Settled(h, i, Flushed(acc))
<1> DEFINE ms == acc.msgs
           L == Len(ms)
           fl == Flushed(acc)
           b(i) == CallBlock(h, i)
           body == acc.buf.body
<1>0. ms \in Messages(S) /\ acc.buf.thinking \in Seq(S) /\ acc.buf.body \in Seq(S)
    BY DEF Accs
<1>1. CASE acc.buf = NoBuffer
    <2>1. fl = ms
        BY <1>1 DEF Flushed
    <2>2. ToSet(acc.buf.body) = {}
        BY <1>1 DEF NoBuffer, ToSet
    <2> QED
        BY <2>1, <2>2 DEF Buffered
<1>2. CASE acc.buf # NoBuffer
    <2> DEFINE all == acc.buf.thinking \o acc.buf.body
               M == Message("assistant", all)
    <2>1. fl = Append(ms, M)
        BY <1>2 DEF Flushed
    <2>2. all \in Seq(S) /\ ToSet(all) = ToSet(acc.buf.thinking) \cup ToSet(body)
        BY <1>0, BothSets
    <2>a. "assistant" \in Roles
        BY DEF Roles
    <2> HIDE DEF all
    <2>3. M \in [role : Roles, content : Seq(S)] /\ M.role = "assistant" /\ M.content = all
        BY <2>2, <2>a, MessageIs
    <2> HIDE DEF M
    <2>4. /\ L \in Nat /\ DOMAIN ms = 1..L /\ Len(fl) = L + 1 /\ DOMAIN fl = 1..(L + 1)
          /\ (\A j \in 1..L : fl[j] = ms[j]) /\ fl[L + 1] = M
        BY <1>0, <2>1, <2>3, MoreMessages
    <2>5. \A j \in 1..(L + 1) : j \in 1..L \/ j = L + 1
        BY <2>4
    <2> HIDE DEF ms, fl, L, body
    <2>6. /\ \A m \in 1..L : \A x : Holds(fl, m, x) <=> Holds(ms, m, x)
          /\ \A x : Holds(fl, L + 1, x) <=> x \in ToSet(acc.buf.thinking) \cup ToSet(body)
          /\ \A m \in 1..L : \A k \in 1..L : ToolsBetween(fl, m, k) <=> ToolsBetween(ms, m, k)
        <3>1. \A m \in 1..L : m \in 1..(L + 1)
            BY <2>4
        <3>2. \A m \in 1..L : \A k \in 1..L : \A j \in m + 1..k : j \in 1..L
            BY <2>4
        <3>3. L + 1 \in 1..(L + 1)
            BY <2>4
        <3> QED
            BY <2>2, <2>3, <2>4, <3>1, <3>2, <3>3 DEF Holds, ToolsBetween
    <2>7. \A i : b(i).kind = "ToolUse"
        BY DEF CallBlock, Block
    <2>8. \A i : Holds(fl, L + 1, b(i)) <=> b(i) \in ToSet(body)
        BY <2>6, <2>7 DEF Buffered
    <2>9. \A m \in DOMAIN fl : Calls(h, n, fl[m].content)
        <3>1. Calls(h, n, M.content)
            BY <2>2, <2>3 DEF Buffered, Calls, body
        <3> QED
            BY <2>4, <2>5, <3>1 DEF Told, ms
    <2>10. ResultsTold(h, n, fl)
        <3> SUFFICES ASSUME NEW m \in DOMAIN fl, fl[m].role = "tool"
                     PROVE  \E k \in 1..n :
                                /\ ResultSeen(h, k, n) /\ fl[m].content = Reply(h, k)
                                /\ \A i \in 1..k - 1 : UseSeen(h, i, n) /\ Behind(h, i, k) =>
                                      \E l \in 1..m - 1 : Holds(fl, l, b(i)) /\ ToolsBetween(fl, l, m)
            BY DEF ResultsTold
        <3>1. m \in 1..L /\ fl[m] = ms[m]
            BY <2>3, <2>4, <2>5
        <3>2. ResultsTold(h, n, ms)
            BY DEF Told, ms
        <3>3. PICK k \in 1..n :
                  /\ ResultSeen(h, k, n) /\ ms[m].content = Reply(h, k)
                  /\ \A i \in 1..k - 1 : UseSeen(h, i, n) /\ Behind(h, i, k) =>
                        \E l \in 1..m - 1 : Holds(ms, l, b(i)) /\ ToolsBetween(ms, l, m)
            BY <2>4, <3>1, <3>2 DEF ResultsTold
        <3>4. \A l \in 1..m - 1 : l \in 1..L
            BY <2>4, <3>1
        <3> QED
            BY <2>6, <3>1, <3>3, <3>4
    <2>11. CallsTold(h, n, fl)
        <3> SUFFICES ASSUME NEW m \in DOMAIN fl, NEW k \in 1..n, NEW i \in 1..k - 1,
                            UseSeen(h, i, n), ResultSeen(h, k, n), Behind(h, i, k), Holds(fl, m, b(i))
                     PROVE  \E j \in m + 1..Len(fl) : fl[j].content = Reply(h, k) /\ ToolsBetween(fl, m, j)
            BY DEF CallsTold
        <3>1. CASE m \in 1..L
            <4>1. CallsTold(h, n, ms)
                BY DEF Told, ms
            <4>2. PICK j \in m + 1..L : ms[j].content = Reply(h, k) /\ ToolsBetween(ms, m, j)
                BY <2>4, <2>6, <3>1, <4>1 DEF CallsTold, L
            <4>3. j \in 1..L /\ j \in m + 1..(L + 1)
                BY <2>4, <3>1
            <4> QED
                BY <2>4, <2>6, <3>1, <4>2, <4>3
        <3>2. CASE m = L + 1
            <4>1. b(i) \in ToSet(body) /\ i \in 1..n
                BY <2>8, <3>2
            <4>2. k \in i + 1..n
                OBVIOUS
            <4> QED
                BY <4>1, <4>2 DEF Buffered, body
        <3> QED
            BY <2>4, <2>5, <3>1, <3>2
    <2>12. ASSUME NEW i \in 1..n, UseSeen(h, i, n), Behind(h, i, n)
           PROVE  Settled(h, i, fl)
        <3>1. b(i) \in ToSet(body) /\ \A m \in 1..L : ~Holds(ms, m, b(i))
            BY <1>2, <2>4, <2>12 DEF Buffered, body, ms
        <3>2. Holds(fl, L + 1, b(i)) /\ \A m \in 1..L : ~Holds(fl, m, b(i))
            BY <2>6, <2>8, <3>1
        <3>3. ToolsBetween(fl, L + 1, L + 1)
            <4>1. L + 1 + 1..L + 1 = {}
                BY <2>4
            <4> QED
                BY <4>1 DEF ToolsBetween
        <3>4. L + 1 \in DOMAIN fl /\ \A m \in DOMAIN fl : Holds(fl, m, b(i)) => m = L + 1
            BY <2>4, <2>5, <3>2
        <3> QED
            BY <2>4, <3>2, <3>3, <3>4 DEF Settled
    <2> QED
        BY <2>9, <2>10, <2>11, <2>12 DEF Told, fl
<1> QED
    BY <1>1, <1>2

\* What is seen of an event does not depend on how far the walk has come.
LEMMA SeenMore ==
    ASSUME NEW h, NEW n \in Nat
    PROVE  /\ \A i \in 1..n : UseSeen(h, i, n + 1) <=> UseSeen(h, i, n)
           /\ \A k \in 1..n : ResultSeen(h, k, n + 1) <=> ResultSeen(h, k, n)
           /\ \A i \in 1..n : Behind(h, i, n + 1) => Behind(h, i, n) /\ h[n + 1].ev.type \in RoundTypes
           /\ \A i \in 1..(n + 1) : i \in 1..n \/ i = n + 1
           /\ \A i \in 1..n : i \in 1..(n + 1)
<1>1. \A i \in 1..n : i \in 1..(n + 1) /\ n + 1 \in i + 1..n + 1 /\ \A j \in i + 1..n : j \in i + 1..n + 1
    OBVIOUS
<1>2. \A i \in 1..(n + 1) : i \in 1..n \/ i = n + 1
    OBVIOUS
<1> QED
    BY <1>1, <1>2 DEF UseSeen, ResultSeen, Behind

\* Calls among the first events are calls among more of them.
LEMMA CallsMore ==
    ASSUME NEW h, NEW n \in Nat, NEW blocks, Calls(h, n, blocks)
    PROVE  Calls(h, n + 1, blocks)
BY SeenMore DEF Calls

\* An event that is no result adds nothing to what the messages have to say.
LEMMA ToldMore ==
    ASSUME NEW h, NEW n \in Nat, NEW ms, Told(h, n, ms), ~ResultSeen(h, n + 1, n + 1)
    PROVE  Told(h, n + 1, ms)
<1>0. /\ \A i \in 1..n : UseSeen(h, i, n + 1) <=> UseSeen(h, i, n)
      /\ \A k \in 1..n : ResultSeen(h, k, n + 1) <=> ResultSeen(h, k, n)
      /\ \A i \in 1..(n + 1) : i \in 1..n \/ i = n + 1
      /\ \A i \in 1..n : i \in 1..(n + 1)
    BY SeenMore
<1>1. \A m \in DOMAIN ms : Calls(h, n + 1, ms[m].content)
    BY CallsMore DEF Told
<1>2. \A k \in 1..n : \A i \in 1..k - 1 : i \in 1..n
    OBVIOUS
<1>3. ResultsTold(h, n + 1, ms)
    <2> SUFFICES ASSUME NEW m \in DOMAIN ms, ms[m].role = "tool"
                 PROVE  \E k \in 1..(n + 1) :
                            /\ ResultSeen(h, k, n + 1) /\ ms[m].content = Reply(h, k)
                            /\ \A i \in 1..k - 1 : UseSeen(h, i, n + 1) /\ Behind(h, i, k) =>
                                  \E l \in 1..m - 1 : Holds(ms, l, CallBlock(h, i)) /\ ToolsBetween(ms, l, m)
        BY DEF ResultsTold
    <2>1. PICK k \in 1..n :
              /\ ResultSeen(h, k, n) /\ ms[m].content = Reply(h, k)
              /\ \A i \in 1..k - 1 : UseSeen(h, i, n) /\ Behind(h, i, k) =>
                    \E l \in 1..m - 1 : Holds(ms, l, CallBlock(h, i)) /\ ToolsBetween(ms, l, m)
        BY DEF Told, ResultsTold
    <2> QED
        BY <1>0, <1>2, <2>1
<1>4. CallsTold(h, n + 1, ms)
    <2> SUFFICES ASSUME NEW m \in DOMAIN ms, NEW k \in 1..(n + 1), NEW i \in 1..k - 1,
                        UseSeen(h, i, n + 1), ResultSeen(h, k, n + 1), Behind(h, i, k), Holds(ms, m, CallBlock(h, i))
                 PROVE  \E j \in m + 1..Len(ms) : ms[j].content = Reply(h, k) /\ ToolsBetween(ms, m, j)
        BY DEF CallsTold
    <2>1. k \in 1..n
        BY <1>0
    <2>2. UseSeen(h, i, n) /\ ResultSeen(h, k, n)
        BY <1>0, <1>2, <2>1
    <2> QED
        BY <2>1, <2>2 DEF Told, CallsTold
<1> QED
    BY <1>1, <1>3, <1>4 DEF Told

Walked(h, n, acc) == Told(h, n, acc.msgs) /\ Buffered(h, n, acc)

\* Past an event that is not said.
LEMMA WalkQuiet ==
    ASSUME NEW h, NEW n \in Nat, NEW acc, Walked(h, n, acc),
           ~ResultSeen(h, n + 1, n + 1), ~UseSeen(h, n + 1, n + 1)
    PROVE  Walked(h, n + 1, acc)
<1>0. /\ \A i \in 1..n : UseSeen(h, i, n + 1) <=> UseSeen(h, i, n)
      /\ \A k \in 1..n : ResultSeen(h, k, n + 1) <=> ResultSeen(h, k, n)
      /\ \A i \in 1..n : Behind(h, i, n + 1) => Behind(h, i, n)
      /\ \A i \in 1..(n + 1) : i \in 1..n \/ i = n + 1
    BY SeenMore
<1>1. Told(h, n, acc.msgs) /\ Buffered(h, n, acc)
    BY DEF Walked
<1>2. Told(h, n + 1, acc.msgs)
    BY <1>1, ToldMore
<1>3. Calls(h, n + 1, acc.buf.body)
    BY <1>1, CallsMore DEF Buffered
<1>4. ASSUME NEW i \in 1..n
      PROVE  (\E k \in i + 1..n + 1 : ResultSeen(h, k, n + 1)) <=> (\E k \in i + 1..n : ResultSeen(h, k, n))
    <2>1. \A k \in i + 1..n + 1 : k \in i + 1..n \/ k = n + 1
        OBVIOUS
    <2>2. \A k \in i + 1..n : k \in 1..n /\ k \in i + 1..n + 1
        OBVIOUS
    <2> QED
        BY <1>0, <2>1, <2>2
<1>5. ASSUME NEW i \in 1..(n + 1), CallBlock(h, i) \in ToSet(acc.buf.body)
      PROVE  \A k \in i + 1..n + 1 : ~ResultSeen(h, k, n + 1)
    <2>1. CASE i \in 1..n
        BY <1>1, <1>4, <1>5, <2>1 DEF Buffered
    <2>2. CASE i = n + 1
        <3>1. i + 1..n + 1 = {}
            BY <2>2
        <3> QED
            BY <3>1
    <2> QED
        BY <1>0, <2>1, <2>2
<1>6. ASSUME NEW i \in 1..(n + 1), UseSeen(h, i, n + 1), Behind(h, i, n + 1)
      PROVE  IF \E k \in i + 1..n + 1 : ResultSeen(h, k, n + 1)
             THEN acc.buf = NoBuffer /\ Settled(h, i, acc.msgs)
             ELSE /\ CallBlock(h, i) \in ToSet(acc.buf.body)
                  /\ \A m \in DOMAIN acc.msgs : ~Holds(acc.msgs, m, CallBlock(h, i))
    <2>1. i \in 1..n
        BY <1>0, <1>6
    <2> QED
        BY <1>0, <1>1, <1>4, <1>6, <2>1 DEF Buffered
<1> QED
    BY <1>1, <1>2, <1>3, <1>5, <1>6 DEF Walked, Buffered

\* Past a block of the assistant.
LEMMA WalkBlock ==
    ASSUME NEW S, NEW acc \in Accs(S), NEW h, NEW n \in Nat, \A i \in 1..(n + 1) : h[i].seq = i - 1,
           Walked(h, n, acc), NEW next, next.msgs = acc.msgs,
           Visible(h, n + 1), h[n + 1].ev.type \in BlockTypes,
           LET b == Block(KindOf(h[n + 1]), h[n + 1]) IN
           IF h[n + 1].ev.type = "ThinkingBlockRecorded"
           THEN ToSet(next.buf.thinking) = ToSet(acc.buf.thinking) \cup {b} /\ next.buf.body = acc.buf.body
           ELSE ToSet(next.buf.body) = ToSet(acc.buf.body) \cup {b} /\ next.buf.thinking = acc.buf.thinking
    PROVE  Walked(h, n + 1, next)
<1> DEFINE e == h[n + 1]
           b == Block(KindOf(e), e)
           ms == acc.msgs
<1>0. /\ \A i \in 1..n : UseSeen(h, i, n + 1) <=> UseSeen(h, i, n)
      /\ \A k \in 1..n : ResultSeen(h, k, n + 1) <=> ResultSeen(h, k, n)
      /\ \A i \in 1..n : Behind(h, i, n + 1) => Behind(h, i, n)
      /\ \A i \in 1..(n + 1) : i \in 1..n \/ i = n + 1
      /\ \A i \in 1..n : i \in 1..(n + 1)
    BY SeenMore
<1>1. Told(h, n, ms) /\ Buffered(h, n, acc)
    BY DEF Walked
<1>2. ~ResultSeen(h, n + 1, n + 1) /\ n + 1 \in 1..(n + 1)
    BY DEF ResultSeen, BlockTypes
<1>3. Told(h, n + 1, ms)
    BY <1>1, <1>2, ToldMore
<1>4. /\ e.ev.type = "ToolUseRecorded" => b = CallBlock(h, n + 1) /\ UseSeen(h, n + 1, n + 1)
      /\ e.ev.type # "ToolUseRecorded" => b.kind # "ToolUse" /\ ~UseSeen(h, n + 1, n + 1)
      /\ b.kind = "ToolUse" => e.ev.type = "ToolUseRecorded"
      /\ e.ev.type = "ThinkingBlockRecorded" => e.ev.type # "ToolUseRecorded"
    BY <1>2 DEF KindOf, CallBlock, Block, UseSeen, BlockTypes
<1>5. \A i \in 1..n : CallBlock(h, i) # CallBlock(h, n + 1) /\ CallBlock(h, i).kind = "ToolUse"
    <2>1. \A i : CallBlock(h, i).seq = h[i].seq /\ CallBlock(h, i).kind = "ToolUse"
        BY DEF CallBlock, Block
    <2>2. \A i \in 1..n : h[i].seq # h[n + 1].seq
        BY <1>0, <1>2
    <2> QED
        BY <2>1, <2>2
<1>6. \A x \in ToSet(next.buf.thinking) : x.kind # "ToolUse"
    BY <1>1, <1>4 DEF Buffered
<1>7. Calls(h, n + 1, next.buf.body)
    <2>1. Calls(h, n + 1, acc.buf.body)
        BY <1>1, CallsMore DEF Buffered
    <2> QED
        BY <1>2, <1>4, <2>1 DEF Calls
<1>8. \A i \in 1..n : CallBlock(h, i) \in ToSet(next.buf.body) <=> CallBlock(h, i) \in ToSet(acc.buf.body)
    BY <1>4, <1>5
<1>9. ASSUME NEW i \in 1..n
      PROVE  (\E k \in i + 1..n + 1 : ResultSeen(h, k, n + 1)) <=> (\E k \in i + 1..n : ResultSeen(h, k, n))
    <2>1. \A k \in i + 1..n + 1 : k \in i + 1..n \/ k = n + 1
        OBVIOUS
    <2>2. \A k \in i + 1..n : k \in 1..n /\ k \in i + 1..n + 1
        OBVIOUS
    <2> QED
        BY <1>0, <1>2, <2>1, <2>2
<1>10. n + 1 + 1..n + 1 = {}
    OBVIOUS
<1>11. ASSUME NEW i \in 1..(n + 1), CallBlock(h, i) \in ToSet(next.buf.body)
      PROVE  \A k \in i + 1..n + 1 : ~ResultSeen(h, k, n + 1)
    <2>1. CASE i \in 1..n
        BY <1>1, <1>8, <1>9, <1>11, <2>1 DEF Buffered
    <2>2. CASE i = n + 1
        BY <1>10, <2>2
    <2> QED
        BY <1>0, <2>1, <2>2
<1>12. ASSUME NEW i \in 1..(n + 1), UseSeen(h, i, n + 1), Behind(h, i, n + 1)
      PROVE  /\ ~\E k \in i + 1..n + 1 : ResultSeen(h, k, n + 1)
             /\ CallBlock(h, i) \in ToSet(next.buf.body)
             /\ \A m \in DOMAIN ms : ~Holds(ms, m, CallBlock(h, i))
    <2>1. CASE i \in 1..n
        <3>1. UseSeen(h, i, n) /\ Behind(h, i, n)
            BY <1>0, <1>12, <2>1
        <3>2. \A k \in i + 1..n : h[k].ev.type # "ToolResultRecorded"
            <4>1. \A k \in i + 1..n : k \in i + 1..n + 1 /\ n + 1 \in i + 1..n + 1 /\ k < n + 1
                BY <2>1
            <4> QED
                BY <1>12, <4>1 DEF Behind
        <3>3. ~\E k \in i + 1..n : ResultSeen(h, k, n)
            BY <3>2 DEF ResultSeen
        <3> QED
            BY <1>1, <1>8, <1>9, <2>1, <3>1, <3>3 DEF Buffered
    <2>2. CASE i = n + 1
        <3>1. e.ev.type = "ToolUseRecorded" /\ b = CallBlock(h, i)
            BY <1>4, <1>12, <2>2
        <3>2. CallBlock(h, i) \in ToSet(next.buf.body)
            BY <1>4, <3>1
        <3>3. ASSUME NEW m \in DOMAIN ms, Holds(ms, m, CallBlock(h, i))
              PROVE  FALSE
            <4>1. CallBlock(h, i).kind = "ToolUse"
                BY DEF CallBlock, Block
            <4>2. Calls(h, n, ms[m].content) /\ CallBlock(h, i) \in ToSet(ms[m].content)
                BY <1>1, <3>3 DEF Told, Holds
            <4>3. \E k \in 1..n : CallBlock(h, i) = CallBlock(h, k)
                BY <4>1, <4>2 DEF Calls
            <4> QED
                BY <1>5, <2>2, <4>3
        <3> QED
            BY <1>10, <2>2, <3>2, <3>3
    <2> QED
        BY <1>0, <2>1, <2>2
<1> HIDE DEF ms
<1> QED
    BY <1>3, <1>6, <1>7, <1>11, <1>12 DEF Walked, Buffered, ms

\* A message that holds no call, behind the assistant's.
LEMMA AloneTold ==
    ASSUME NEW S, NEW ms \in Messages(S), NEW M \in [role : Roles, content : Seq(S)],
           NEW h, NEW n \in Nat, Told(h, n, ms), \A b \in ToSet(M.content) : b.kind # "ToolUse"
    PROVE  /\ M.role # "tool" => Told(h, n, Append(ms, M))
           /\ \A i \in 1..n : \A m \in DOMAIN Append(ms, M) :
                  Holds(Append(ms, M), m, CallBlock(h, i)) <=> m \in DOMAIN ms /\ Holds(ms, m, CallBlock(h, i))
<1> DEFINE L == Len(ms)
           all == Append(ms, M)
<1>1. /\ L \in Nat /\ DOMAIN ms = 1..L /\ Len(all) = L + 1 /\ DOMAIN all = 1..(L + 1)
      /\ (\A j \in 1..L : all[j] = ms[j]) /\ all[L + 1] = M
    BY MoreMessages
<1> HIDE DEF L, all
<1>2. \A j \in 1..(L + 1) : j \in 1..L \/ j = L + 1
    BY <1>1
<1>3. \A i : CallBlock(h, i).kind = "ToolUse"
    BY DEF CallBlock, Block
<1>4. /\ \A m \in 1..L : \A x : Holds(all, m, x) <=> Holds(ms, m, x)
      /\ \A i : ~Holds(all, L + 1, CallBlock(h, i))
      /\ \A m \in 1..L : \A k \in 1..L : ToolsBetween(all, m, k) <=> ToolsBetween(ms, m, k)
    <2>1. \A m \in 1..L : m \in 1..(L + 1)
        BY <1>1
    <2>2. \A m \in 1..L : \A k \in 1..L : \A j \in m + 1..k : j \in 1..L
        BY <1>1
    <2> QED
        BY <1>1, <1>3, <2>1, <2>2 DEF Holds, ToolsBetween
<1>5. ASSUME M.role # "tool"
      PROVE  Told(h, n, all)
    <2>1. \A m \in DOMAIN all : Calls(h, n, all[m].content)
        <3>1. Calls(h, n, M.content)
            BY DEF Calls
        <3> QED
            BY <1>1, <1>2, <3>1 DEF Told
    <2>2. ResultsTold(h, n, all)
        <3> SUFFICES ASSUME NEW m \in DOMAIN all, all[m].role = "tool"
                     PROVE  \E k \in 1..n :
                                /\ ResultSeen(h, k, n) /\ all[m].content = Reply(h, k)
                                /\ \A i \in 1..k - 1 : UseSeen(h, i, n) /\ Behind(h, i, k) =>
                                      \E l \in 1..m - 1 : Holds(all, l, CallBlock(h, i)) /\ ToolsBetween(all, l, m)
            BY DEF ResultsTold
        <3>1. m \in 1..L /\ all[m] = ms[m]
            BY <1>1, <1>2, <1>5
        <3>2. PICK k \in 1..n :
                  /\ ResultSeen(h, k, n) /\ ms[m].content = Reply(h, k)
                  /\ \A i \in 1..k - 1 : UseSeen(h, i, n) /\ Behind(h, i, k) =>
                        \E l \in 1..m - 1 : Holds(ms, l, CallBlock(h, i)) /\ ToolsBetween(ms, l, m)
            BY <1>1, <3>1 DEF Told, ResultsTold
        <3>3. \A l \in 1..m - 1 : l \in 1..L
            BY <1>1, <3>1
        <3> QED
            BY <1>4, <3>1, <3>2, <3>3
    <2>3. CallsTold(h, n, all)
        <3> SUFFICES ASSUME NEW m \in DOMAIN all, NEW k \in 1..n, NEW i \in 1..k - 1,
                            UseSeen(h, i, n), ResultSeen(h, k, n), Behind(h, i, k), Holds(all, m, CallBlock(h, i))
                     PROVE  \E j \in m + 1..Len(all) : all[j].content = Reply(h, k) /\ ToolsBetween(all, m, j)
            BY DEF CallsTold
        <3>1. m \in 1..L /\ Holds(ms, m, CallBlock(h, i))
            BY <1>1, <1>2, <1>4
        <3>2. PICK j \in m + 1..L : ms[j].content = Reply(h, k) /\ ToolsBetween(ms, m, j)
            BY <1>1, <3>1 DEF Told, CallsTold, L
        <3>3. j \in 1..L /\ j \in m + 1..(L + 1)
            BY <1>1, <3>1
        <3> QED
            BY <1>1, <1>4, <3>1, <3>2, <3>3
    <2> QED
        BY <2>1, <2>2, <2>3 DEF Told
<1>6. \A i \in 1..n : \A m \in DOMAIN all :
          Holds(all, m, CallBlock(h, i)) <=> m \in DOMAIN ms /\ Holds(ms, m, CallBlock(h, i))
    BY <1>1, <1>2, <1>4 DEF Holds
<1> QED
    BY <1>5, <1>6 DEF all

\* Past an event that ends the assistant's message and is no result.
LEMMA WalkUser ==
    ASSUME NEW S, NEW acc \in Accs(S), NEW h, NEW n \in Nat, Walked(h, n, acc), NEW next,
           next.buf = NoBuffer, h[n + 1].ev.type \notin RoundTypes,
           \/ next.msgs = Flushed(acc)
           \/ \E M \in [role : Roles, content : Seq(S)] :
                  /\ next.msgs = Append(Flushed(acc), M)
                  /\ M.role # "tool" /\ \A b \in ToSet(M.content) : b.kind # "ToolUse"
    PROVE  Walked(h, n + 1, next)
<1>1. /\ Told(h, n, Flushed(acc)) /\ Flushed(acc) \in Messages(S)
    BY FlushTold, FlushIs DEF Walked
<1>2. Told(h, n, next.msgs)
    <2> DEFINE ms == Flushed(acc)
    <2> HIDE DEF ms
    <2>1. ms \in Messages(S) /\ Told(h, n, ms)
        BY <1>1 DEF ms
    <2>2. ASSUME NEW M \in [role : Roles, content : Seq(S)], M.role # "tool",
                 \A b \in ToSet(M.content) : b.kind # "ToolUse"
          PROVE  Told(h, n, Append(ms, M))
        BY <2>1, <2>2, AloneTold
    <2> QED
        BY <2>1, <2>2 DEF ms
<1>3. ~ResultSeen(h, n + 1, n + 1) /\ ~UseSeen(h, n + 1, n + 1)
    BY DEF ResultSeen, UseSeen, RoundTypes, BlockTypes
<1>4. Told(h, n + 1, next.msgs)
    BY <1>2, <1>3, ToldMore
<1>5. ToSet(next.buf.body) = {} /\ ToSet(next.buf.thinking) = {}
    BY DEF NoBuffer, ToSet
<1>6. \A i \in 1..(n + 1) : ~(UseSeen(h, i, n + 1) /\ Behind(h, i, n + 1))
    BY <1>3, SeenMore
<1> QED
    BY <1>4, <1>5, <1>6 DEF Walked, Buffered, Calls

\* Past a result.
LEMMA WalkResult ==
    ASSUME NEW S, NEW acc \in Accs(S), NEW h, NEW n \in Nat, Walked(h, n, acc), NEW next,
           next.buf = NoBuffer, ResultSeen(h, n + 1, n + 1),
           NEW M \in [role : Roles, content : Seq(S)], M.role = "tool", M.content = Reply(h, n + 1),
           next.msgs = Append(Flushed(acc), M)
    PROVE  Walked(h, n + 1, next)
<1> DEFINE ms == Flushed(acc)
           all == Append(ms, M)
           L == Len(ms)
<1>1. /\ Told(h, n, ms) /\ ms \in Messages(S)
      /\ \A i \in 1..n : UseSeen(h, i, n) /\ Behind(h, i, n) => Settled(h, i, ms)
    BY FlushTold, FlushIs DEF Walked
<1> HIDE DEF ms
<1>2. /\ L \in Nat /\ DOMAIN ms = 1..L /\ Len(all) = L + 1 /\ DOMAIN all = 1..(L + 1)
      /\ (\A j \in 1..L : all[j] = ms[j]) /\ all[L + 1] = M
    BY <1>1, MoreMessages
<1>3. \A b \in ToSet(M.content) : b.kind # "ToolUse"
    <2>1. ToSet(M.content) = {Block("ToolResult", h[n + 1])}
        BY DEF Reply, ToSet
    <2> QED
        BY <2>1 DEF Block
<1>4. \A i \in 1..n : \A m \in 1..(L + 1) :
          Holds(all, m, CallBlock(h, i)) <=> m \in 1..L /\ Holds(ms, m, CallBlock(h, i))
    BY <1>1, <1>2, <1>3, AloneTold
<1> HIDE DEF L, all
<1>5. /\ \A i \in 1..n : UseSeen(h, i, n + 1) <=> UseSeen(h, i, n)
      /\ \A k \in 1..n : ResultSeen(h, k, n + 1) <=> ResultSeen(h, k, n)
      /\ \A i \in 1..n : Behind(h, i, n + 1) => Behind(h, i, n)
      /\ \A i \in 1..(n + 1) : i \in 1..n \/ i = n + 1
      /\ \A i \in 1..n : i \in 1..(n + 1)
    BY SeenMore
<1>6. \A j \in 1..(L + 1) : j \in 1..L \/ j = L + 1
    BY <1>2
<1>7. /\ \A m \in 1..L : \A k \in 1..L : ToolsBetween(ms, m, k) => ToolsBetween(all, m, k)
      /\ \A m \in 1..L : ToolsBetween(ms, m, L) => ToolsBetween(all, m, L + 1)
      /\ ToolsBetween(all, L + 1, L + 1)
    <2>1. \A m \in 1..L : \A k \in 1..L : \A j \in m + 1..k : j \in 1..L
        BY <1>2
    <2>2. \A m \in 1..L : \A j \in m + 1..L + 1 : j \in m + 1..L \/ j = L + 1
        BY <1>2
    <2>3. \A m \in 1..L : \A j \in m + 1..L : j \in 1..L
        BY <1>2
    <2>4. L + 1 + 1..L + 1 = {}
        BY <1>2
    <2> QED
        BY <1>2, <2>1, <2>2, <2>3, <2>4 DEF ToolsBetween
<1>8. ASSUME NEW i \in 1..n, UseSeen(h, i, n + 1), Behind(h, i, n + 1)
      PROVE  /\ Settled(h, i, all)
             /\ \E l \in 1..L : Holds(all, l, CallBlock(h, i)) /\ ToolsBetween(all, l, L + 1)
    <2>1. Settled(h, i, ms)
        BY <1>1, <1>5, <1>8
    <2>2. PICK l \in 1..L : Holds(ms, l, CallBlock(h, i)) /\ ToolsBetween(ms, l, L)
        BY <1>2, <2>1 DEF Settled, L
    <2>3. l \in 1..(L + 1)
        BY <1>2
    <2>4. Holds(all, l, CallBlock(h, i)) /\ ToolsBetween(all, l, L + 1)
        BY <1>4, <1>7, <2>2, <2>3
    <2>5. ASSUME NEW m \in 1..(L + 1), Holds(all, m, CallBlock(h, i))
          PROVE  ToolsBetween(all, m, L + 1)
        <3>1. m \in 1..L /\ Holds(ms, m, CallBlock(h, i))
            BY <1>4, <2>5
        <3>2. ToolsBetween(ms, m, L)
            BY <1>2, <2>1, <3>1 DEF Settled, L
        <3> QED
            BY <1>7, <3>1, <3>2
    <2> QED
        BY <1>2, <2>3, <2>4, <2>5 DEF Settled
<1>9. \A m \in DOMAIN all : Calls(h, n + 1, all[m].content)
    <2>1. Calls(h, n + 1, M.content)
        BY <1>3 DEF Calls
    <2>2. \A m \in 1..L : Calls(h, n + 1, ms[m].content)
        BY <1>1, <1>2, CallsMore DEF Told
    <2> QED
        BY <1>2, <1>6, <2>1, <2>2
<1>10. ResultsTold(h, n + 1, all)
    <2> SUFFICES ASSUME NEW m \in DOMAIN all, all[m].role = "tool"
                 PROVE  \E k \in 1..(n + 1) :
                            /\ ResultSeen(h, k, n + 1) /\ all[m].content = Reply(h, k)
                            /\ \A i \in 1..k - 1 : UseSeen(h, i, n + 1) /\ Behind(h, i, k) =>
                                  \E l \in 1..m - 1 : Holds(all, l, CallBlock(h, i)) /\ ToolsBetween(all, l, m)
        BY DEF ResultsTold
    <2>1. CASE m \in 1..L
        <3>1. PICK k \in 1..n :
                  /\ ResultSeen(h, k, n) /\ ms[m].content = Reply(h, k)
                  /\ \A i \in 1..k - 1 : UseSeen(h, i, n) /\ Behind(h, i, k) =>
                        \E l \in 1..m - 1 : Holds(ms, l, CallBlock(h, i)) /\ ToolsBetween(ms, l, m)
            BY <1>1, <1>2, <2>1 DEF Told, ResultsTold
        <3>2. \A l \in 1..m - 1 : l \in 1..L /\ l \in 1..(L + 1)
            BY <1>2, <2>1
        <3>3. \A i \in 1..k - 1 : i \in 1..n
            OBVIOUS
        <3> QED
            BY <1>2, <1>4, <1>5, <1>7, <2>1, <3>1, <3>2, <3>3
    <2>2. CASE m = L + 1
        <3>1. n + 1 \in 1..(n + 1) /\ n + 1 - 1 = n /\ m - 1 = L
            BY <1>2, <2>2
        <3> QED
            BY <1>2, <1>8, <2>2, <3>1
    <2> QED
        BY <1>2, <1>6, <2>1, <2>2
<1>11. CallsTold(h, n + 1, all)
    <2> SUFFICES ASSUME NEW m \in DOMAIN all, NEW k \in 1..(n + 1), NEW i \in 1..k - 1,
                        UseSeen(h, i, n + 1), ResultSeen(h, k, n + 1), Behind(h, i, k), Holds(all, m, CallBlock(h, i))
                 PROVE  \E j \in m + 1..Len(all) : all[j].content = Reply(h, k) /\ ToolsBetween(all, m, j)
        BY DEF CallsTold
    <2>0. i \in 1..n /\ m \in 1..L /\ Holds(ms, m, CallBlock(h, i))
        <3>1. i \in 1..n
            OBVIOUS
        <3> QED
            BY <1>2, <1>4, <3>1
    <2>1. CASE k \in 1..n
        <3>1. UseSeen(h, i, n) /\ ResultSeen(h, k, n)
            BY <1>5, <2>0, <2>1
        <3>2. PICK j \in m + 1..L : ms[j].content = Reply(h, k) /\ ToolsBetween(ms, m, j)
            BY <1>1, <1>2, <2>0, <2>1, <3>1 DEF Told, CallsTold, L
        <3>3. j \in 1..L /\ j \in m + 1..(L + 1)
            BY <1>2, <2>0
        <3> QED
            BY <1>2, <1>7, <2>0, <3>2, <3>3
    <2>2. CASE k = n + 1
        <3>1. Settled(h, i, all)
            BY <1>8, <2>0, <2>2
        <3>2. ToolsBetween(all, m, L + 1) /\ L + 1 \in m + 1..(L + 1)
            BY <1>2, <2>0, <3>1 DEF Settled
        <3> QED
            BY <1>2, <2>2, <3>2
    <2> QED
        BY <1>5, <2>1, <2>2
<1>12. ToSet(next.buf.body) = {} /\ ToSet(next.buf.thinking) = {}
    BY DEF NoBuffer, ToSet
<1>13. ASSUME NEW i \in 1..(n + 1), UseSeen(h, i, n + 1), Behind(h, i, n + 1)
       PROVE  (\E k \in i + 1..n + 1 : ResultSeen(h, k, n + 1)) /\ Settled(h, i, all)
    <2>1. i # n + 1
        BY <1>13 DEF UseSeen, ResultSeen
    <2>2. i \in 1..n /\ n + 1 \in i + 1..n + 1
        BY <2>1
    <2> QED
        BY <1>8, <1>13, <2>2
<1> QED
    BY <1>9, <1>10, <1>11, <1>12, <1>13 DEF Walked, Told, Buffered, Calls, all, ms

\* The elements of a sequence made longer by one.
LEMMA AppendSet ==
    ASSUME NEW S, NEW s \in Seq(S), NEW x \in S
    PROVE  ToSet(Append(s, x)) = ToSet(s) \cup {x}
<1>1. /\ DOMAIN Append(s, x) = DOMAIN s \cup {Len(s) + 1}
      /\ \A i \in DOMAIN s : Append(s, x)[i] = s[i]
      /\ Append(s, x)[Len(s) + 1] = x
    OBVIOUS
<1> QED
    BY <1>1 DEF ToSet

\* One more event of the walk.
LEMMA WalkStep ==
    ASSUME NEW S, NEW acc \in Accs(S), NEW h, NEW n \in Nat, \A i \in 1..(n + 1) : h[i].seq = i - 1,
           \A kind \in Kinds : Block(kind, h[n + 1]) \in S, Walked(h, n, acc)
    PROVE  LET next == IF Visible(h, n + 1) THEN Step(acc, h[n + 1]) ELSE acc
           IN  next \in Accs(S) /\ Walked(h, n + 1, next)
<1> DEFINE e == h[n + 1]
           type == e.ev.type
           next == Step(acc, e)
           b == Block(KindOf(e), e)
           M == Message(RoleOf(e), <<b>>)
<1>0. n + 1 \in 1..(n + 1)
    OBVIOUS
<1>a. b \in S /\ <<b>> \in Seq(S) /\ RoleOf(e) \in Roles
    <2>1. KindOf(e) \in Kinds /\ RoleOf(e) \in Roles
        BY DEF KindOf, Kinds, RoleOf, Roles
    <2>2. b \in S
        BY <2>1
    <2> HIDE DEF b
    <2> QED
        BY <2>1, <2>2
<1>b. M \in [role : Roles, content : Seq(S)] /\ M.role = RoleOf(e) /\ M.content = <<b>>
    <2> HIDE DEF b, e
    <2> DEFINE role == RoleOf(e)
               blocks == <<b>>
    <2>1. role \in Roles /\ blocks \in Seq(S)
        BY <1>a
    <2> HIDE DEF role, blocks
    <2>2. /\ Message(role, blocks) \in [role : Roles, content : Seq(S)]
          /\ Message(role, blocks).role = role /\ Message(role, blocks).content = blocks
        BY <2>1, MessageIs
    <2> QED
        BY <2>2 DEF role, blocks
<1>c. b.kind = KindOf(e)
    BY DEF Block
<1>1. CASE ~Visible(h, n + 1)
    <2>1. ~ResultSeen(h, n + 1, n + 1) /\ ~UseSeen(h, n + 1, n + 1)
        BY <1>1 DEF ResultSeen, UseSeen
    <2> QED
        BY <1>1, <2>1, WalkQuiet
<1>2. CASE Visible(h, n + 1) /\ type \in BlockTypes
    <2>1. /\ next \in Accs(S) /\ next.msgs = acc.msgs
          /\ next.buf.thinking = IF type = "ThinkingBlockRecorded" THEN Append(acc.buf.thinking, b) ELSE acc.buf.thinking
          /\ next.buf.body = IF type = "ThinkingBlockRecorded" THEN acc.buf.body ELSE Append(acc.buf.body, b)
        BY <1>2, StepBlock
    <2>2. acc.buf.thinking \in Seq(S) /\ acc.buf.body \in Seq(S)
        BY DEF Accs
    <2>3. /\ ToSet(Append(acc.buf.thinking, b)) = ToSet(acc.buf.thinking) \cup {b}
          /\ ToSet(Append(acc.buf.body, b)) = ToSet(acc.buf.body) \cup {b}
        <3> HIDE DEF b
        <3>1. \A s \in Seq(S) : ToSet(Append(s, b)) = ToSet(s) \cup {b}
            BY <1>a, AppendSet
        <3> QED
            BY <1>a, <2>2, <3>1
    <2> HIDE DEF next
    <2>4. Walked(h, n + 1, next)
        BY <1>2, <2>1, <2>3, WalkBlock
    <2> QED
        BY <1>2, <2>1, <2>4 DEF next
<1>3. CASE Visible(h, n + 1) /\ (type \in Alone \/ IsSummary(e))
    <2>1. next \in Accs(S) /\ next.buf = NoBuffer /\ next.msgs = Append(Flushed(acc), M)
        <3>1. /\ Step(acc, e) \in Accs(S) /\ Step(acc, e).buf = NoBuffer
              /\ Step(acc, e).msgs = Append(Flushed(acc), Message(RoleOf(e), <<Block(KindOf(e), e)>>))
            <4>1. e.ev.type \in Alone \/ IsSummary(e)
                BY <1>3
            <4>2. \A kind \in Kinds : Block(kind, e) \in S
                OBVIOUS
            <4> HIDE DEF e
            <4> QED
                BY <4>1, <4>2, StepAlone
        <3> QED
            BY <3>1
    <2> HIDE DEF next, M
    <2>2. CASE type = "ToolResultRecorded"
        <3>1. ResultSeen(h, n + 1, n + 1)
            BY <1>0, <1>3, <2>2 DEF ResultSeen
        <3>2. M.role = "tool" /\ M.content = Reply(h, n + 1)
            BY <1>b, <2>2 DEF RoleOf, KindOf, Reply
        <3>3. Walked(h, n + 1, next)
            BY <1>b, <2>1, <3>1, <3>2, WalkResult
        <3> QED
            BY <1>3, <2>1, <3>3 DEF next
    <2>3. CASE type # "ToolResultRecorded"
        <3>1. type \notin RoundTypes
            BY <1>3, <2>3 DEF Alone, IsSummary, RoundTypes, BlockTypes
        <3>2. M.role # "tool"
            BY <1>b, <2>3 DEF RoleOf
        <3>3. ToSet(M.content) = {b}
            BY <1>a, <1>b, ToSetFacts
        <3>4. b.kind # "ToolUse"
            BY <1>3, <1>c, <2>3 DEF KindOf, Alone, IsSummary
        <3>5. Walked(h, n + 1, next)
            BY <1>b, <2>1, <3>1, <3>2, <3>3, <3>4, WalkUser
        <3> QED
            BY <1>3, <2>1, <3>5 DEF next
    <2> QED
        BY <2>2, <2>3
<1>4. CASE Visible(h, n + 1) /\ type \notin Alone \cup BlockTypes /\ ~IsSummary(e)
    <2>1. /\ next \in Accs(S)
          /\ type = "ContextCompacted" => next.msgs = Flushed(acc) /\ next.buf = NoBuffer
          /\ type # "ContextCompacted" => next = acc
        BY <1>4, StepSilent
    <2> HIDE DEF next
    <2>2. CASE type = "ContextCompacted"
        <3>1. type \notin RoundTypes
            BY <2>2 DEF RoundTypes, BlockTypes
        <3>2. Walked(h, n + 1, next)
            BY <2>1, <2>2, <3>1, WalkUser
        <3> QED
            BY <1>4, <2>1, <3>2 DEF next
    <2>3. CASE type # "ContextCompacted"
        <3>1. ~ResultSeen(h, n + 1, n + 1) /\ ~UseSeen(h, n + 1, n + 1)
            BY <1>4 DEF ResultSeen, UseSeen, Alone, BlockTypes
        <3> QED
            BY <1>4, <2>1, <2>3, <3>1, WalkQuiet DEF next
    <2> QED
        BY <2>2, <2>3
<1> QED
    BY <1>1, <1>2, <1>3, <1>4

\* What a history becomes: of calls and results that are not covered, and follow each
\* other in a round, each has its match.
LEMMA WalkMatches ==
    ASSUME NEW h, NEW n \in Nat, Len(h) = n, \A i \in 1..n : h[i].seq = i - 1
    PROVE  Told(h, n, Walk(h)) /\ Len(Walk(h)) \in Nat /\ DOMAIN Walk(h) = 1..Len(Walk(h))
<1> DEFINE S == {Block(kind, h[i]) : kind \in Kinds, i \in 1..n}
<1>1. PICK f : /\ f[0] = Unwalked
               /\ \A k \in 1..n : f[k] = IF Visible(h, k) THEN Step(f[k - 1], h[k]) ELSE f[k - 1]
               /\ Walk(h) = Flush(f[n]).msgs
    BY WalkIs
<1>2. \A k \in 1..n : \A kind \in Kinds : Block(kind, h[k]) \in S
    OBVIOUS
<1> HIDE DEF S
<1> DEFINE Good(k) == f[k] \in Accs(S) /\ Walked(h, k, f[k])
           Bad == {k \in 0..n : ~Good(k)}
<1>3. Good(0)
    <2>1. Unwalked \in Accs(S)
        BY DEF Unwalked, Accs, Messages, NoBuffer
    <2>2. Unwalked.msgs = <<>> /\ Unwalked.buf.body = <<>> /\ Unwalked.buf.thinking = <<>>
        BY DEF Unwalked, NoBuffer
    <2>3. Walked(h, 0, Unwalked)
        BY <2>2 DEF Walked, Told, ResultsTold, CallsTold, Buffered, Calls, ToSet
    <2> QED
        BY <1>1, <2>1, <2>3
<1>4. ASSUME NEW k \in 1..n, Good(k - 1)
      PROVE  Good(k)
    <2>1. k - 1 \in Nat /\ (k - 1) + 1 = k /\ \A i \in 1..k : h[i].seq = i - 1
        OBVIOUS
    <2>2. \A kind \in Kinds : Block(kind, h[(k - 1) + 1]) \in S
        BY <1>2, <2>1
    <2>3. LET next == IF Visible(h, (k - 1) + 1) THEN Step(f[k - 1], h[(k - 1) + 1]) ELSE f[k - 1]
          IN  next \in Accs(S) /\ Walked(h, (k - 1) + 1, next)
        BY <1>4, <2>1, <2>2, WalkStep
    <2> QED
        BY <1>1, <2>1, <2>3
<1>5. Bad = {}
    <2> HIDE DEF Good
    <2> SUFFICES ASSUME Bad # {}
                 PROVE  FALSE
        OBVIOUS
    <2>1. Bad \in SUBSET Nat
        OBVIOUS
    <2>2. PICK k \in Bad : \A m \in Bad : k <= m
        BY <2>1, LeastNat
    <2>3. k \in 1..n /\ k - 1 \in 0..n /\ k - 1 < k
        BY <1>3, <2>2
    <2>4. Good(k - 1)
        BY <2>2, <2>3
    <2> QED
        BY <1>4, <2>2, <2>3, <2>4
<1>6. f[n] \in Accs(S) /\ Told(h, n, f[n].msgs) /\ Buffered(h, n, f[n])
    <2>1. n \in 0..n
        OBVIOUS
    <2>2. Good(n)
        BY <1>5, <2>1
    <2> QED
        BY <2>2 DEF Walked
<1>7. Walk(h) = Flushed(f[n]) /\ Walk(h) \in Messages(S)
    BY <1>1, <1>6, FlushIs
<1>8. Len(Walk(h)) \in Nat /\ DOMAIN Walk(h) = 1..Len(Walk(h))
    BY <1>7 DEF Messages
<1> QED
    BY <1>6, <1>7, <1>8, FlushTold

-----------------------------------------------------------------------------
(* The calls of a turn, on their way to a result.                          *)

Waits(pend, c) == \E m \in DOMAIN pend : pend[m].id = c

\* The call at i is one the turn t has in hand: of the message it streams, or of
\* the round it dispatches.
Open(lg, i, p, t, pend) ==
    /\ lg[i].ev.type = "ToolUseRecorded" /\ lg[i].ev.turn = t /\ Waits(pend, lg[i].ev.key)
    /\ Behind(lg, i, Len(lg))
    /\ \/ p = "stream" /\ Streamed(lg, i, Len(lg))
       \/ p = "dispatch" /\ \E c \in i + 1..Len(lg) : lg[c].ev.type = "ModelCallCompleted"

HasResult(lg, i) == \E k \in DOMAIN lg : ResultOf(lg, i, k, Len(lg))

\* No call is lost: it has its result, or the turn has it in hand, or its stream broke.
Accounted(lg, p, t, pend, ct) ==
    \A i \in DOMAIN lg : lg[i].ev.type = "ToolUseRecorded" =>
        p = "refused" \/ lg[i].ev.turn \in ct \/ HasResult(lg, i) \/ Open(lg, i, p, t, pend)

InHand(lg, p, t, pend) ==
    \A m \in DOMAIN pend : \E i \in DOMAIN lg : Open(lg, i, p, t, pend) /\ lg[i].ev.key = pend[m].id

\* The last model call has no ModelCallCompleted.
Calling(lg) == \E m \in DOMAIN lg : lg[m].ev.type = "ModelCallStarted" /\ Streamed(lg, m, Len(lg))

CutsOf(lg, p, t, ct) ==
    /\ p = "stream" => Calling(lg)
    /\ t # None /\ t \in ct => p = "fail" /\ Calling(lg)
    /\ \A u \in ct : u \in Nat /\ u < FreshTurn(EvsOf(lg))

\* The turn t is the last of the log, and not closed.
LastTurn(lg, t, n) ==
    \E b \in 1..n : /\ lg[b].ev.type = "TurnStarted" /\ lg[b].ev.turn = t
                    /\ \A k \in b + 1..n : lg[k].ev.type \notin Boundaries /\ lg[k].ev.turn = t

\* What the pass p has behind it, and what it has not read.
InPass(lg, p, n, sh) ==
    /\ p \in {"load", "stream"} \cup PassPcs => Entered(lg, Len(lg))
    /\ p \in PassPcs /\ ~sh => \A j \in n + 1..Len(lg) : lg[j].ev.type \notin BlockTypes \cup {"ToolResultRecorded"}

RoundsOK ==
    /\ PlacesOf(log)
    /\ Accounted(log, pc, turn, pending, cut)
    /\ InHand(log, pc, turn, pending)
    /\ CutsOf(log, pc, turn, cut)
    /\ turn # None => LastTurn(log, turn, Len(log))
    /\ InPass(log, pc, seen, short)

\* What is said of the first n events of a log, when it grows.
LEMMA RoundGrows ==
    ASSUME NEW lg, WellTyped(lg), NEW body, IsBody(body), NEW mg, Longer(lg, body, mg)
    PROVE  LET n == Len(lg)
               type == body.ev.type
           IN  /\ Len(mg) = n + 1 /\ n \in Nat /\ DOMAIN lg = 1..n /\ DOMAIN mg = 1..(n + 1)
               /\ (\A i \in 1..n : mg[i] = lg[i]) /\ mg[n + 1] = body
               /\ \A i \in 1..n : HasResult(lg, i) => HasResult(mg, i)
               /\ \A i \in 1..n : /\ type \in BlockTypes /\ Streamed(lg, i, n) => Streamed(mg, i, n + 1) /\ Behind(mg, i, n + 1)
                                  /\ type \in RoundTypes \ BlockTypes /\ Behind(lg, i, n) => Behind(mg, i, n + 1)
               /\ Streamed(mg, n + 1, n + 1) /\ Behind(mg, n + 1, n + 1)
               /\ Entered(lg, n) /\ type # "TurnStarted" => Entered(mg, n + 1)
               /\ type = "ContextManageEntered" => Entered(mg, n + 1)
               /\ \A t : /\ LastTurn(lg, t, n) /\ type \notin Boundaries /\ body.ev.turn = t => LastTurn(mg, t, n + 1)
                         /\ type = "TurnStarted" /\ body.ev.turn = t => LastTurn(mg, t, n + 1)
<1> DEFINE n == Len(lg)
           type == body.ev.type
<1>1. /\ Len(mg) = n + 1 /\ n \in Nat /\ DOMAIN lg = 1..n /\ DOMAIN mg = 1..(n + 1)
      /\ (\A i \in 1..n : mg[i] = lg[i]) /\ mg[n + 1] = body
    BY LogGrows
<1> HIDE DEF n
<1>2. \A i \in 1..n : \A j \in i + 1..n + 1 : (j \in 1..n /\ j \in i + 1..n) \/ j = n + 1
    BY <1>1
<1>3. \A i \in 1..n : \A j \in i + 1..n : j \in 1..n /\ mg[j] = lg[j]
    BY <1>1
<1>4. \A j \in n + 1 + 1..n + 1 : FALSE
    BY <1>1
<1>5. n + 1 \in 1..(n + 1) /\ \A i \in 1..n : i \in 1..(n + 1)
    BY <1>1
<1>6. ASSUME NEW i \in 1..n, HasResult(lg, i)
      PROVE  HasResult(mg, i)
    <2>1. PICK k \in 1..n : ResultOf(lg, i, k, n)
        BY <1>1, <1>6 DEF HasResult, n
    <2>2. k - 1 \in Nat /\ i \in 0..(k - 1) /\ k \in i + 1..n + 1 /\ \A j \in 1..(k - 1) : mg[j] = lg[j]
        BY <1>1, <2>1 DEF ResultOf
    <2>3. Behind(lg, i, k - 1) <=> Behind(mg, i, k - 1)
        BY <2>2, SamePlaces
    <2>4. ResultOf(mg, i, k, n + 1)
        BY <1>1, <2>1, <2>2, <2>3 DEF ResultOf, Use
    <2> QED
        BY <1>1, <1>5, <2>4 DEF HasResult
<1>7. ASSUME NEW i \in 1..n, type \in BlockTypes, Streamed(lg, i, n)
      PROVE  Streamed(mg, i, n + 1) /\ Behind(mg, i, n + 1)
    <2>1. \A j \in i + 1..n + 1 : mg[j].ev.type \in BlockTypes
        BY <1>1, <1>2, <1>3, <1>7 DEF Streamed
    <2>2. \A x \in BlockTypes : x \in RoundTypes /\ x # "ToolResultRecorded"
        BY DEF RoundTypes, BlockTypes
    <2> QED
        BY <2>1, <2>2 DEF Streamed, Behind
<1>8. ASSUME NEW i \in 1..n, type \in RoundTypes \ BlockTypes, Behind(lg, i, n)
      PROVE  Behind(mg, i, n + 1)
    <2>1. \A j \in i + 1..n + 1 : mg[j].ev.type \in RoundTypes
        BY <1>1, <1>2, <1>3, <1>8 DEF Behind
    <2>2. ASSUME NEW j \in i + 1..n + 1, NEW k \in i + 1..n + 1, j < k, mg[j].ev.type = "ToolResultRecorded"
          PROVE  mg[k].ev.type \notin BlockTypes
        <3>1. CASE k = n + 1
            BY <1>1, <1>8, <3>1
        <3>2. CASE k # n + 1
            <4>1. k \in i + 1..n /\ j \in i + 1..n
                BY <1>1, <2>2, <3>2
            <4> QED
                BY <1>3, <1>8, <2>2, <4>1 DEF Behind
        <3> QED
            BY <3>1, <3>2
    <2> QED
        BY <2>1, <2>2 DEF Behind
<1>9. Streamed(mg, n + 1, n + 1) /\ Behind(mg, n + 1, n + 1)
    BY <1>4 DEF Streamed, Behind
<1>10. ASSUME Entered(lg, n), type # "TurnStarted"
       PROVE  Entered(mg, n + 1)
    <2>1. PICK e \in 1..n : /\ lg[e].ev.type = "ContextManageEntered"
                            /\ \A j \in e + 1..n : lg[j].ev.type # "TurnStarted"
        BY <1>10 DEF Entered
    <2>2. \A j \in e + 1..n + 1 : mg[j].ev.type # "TurnStarted"
        BY <1>1, <1>2, <1>3, <1>10, <2>1
    <2> QED
        BY <1>1, <1>5, <2>1, <2>2 DEF Entered
<1>11. ASSUME type = "ContextManageEntered"
       PROVE  Entered(mg, n + 1)
    BY <1>1, <1>4, <1>5, <1>11 DEF Entered
<1>12. ASSUME NEW t, LastTurn(lg, t, n), type \notin Boundaries, body.ev.turn = t
       PROVE  LastTurn(mg, t, n + 1)
    <2>1. PICK b \in 1..n : /\ lg[b].ev.type = "TurnStarted" /\ lg[b].ev.turn = t
                            /\ \A k \in b + 1..n : lg[k].ev.type \notin Boundaries /\ lg[k].ev.turn = t
        BY <1>12 DEF LastTurn
    <2>2. \A k \in b + 1..n + 1 : mg[k].ev.type \notin Boundaries /\ mg[k].ev.turn = t
        BY <1>1, <1>2, <1>3, <1>12, <2>1
    <2> QED
        BY <1>1, <1>5, <2>1, <2>2 DEF LastTurn
<1>13. ASSUME NEW t, type = "TurnStarted", body.ev.turn = t
       PROVE  LastTurn(mg, t, n + 1)
    <2>1. mg[n + 1].ev.type = "TurnStarted" /\ mg[n + 1].ev.turn = t /\ n + 1 \in 1..(n + 1)
        BY <1>1, <1>5, <1>13
    <2>2. \A k \in n + 1 + 1..n + 1 : mg[k].ev.type \notin Boundaries /\ mg[k].ev.turn = t
        BY <1>4
    <2> QED
        BY <2>1, <2>2 DEF LastTurn
<1> QED
    BY <1>1, <1>6, <1>7, <1>8, <1>9, <1>10, <1>11, <1>12, <1>13 DEF n

-----------------------------------------------------------------------------
(* What a step does to a round.                                            *)

Grows(body) == IsBody(body) /\ Longer(log, body, log') /\ body.seq = Len(log)
GrowsBy(type) == \E body : Grows(body) /\ body.ev.type = type /\ body.ev.turn = turn
Keeps == turn' = turn /\ pending' = pending /\ cut' = cut

PassTypes == {"ContextCompacted", "SkillActivated", "SystemPromptInjected", "ToolFilterOverridden"}
Decided(body) ==
    /\ Grows(body) /\ body.ev.turn = turn /\ body.ev.type \in PassTypes
    /\ body.ev.type = "ContextCompacted" => Bounded(log, body.data.lo, body.data.hi, Len(log))

Starts ==
    /\ pc = "idle" /\ pc' = "init" /\ pending' = pending /\ cut' = cut
    /\ turn = None /\ turn' = FreshTurn(EvsOf(log))
    /\ \E body : Grows(body) /\ body.ev.type = "TurnStarted" /\ body.ev.turn = turn'
Enters == pc = "init" /\ pc' = "load" /\ Keeps /\ GrowsBy("ContextManageEntered")
GivesUp == pc = "init" /\ pc' = "fail" /\ Keeps /\ log' = log
Reads == pc = "load" /\ pc' = "compact" /\ Keeps /\ log' = log /\ (short' \/ seen' = Len(log))
Decides ==
    /\ pc \in PassPcs /\ pc' \in PassPcs \cup {"fail"} /\ Keeps /\ seen' = seen /\ short' = short
    /\ log' = log \/ \E body : Decided(body)
CallsModel == pc = "call" /\ pc' = "stream" /\ Keeps /\ GrowsBy("ModelCallStarted")
Streams ==
    /\ pc = "stream" /\ pc' = "stream" /\ turn' = turn /\ cut' = cut
    /\ \E body, w : /\ Grows(body) /\ body.ev.turn = turn /\ body.ev.type \in BlockTypes
                    /\ w \in Waiting /\ w.id = body.ev.key
                    /\ pending' = IF body.ev.type = "ToolUseRecorded" THEN Append(pending, w) ELSE pending
Completes ==
    /\ pc = "stream" /\ pc' = IF pending = <<>> THEN "complete" ELSE "dispatch"
    /\ Keeps /\ GrowsBy("ModelCallCompleted")
Breaks == pc = "stream" /\ pc' = "fail" /\ turn' = turn /\ pending' = <<>> /\ cut' = cut \cup {turn} /\ log' = log
Dispatches ==
    /\ pc = "dispatch" /\ pc' = "dispatch" /\ turn' = turn /\ cut' = cut
    /\ pending # <<>> /\ pending' = Tail(pending)
    /\ \E body : /\ Grows(body) /\ body.ev.turn = turn /\ body.ev.type = "ToolResultRecorded"
                 /\ body.ev.key = Head(pending).id
Rounds == pc = "dispatch" /\ pc' = "init" /\ pending = <<>> /\ Keeps /\ log' = log
Ends ==
    /\ pc \in {"complete", "fail"} /\ pc' = "idle" /\ turn' = None /\ pending' = pending /\ cut' = cut
    /\ \E body : Grows(body) /\ body.ev.type \in {"TurnCompleted", "TurnFailed"}
Updates == pc' = pc /\ Keeps /\ log' = log /\ seen' = seen /\ short' = short

\* A write of a step makes the log longer by a body in its place.
LEMMA GrowsIs ==
    ASSUME Base, Next, NEW ev, NEW data, log' = Appended(ev, data)
    PROVE  LET b == BodyOf(ev, data) IN Grows(b) /\ b.ev = ev /\ b.data = data
<1> DEFINE b == BodyOf(ev, data)
<1>1. b.seq = Len(log)
    BY DEF BodyOf
<1>2. Longer(log, b, log') /\ IsBody(b) /\ b.ev = ev /\ b.data = data
    BY NewBody
<1> HIDE DEF b
<1>3. Grows(b)
    BY <1>1, <1>2 DEF Grows
<1> QED
    BY <1>2, <1>3 DEF b

\* A write of the turn about itself.
LEMMA GrowsOf ==
    ASSUME Base, Next, NEW ev, NEW data, log' = Appended(ev, data), ev.turn = turn
    PROVE  GrowsBy(ev.type)
<1> DEFINE b == BodyOf(ev, data)
<1>1. Grows(b) /\ b.ev = ev
    BY GrowsIs
<1> HIDE DEF b
<1> QED
    BY <1>1 DEF GrowsBy

\* A compaction of a history the pass has read.
LEMMA CompactIs ==
    ASSUME Base, PlacesOf(log), Next, Compact
    PROVE  Decides
<1>1. pc = "compact" /\ pc' = "inject" /\ Keeps /\ seen' = seen /\ short' = short
    BY Zenon DEF Compact, Goto, PassVars, CallVars, Keeps
<1>2. CASE log' = log
    BY <1>1, <1>2 DEF Decides, PassPcs
<1>3. CASE log' # log
    <2>1. PICK r \in TruncateRange(History, turn, KeepFirst, KeepRecent), how \in Replacements :
              log' = Appended(Meta("ContextCompacted"), Data(r[1], r[2], <<>>, how, Inherit))
        BY <1>3, Zenon DEF Compact, TryRecord, Record, Fail
    <2> DEFINE data == Data(r[1], r[2], <<>>, how, Inherit)
               ev == Meta("ContextCompacted")
               b == BodyOf(ev, data)
    <2>2. data.lo = r[1] /\ data.hi = r[2]
        BY DEF Data
    <2>3. ev.type = "ContextCompacted" /\ ev.turn = turn
        BY MetaIs
    <2> HIDE DEF data, ev
    <2>4. Grows(b) /\ b.ev = ev /\ b.data = data
        <3>1. log' = Appended(ev, data)
            BY <2>1 DEF ev, data
        <3> QED
            BY <3>1, GrowsIs
    <2> HIDE DEF b
    <2>5. /\ seen \in Nat /\ seen <= Len(log) /\ DOMAIN History = 1..seen /\ Len(log) \in Nat
          /\ \A i \in 1..seen : i \in DOMAIN log /\ History[i] = log[i]
        BY HistoryIs DEF Base
    <2>6. \A i \in 1..seen : log[i].seq = i - 1
        BY <2>5 DEF PlacesOf, Placed
    <2>7. Bounded(log, r[1], r[2], seen)
        <3>1. KeepFirst \in BOOLEAN /\ KeepRecent \in Nat
            BY TruncateAssumption
        <3> DEFINE h == History
                   n == seen
                   t == turn
        <3>2. DOMAIN h = 1..n /\ (\A i \in 1..n : h[i] = log[i]) /\ (\A i \in 1..n : log[i].seq = i - 1) /\ n \in Nat
            BY <2>5, <2>6
        <3>3. r \in TruncateRange(h, t, KeepFirst, KeepRecent)
            OBVIOUS
        <3> HIDE DEF h, n, t
        <3>4. Bounded(log, r[1], r[2], n)
            BY <3>1, <3>2, <3>3, DroppedIsBounded
        <3> QED
            BY <3>4 DEF n
    <2>8. Bounded(log, r[1], r[2], Len(log))
        <3>1. \A i \in 1..seen : i \in 1..Len(log)
            BY <2>5
        <3> QED
            BY <2>7, <3>1 DEF Bounded
    <2>9. Decided(b)
        BY <2>2, <2>3, <2>4, <2>8 DEF Decided, PassTypes
    <2> QED
        BY <1>1, <2>9 DEF Decides, PassPcs
<1> QED
    BY <1>2, <1>3

\* The other steps of the pass.
LEMMA PassIs ==
    ASSUME Base, Next, BeginInject \/ Activate \/ Inject \/ InjectFallback \/ Override \/ ComposePrompt
    PROVE  Decides
<1>1. /\ pc \in PassPcs /\ pc' \in PassPcs \cup {"fail"} /\ Keeps /\ seen' = seen /\ short' = short
    <2>1. CASE BeginInject
        <3>1. /\ pc = "inject" /\ pc' \in {"override", "activate"} /\ Keeps /\ seen' = seen /\ short' = short
            BY <2>1 DEF BeginInject, Goto, CallVars, Keeps
        <3> QED
            BY <3>1 DEF PassPcs
    <2>2. CASE Activate
        <3>1. /\ pc = "activate" /\ pc' \in {"suffix", "activate"} /\ Keeps /\ seen' = seen /\ short' = short
            BY <2>2 DEF Activate, Goto, CallVars, Keeps
        <3> QED
            BY <3>1 DEF PassPcs
    <2>3. CASE Inject
        <3>1. /\ pc = "activate" /\ pc' \in {"suffix", "override"} /\ Keeps /\ seen' = seen /\ short' = short
            BY <2>3 DEF Inject, Goto, CallVars, Keeps
        <3> QED
            BY <3>1 DEF PassPcs
    <2>4. CASE InjectFallback
        <3>1. /\ pc = "suffix" /\ pc' = "override" /\ Keeps /\ seen' = seen /\ short' = short
            BY <2>4, Zenon DEF InjectFallback, Goto, CallVars, PassVars, Keeps
        <3> QED
            BY <3>1 DEF PassPcs
    <2>5. CASE Override
        <3>1. /\ pc = "override" /\ pc' = "compose" /\ Keeps /\ seen' = seen /\ short' = short
            BY <2>5, Zenon DEF Override, Goto, CallVars, PassVars, Keeps
        <3> QED
            BY <3>1 DEF PassPcs
    <2>6. CASE ComposePrompt
        <3>1. /\ pc = "compose" /\ pc' \in {"call", "fail"} /\ Keeps /\ seen' = seen /\ short' = short
            BY <2>6 DEF ComposePrompt, Goto, PassVars, Keeps
        <3> QED
            BY <3>1 DEF PassPcs
    <2> QED
        BY <2>1, <2>2, <2>3, <2>4, <2>5, <2>6
<1>2. \/ log' = log
      \/ \E type \in PassTypes \ {"ContextCompacted"} : \E data : log' = Appended(Meta(type), data)
    <2>0. {"SkillActivated", "SystemPromptInjected", "ToolFilterOverridden"} \subseteq PassTypes \ {"ContextCompacted"}
        BY DEF PassTypes
    <2>1. CASE BeginInject \/ ComposePrompt
        BY <2>1, Zenon DEF BeginInject, ComposePrompt
    <2>2. CASE Activate
        <3>1. log' = log \/ \E data : log' = Appended(Meta("SkillActivated"), data)
            BY <2>2, Zenon DEF Activate, Record, Fail
        <3> QED
            BY <2>0, <3>1
    <2>3. \A type, data : RecordOnce(type, data) => log' = log \/ log' = Appended(Meta(type), data)
        BY Zenon DEF RecordOnce, TryRecord, Record, Fail
    <2>4. CASE Inject \/ InjectFallback
        <3>1. \E data : RecordOnce("SystemPromptInjected", data)
            BY <2>4, Zenon DEF Inject, InjectFallback
        <3> QED
            BY <2>0, <2>3, <3>1
    <2>5. CASE Override
        <3>1. \/ \E data : RecordOnce("ToolFilterOverridden", data)
              \/ log' = IF LatestFor(log, "ToolFilterOverridden", turn) # 0 THEN log
                        ELSE Appended(Meta("ToolFilterOverridden"), NoData)
            BY <2>5, Zenon DEF Override
        <3>2. log' = log \/ \E data : log' = Appended(Meta("ToolFilterOverridden"), data)
            BY <2>3, <3>1, Zenon
        <3> QED
            BY <2>0, <3>2
    <2> QED
        BY <2>1, <2>2, <2>4, <2>5
<1>3. CASE log' = log
    BY <1>1, <1>3 DEF Decides
<1>4. CASE log' # log
    <2>0. PICK type \in PassTypes \ {"ContextCompacted"} : \E data : log' = Appended(Meta(type), data)
        BY <1>2, <1>4
    <2>1. PICK data : log' = Appended(Meta(type), data)
        BY <2>0
    <2> DEFINE ev == Meta(type)
               b == BodyOf(ev, data)
    <2>2. ev.type = type /\ ev.turn = turn
        BY MetaIs
    <2> HIDE DEF ev
    <2>3. Grows(b) /\ b.ev = ev
        <3>1. log' = Appended(ev, data)
            BY <2>1 DEF ev
        <3> QED
            BY <3>1, GrowsIs
    <2> HIDE DEF b
    <2>4. Decided(b)
        BY <2>2, <2>3 DEF Decided
    <2> QED
        BY <1>1, <2>4 DEF Decides
<1> QED
    BY <1>3, <1>4

\* The steps around the pass: the turn, its model call and its tools.
LEMMA StreamIs ==
    ASSUME Base, Next, StreamBlock
    PROVE  Streams
<1> DEFINE b == Head(reply)
           ev == IF b.kind = "ToolUseRecorded" THEN ToolUse(turn, FreshCall(Evs), "valid") ELSE Meta(b.kind)
           data == [NoData EXCEPT !.names = b.names]
           w == [id |-> ev.key, names |-> b.names]
           body == BodyOf(ev, data)
<1>1. /\ pc = "stream" /\ pc' = "stream" /\ turn' = turn /\ cut' = cut /\ reply # <<>>
      /\ log' = Appended(ev, data)
      /\ pending' = IF b.kind = "ToolUseRecorded" THEN Append(pending, w) ELSE pending
    BY Zenon DEF StreamBlock, Goto, Record
<1>2. b \in StreamedBlock
    <2>1. reply \in Seq(StreamedBlock)
        BY DEF Base, ContextTypes
    <2> QED
        BY <1>1, <2>1
<1>3. b.kind \in BlockTypes /\ b.names \in Words
    BY <1>2 DEF StreamedBlock
<1> HIDE DEF b
<1>4. ev.type = b.kind /\ ev.turn = turn /\ ev.key \in Nat
    <2>0. FreshCall(Evs) \in Nat
        BY EvsType DEF Base, ContextTypes, Evs, EvsOf
    <2>1. CASE b.kind = "ToolUseRecorded"
        BY <2>0, <2>1 DEF ToolUse, Ev
    <2>2. CASE b.kind # "ToolUseRecorded"
        <3>1. ev = Meta(b.kind)
            BY <2>2
        <3> HIDE DEF ev
        <3> QED
            BY <3>1, MetaIs
    <2> QED
        BY <2>1, <2>2
<1> HIDE DEF ev, data
<1>5. w \in Waiting /\ w.id = ev.key
    BY <1>3, <1>4 DEF Waiting
<1> HIDE DEF w
<1>6. Grows(body) /\ body.ev = ev
    BY <1>1, GrowsIs
<1> HIDE DEF body
<1> QED
    BY <1>1, <1>3, <1>4, <1>5, <1>6 DEF Streams

\* A dispatch writes the result of the call that has waited longest.
LEMMA ResultIs ==
    ASSUME Base, Next, Dispatch
    PROVE  Dispatches
<1>1. /\ pc = "dispatch" /\ pc' = "dispatch" /\ turn' = turn /\ cut' = cut
      /\ pending # <<>> /\ pending' = Tail(pending)
      /\ \E data : log' = Appended(ToolResult(turn, Head(pending).id), data)
    BY Zenon DEF Dispatch, Goto, Record
<1>2. PICK data : log' = Appended(ToolResult(turn, Head(pending).id), data)
    BY <1>1
<1> DEFINE ev == ToolResult(turn, Head(pending).id)
           b == BodyOf(ev, data)
<1>3. ev.type = "ToolResultRecorded" /\ ev.turn = turn /\ ev.key = Head(pending).id
    BY DEF ToolResult, Ev
<1> HIDE DEF ev
<1>4. Grows(b) /\ b.ev = ev
    BY <1>2, GrowsIs DEF ev
<1> HIDE DEF b
<1> QED
    BY <1>1, <1>3, <1>4 DEF Dispatches

\* Every step is of one of these kinds.
LEMMA StepKinds ==
    ASSUME Base, PlacesOf(log), Next
    PROVE  \/ Starts \/ Enters \/ GivesUp \/ Reads \/ Decides \/ CallsModel \/ Streams \/ Completes
           \/ Breaks \/ Dispatches \/ Rounds \/ Ends \/ Updates \/ Crash
<1>0. Evs = EvsOf(log)
    BY DEF Evs, EvsOf
<1>1. ASSUME NEW names \in Asked, StartTurn(names)
      PROVE  Starts
    <2> DEFINE ev == TurnStarted(turn', turn')
               data == [NoData EXCEPT !.names = names]
               b == BodyOf(ev, data)
    <2>1. /\ pc = "idle" /\ pc' = "init" /\ pending' = pending /\ cut' = cut
          /\ turn' = FreshTurn(EvsOf(log)) /\ log' = Appended(ev, data)
        BY <1>0, <1>1, Zenon DEF StartTurn, Record, CallVars
    <2>2. ev.type = "TurnStarted" /\ ev.turn = turn'
        BY DEF TurnStarted, Ev
    <2> HIDE DEF ev, data
    <2>3. Grows(b) /\ b.ev = ev
        BY <2>1, GrowsIs
    <2> HIDE DEF b
    <2>4. turn = None
        BY <2>1 DEF Base, ContextTypes, Away
    <2> QED
        BY <2>1, <2>2, <2>3, <2>4 DEF Starts
<1>2. CASE Enter
    <2>1. /\ pc = "init" /\ Keeps
          /\ \/ pc' = "fail" /\ log' = log
             \/ pc' = "load" /\ log' = Appended(Meta("ContextManageEntered"), NoData)
        BY <1>2, Zenon DEF Enter, Goto, Record, PassVars, CallVars, Keeps
    <2>2. Meta("ContextManageEntered").type = "ContextManageEntered" /\ Meta("ContextManageEntered").turn = turn
        BY MetaIs
    <2>3. log' = Appended(Meta("ContextManageEntered"), NoData) => GrowsBy("ContextManageEntered")
        BY <2>2, GrowsOf
    <2> QED
        BY <2>1, <2>3 DEF Enters, GivesUp
<1>3. CASE Load
    <2>1. pc = "load" /\ pc' = "compact" /\ Keeps /\ log' = log /\ (seen' = Len(log) \/ short' = TRUE)
        BY <1>3, Zenon DEF Load, Goto, CallVars, Keeps
    <2> QED
        BY <2>1 DEF Reads
<1>4. CASE CallModel
    <2>1. pc = "call" /\ pc' = "stream" /\ Keeps /\ log' = Appended(ModelCallStarted(turn), NoData)
        BY <1>4, Zenon DEF CallModel, Goto, Record, Keeps
    <2>2. ModelCallStarted(turn).type = "ModelCallStarted" /\ ModelCallStarted(turn).turn = turn
        BY DEF ModelCallStarted, Ev
    <2> QED
        BY <2>1, <2>2, GrowsOf DEF CallsModel
<1>5. CASE StreamEnd
    <2>1. /\ pc = "stream"
          /\ \/ /\ Keeps /\ pc' = IF pending = <<>> THEN "complete" ELSE "dispatch"
                /\ \E stop : log' = Appended(ModelCallCompleted(turn, stop), NoData)
             \/ pc' = "fail" /\ cut' = cut \cup {turn} /\ pending' = <<>> /\ log' = log /\ turn' = turn
        BY <1>5, Zenon DEF StreamEnd, Goto, Record, Keeps
    <2>2. \A stop : ModelCallCompleted(turn, stop).type = "ModelCallCompleted" /\ ModelCallCompleted(turn, stop).turn = turn
        BY DEF ModelCallCompleted, Ev
    <2>3. ASSUME NEW stop, log' = Appended(ModelCallCompleted(turn, stop), NoData)
          PROVE  GrowsBy("ModelCallCompleted")
        BY <2>2, <2>3, GrowsOf
    <2> QED
        BY <2>1, <2>3 DEF Completes, Breaks
<1>6. CASE Round
    BY <1>6, Zenon DEF Round, Goto, CallVars, Keeps, Rounds
<1>7. CASE EndTurn
    <2>1. /\ pc \in {"complete", "fail"} /\ pc' = "idle" /\ turn' = None /\ pending' = pending /\ cut' = cut
          /\ \E ev \in {TurnCompleted(turn), TurnFailed(turn)} : log' = Appended(ev, NoData)
        BY <1>7 DEF EndTurn, Record
    <2>2. PICK ev \in {TurnCompleted(turn), TurnFailed(turn)} : log' = Appended(ev, NoData)
        BY <2>1
    <2>3. ev.type \in {"TurnCompleted", "TurnFailed"}
        BY DEF TurnCompleted, TurnFailed, Ev
    <2>4. LET b == BodyOf(ev, NoData) IN Grows(b) /\ b.ev = ev
        BY <2>2, GrowsIs
    <2> QED
        BY <2>1, <2>3, <2>4 DEF Ends
<1>8. CASE \E spec \in Specs : Update(spec)
    BY <1>8, Zenon DEF Update, Keeps, Updates
<1> QED
    BY <1>1, <1>2, <1>3, <1>4, <1>5, <1>6, <1>7, <1>8, CompactIs, PassIs, StreamIs, ResultIs, Zenon DEF Next

-----------------------------------------------------------------------------
(* The rounds of a session, over a step.                                   *)

\* The log and the turn, of their types.
LEMMA LogIs ==
    ASSUME Base
    PROVE  WellTyped(log) /\ Len(log) \in Nat /\ DOMAIN log = 1..Len(log) /\ turn \in Nat
BY EvsType DEF Base, ContextTypes

\* Every body stands in its place.
LEMMA PlacesStep ==
    ASSUME Base, RoundsOK, Next
    PROVE  PlacesOf(log')
<1> DEFINE n == Len(log)
           Held == {"ToolResultRecorded", "ModelCallCompleted", "ContextCompacted"} \cup BlockTypes
<1>1. WellTyped(log) /\ n \in Nat /\ DOMAIN log = 1..n /\ PlacesOf(log)
    BY LogIs DEF RoundsOK
<1>2. CASE log' = log
    BY <1>1, <1>2
<1>3. ASSUME NEW body, Grows(body), Placed(log, body, n)
      PROVE  PlacesOf(log')
    BY <1>1, <1>3, PlacesGrow DEF Grows
<1>4. ASSUME NEW body, Grows(body), body.ev.type \notin Held
      PROVE  Placed(log, body, n)
    BY <1>4 DEF Placed, Grows
<1>5. CASE Starts
    <2>1. PICK body : Grows(body) /\ body.ev.type = "TurnStarted"
        BY <1>5 DEF Starts
    <2> QED
        BY <1>3, <1>4, <2>1 DEF BlockTypes
<1>6. CASE Enters
    <2>1. PICK body : Grows(body) /\ body.ev.type = "ContextManageEntered"
        BY <1>6 DEF Enters, GrowsBy
    <2>2. body.ev.type \notin Held
        BY <2>1 DEF BlockTypes
    <2>3. Placed(log, body, n)
        BY <1>4, <2>1, <2>2
    <2> QED
        BY <1>3, <2>1, <2>3
<1>7. CASE Decides /\ log' # log
    <2>1. PICK body : Decided(body)
        BY <1>7 DEF Decides
    <2>2. CASE body.ev.type = "ContextCompacted"
        <3>1. Placed(log, body, n)
            BY <2>1, <2>2 DEF Decided, Grows, Placed, BlockTypes
        <3> QED
            BY <1>3, <2>1, <3>1 DEF Decided
    <2>3. CASE body.ev.type # "ContextCompacted"
        <3>1. body.ev.type \notin Held /\ Grows(body)
            BY <2>1, <2>3 DEF Decided, PassTypes, BlockTypes
        <3> QED
            BY <1>3, <1>4, <3>1
    <2> QED
        BY <2>2, <2>3
<1>8. CASE CallsModel
    <2>1. PICK body : Grows(body) /\ body.ev.type = "ModelCallStarted"
        BY <1>8 DEF CallsModel, GrowsBy
    <2> QED
        BY <1>3, <1>4, <2>1 DEF BlockTypes
<1>9. CASE Streams
    <2>1. PICK body : Grows(body) /\ body.ev.type \in BlockTypes
        BY <1>9 DEF Streams
    <2>2. Entered(log, n)
        BY <1>9 DEF RoundsOK, InPass, Streams
    <2>3. Placed(log, body, n)
        BY <2>1, <2>2 DEF Placed, Grows, BlockTypes
    <2> QED
        BY <1>3, <2>1, <2>3
<1>10. CASE Completes
    <2>1. PICK body : Grows(body) /\ body.ev.type = "ModelCallCompleted"
        BY <1>10 DEF Completes, GrowsBy
    <2>2. Calling(log)
        BY <1>10 DEF RoundsOK, CutsOf, Completes
    <2>3. Placed(log, body, n)
        BY <1>1, <2>1, <2>2 DEF Placed, Grows, BlockTypes, Calling
    <2> QED
        BY <1>3, <2>1, <2>3
<1>11. CASE Dispatches
    <2>1. PICK body : Grows(body) /\ body.ev.type = "ToolResultRecorded" /\ body.ev.key = Head(pending).id
        BY <1>11 DEF Dispatches
    <2>2. 1 \in DOMAIN pending /\ pending[1] = Head(pending)
        <3>1. pending \in Seq(Waiting) /\ pending # <<>>
            BY <1>11 DEF Base, ContextTypes, Dispatches
        <3> QED
            BY <3>1
    <2>3. PICK i \in DOMAIN log : Open(log, i, pc, turn, pending) /\ log[i].ev.key = pending[1].id
        BY <2>2, Zenon DEF RoundsOK, InHand
    <2>4. i \in 1..n /\ Use(log, i, body.ev.key) /\ Behind(log, i, n)
        BY <1>1, <2>1, <2>2, <2>3 DEF Open, Use
    <2>5. Placed(log, body, n)
        BY <2>1, <2>4 DEF Placed, Grows, BlockTypes
    <2> QED
        BY <1>3, <2>1, <2>5
<1>12. CASE Ends
    <2>1. PICK body : Grows(body) /\ body.ev.type \in {"TurnCompleted", "TurnFailed"}
        BY <1>12 DEF Ends
    <2> QED
        BY <1>3, <1>4, <2>1 DEF BlockTypes
<1>13. CASE GivesUp \/ Reads \/ Breaks \/ Rounds \/ Updates
    BY <1>2, <1>13 DEF GivesUp, Reads, Breaks, Rounds, Updates
<1>14. CASE Crash
    BY <1>2, <1>14, CrashIs
<1> QED
    BY <1>1, <1>2, <1>5, <1>6, <1>7, <1>8, <1>9, <1>10, <1>11, <1>12, <1>13, <1>14, StepKinds

\* What a pass has behind it, over a step.
LEMMA PassStep ==
    ASSUME Base, RoundsOK, Next
    PROVE  InPass(log', pc', seen', short')
<1> DEFINE n == Len(log)
           P == {"load", "stream"} \cup PassPcs
<1>1. WellTyped(log) /\ n \in Nat /\ DOMAIN log = 1..n /\ PlacesOf(log) /\ InPass(log, pc, seen, short)
      /\ seen \in Nat /\ seen <= n
    BY LogIs, HistoryIs DEF RoundsOK, Base
<1>2. CASE pc' \notin P
    BY <1>2 DEF InPass
<1>3. ASSUME NEW body, Grows(body)
      PROVE  /\ Len(log') = n + 1 /\ log'[n + 1] = body /\ \A j \in 1..n : log'[j] = log[j]
             /\ Entered(log, n) /\ body.ev.type # "TurnStarted" => Entered(log', n + 1)
             /\ body.ev.type = "ContextManageEntered" => Entered(log', n + 1)
    BY <1>1, <1>3, RoundGrows DEF Grows
<1>4. CASE Enters
    <2>1. PICK body : Grows(body) /\ body.ev.type = "ContextManageEntered"
        BY <1>4 DEF Enters, GrowsBy
    <2>2. Entered(log', Len(log'))
        BY <1>3, <2>1
    <2> QED
        BY <1>4, <2>2 DEF Enters, InPass, PassPcs
<1>5. CASE Reads
    <2>1. log' = log /\ pc = "load" /\ pc' = "compact" /\ (short' \/ seen' = n)
        BY <1>5 DEF Reads
    <2>2. \A j \in n + 1..n : FALSE
        BY <1>1
    <2> QED
        BY <1>1, <2>1, <2>2 DEF InPass, PassPcs
<1>6. CASE Decides
    <2>1. pc \in PassPcs /\ pc' \in PassPcs \cup {"fail"} /\ seen' = seen /\ short' = short
        BY <1>6 DEF Decides
    <2>2. CASE log' = log
        BY <1>1, <2>1, <2>2 DEF InPass, PassPcs
    <2>3. CASE log' # log
        <3>1. PICK body : Decided(body)
            BY <1>6, <2>3 DEF Decides
        <3>2. Grows(body) /\ body.ev.type \notin BlockTypes \cup {"ToolResultRecorded", "TurnStarted"}
            BY <3>1 DEF Decided, PassTypes, BlockTypes
        <3>3. Entered(log', Len(log')) /\ Len(log') = n + 1
            BY <1>1, <1>3, <2>1, <3>2 DEF InPass
        <3>4. \A j \in seen + 1..n + 1 : j \in seen + 1..n \/ j = n + 1
            BY <1>1
        <3>5. \A j \in seen + 1..n : j \in 1..n
            BY <1>1
        <3>6. ~short => \A j \in seen + 1..n + 1 : log'[j].ev.type \notin BlockTypes \cup {"ToolResultRecorded"}
            BY <1>1, <1>3, <2>1, <3>2, <3>4, <3>5 DEF InPass
        <3> QED
            BY <2>1, <3>3, <3>6 DEF InPass
    <2> QED
        BY <2>2, <2>3
<1>7. CASE CallsModel
    <2>1. PICK body : Grows(body) /\ body.ev.type = "ModelCallStarted"
        BY <1>7 DEF CallsModel, GrowsBy
    <2>2. pc = "call" /\ pc' = "stream"
        BY <1>7 DEF CallsModel
    <2>3. Entered(log', Len(log'))
        BY <1>1, <1>3, <2>1, <2>2 DEF InPass, PassPcs
    <2> QED
        BY <2>2, <2>3 DEF InPass, PassPcs
<1>8. CASE Streams
    <2>1. PICK body : Grows(body) /\ body.ev.type \in BlockTypes
        BY <1>8 DEF Streams
    <2>2. pc = "stream" /\ pc' = "stream"
        BY <1>8 DEF Streams
    <2>3. Entered(log', Len(log'))
        BY <1>1, <1>3, <2>1, <2>2 DEF InPass, BlockTypes
    <2> QED
        BY <2>2, <2>3 DEF InPass, PassPcs
<1>9. CASE Updates
    BY <1>1, <1>9 DEF Updates, InPass
<1>10. CASE Starts \/ GivesUp \/ Completes \/ Breaks \/ Dispatches \/ Rounds \/ Ends
    <2>1. pc' \in {"init", "fail", "complete", "dispatch", "idle"}
        BY <1>10 DEF Starts, GivesUp, Completes, Breaks, Dispatches, Rounds, Ends
    <2> QED
        BY <1>2, <2>1 DEF PassPcs
<1>11. CASE Crash
    <2>1. pc' \in Away \cup {"complete", "dispatch"}
        BY <1>11, CrashIs
    <2> QED
        BY <1>2, <2>1 DEF PassPcs, Away
<1> QED
    BY <1>1, <1>4, <1>5, <1>6, <1>7, <1>8, <1>9, <1>10, <1>11, StepKinds

\* The turn is the last of the log, over a step that is no crash.
LEMMA LastStep ==
    ASSUME Base, RoundsOK, Next, ~Crash, turn' # None
    PROVE  LastTurn(log', turn', Len(log'))
<1> DEFINE n == Len(log)
<1>1. WellTyped(log) /\ n \in Nat /\ DOMAIN log = 1..n /\ PlacesOf(log)
    BY LogIs DEF RoundsOK
<1>2. ASSUME NEW body, Grows(body)
      PROVE  /\ Len(log') = n + 1
             /\ \A t : /\ LastTurn(log, t, n) /\ body.ev.type \notin Boundaries /\ body.ev.turn = t => LastTurn(log', t, n + 1)
                       /\ body.ev.type = "TurnStarted" /\ body.ev.turn = t => LastTurn(log', t, n + 1)
    BY <1>1, <1>2, RoundGrows DEF Grows
<1>3. turn # None => LastTurn(log, turn, n)
    BY DEF RoundsOK
<1>4. ASSUME turn' = turn, log' = log
      PROVE  LastTurn(log', turn', Len(log'))
    BY <1>3, <1>4
<1>5. ASSUME turn' = turn, NEW body, Grows(body), body.ev.type \notin Boundaries, body.ev.turn = turn
      PROVE  LastTurn(log', turn', Len(log'))
    BY <1>2, <1>3, <1>5
<1>6. CASE Starts
    <2>1. PICK body : Grows(body) /\ body.ev.type = "TurnStarted" /\ body.ev.turn = turn'
        BY <1>6 DEF Starts
    <2> QED
        BY <1>2, <2>1
<1>7. CASE Enters \/ CallsModel \/ Completes
    <2>1. turn' = turn /\ \E type \in {"ContextManageEntered", "ModelCallStarted", "ModelCallCompleted"} : GrowsBy(type)
        BY <1>7 DEF Enters, CallsModel, Completes, Keeps
    <2>2. PICK body : /\ Grows(body) /\ body.ev.turn = turn
                      /\ body.ev.type \in {"ContextManageEntered", "ModelCallStarted", "ModelCallCompleted"}
        BY <2>1 DEF GrowsBy
    <2>3. body.ev.type \notin Boundaries
        BY <2>2 DEF Boundaries
    <2> QED
        BY <1>5, <2>1, <2>2, <2>3
<1>8. CASE Decides
    <2>1. turn' = turn /\ (log' = log \/ \E body : Decided(body))
        BY <1>8 DEF Decides, Keeps
    <2>2. ASSUME NEW body, Decided(body)
          PROVE  Grows(body) /\ body.ev.type \notin Boundaries /\ body.ev.turn = turn
        BY <2>2 DEF Decided, PassTypes, Boundaries
    <2> QED
        BY <1>4, <1>5, <2>1, <2>2
<1>9. CASE Streams
    <2>1. turn' = turn
        BY <1>9 DEF Streams
    <2>2. PICK body : Grows(body) /\ body.ev.turn = turn /\ body.ev.type \in BlockTypes
        BY <1>9 DEF Streams
    <2>3. body.ev.type \notin Boundaries
        BY <2>2 DEF BlockTypes, Boundaries
    <2> QED
        BY <1>5, <2>1, <2>2, <2>3
<1>10. CASE Dispatches
    <2>1. turn' = turn
        BY <1>10 DEF Dispatches
    <2>2. PICK body : Grows(body) /\ body.ev.turn = turn /\ body.ev.type = "ToolResultRecorded"
        BY <1>10 DEF Dispatches
    <2>3. body.ev.type \notin Boundaries
        BY <2>2 DEF Boundaries
    <2> QED
        BY <1>5, <2>1, <2>2, <2>3
<1>11. CASE GivesUp \/ Reads \/ Breaks \/ Rounds \/ Updates
    BY <1>4, <1>11 DEF GivesUp, Reads, Breaks, Rounds, Updates, Keeps
<1>12. ~Ends
    BY DEF Ends
<1> QED
    BY <1>1, <1>6, <1>7, <1>8, <1>9, <1>10, <1>11, <1>12, StepKinds

\* Whose stream broke, over a step that is no crash.
LEMMA CutsStep ==
    ASSUME Base, RoundsOK, Next, ~Crash
    PROVE  CutsOf(log', pc', turn', cut')
<1> DEFINE n == Len(log)
           F == FreshTurn(EvsOf(log))
           G == FreshTurn(EvsOf(log'))
<1>1. WellTyped(log) /\ n \in Nat /\ DOMAIN log = 1..n /\ PlacesOf(log) /\ CutsOf(log, pc, turn, cut)
    BY LogIs DEF RoundsOK
<1>2. F \in Nat /\ turn \in Nat /\ turn < F
    BY <1>1, EvsType, LogIs DEF Base, TurnsOK
<1>4. G \in Nat /\ F <= G
    <2>1. CASE log' = log
        BY <1>2, <2>1
    <2>2. CASE log' # log
        <3>1. PICK body : Recorded(body) /\ Longer(log, body, log')
            BY <2>2, StepLog
        <3>2. G = F + (IF body.ev.type = "TurnStarted" THEN 1 ELSE 0)
            <4>1. IsBody(body)
                BY <3>1 DEF Recorded
            <4> QED
                BY <1>1, <3>1, <4>1, FreshGrows
        <3> HIDE DEF F, G
        <3> QED
            BY <1>2, <3>2
    <2> QED
        BY <2>1, <2>2
<1> HIDE DEF F, G
<1>5. \A u \in cut' : u \in Nat /\ u < G
    <2>1. cut' = cut \/ cut' = cut \cup {turn}
        BY <1>1, StepKinds DEF Starts, Enters, GivesUp, Reads, Decides, CallsModel, Streams, Completes,
           Breaks, Dispatches, Rounds, Ends, Updates, Keeps
    <2>2. \A u \in cut : u \in Nat /\ u < F
        BY <1>1 DEF CutsOf, F
    <2> QED
        BY <1>2, <1>4, <2>1, <2>2
<1>6. ASSUME pc' # "stream", turn' = None \/ turn' \notin cut'
      PROVE  CutsOf(log', pc', turn', cut')
    BY <1>5, <1>6 DEF CutsOf, G
<1>7. pc # "fail" => turn = None \/ turn \notin cut
    BY <1>1 DEF CutsOf
<1>8. CASE Starts
    <2>1. pc' = "init" /\ cut' = cut /\ turn' = F
        BY <1>8 DEF Starts, F
    <2>2. F \notin cut
        BY <1>1, <1>2 DEF CutsOf, F
    <2> QED
        BY <1>6, <2>1, <2>2
<1>9. CASE Enters \/ GivesUp \/ Reads \/ Decides \/ Completes \/ Dispatches \/ Rounds
    <2>1. /\ pc \in {"init", "load", "stream", "dispatch"} \cup PassPcs
          /\ pc' \in {"load", "fail", "compact", "complete", "dispatch", "init"} \cup PassPcs
          /\ turn' = turn /\ cut' = cut
        BY <1>9 DEF Enters, GivesUp, Reads, Decides, Completes, Dispatches, Rounds, Keeps
    <2>2. pc # "fail" /\ pc' # "stream"
        BY <2>1 DEF PassPcs
    <2> QED
        BY <1>6, <1>7, <2>1, <2>2
<1>10. CASE CallsModel
    <2>1. pc = "call" /\ pc' = "stream" /\ turn' = turn /\ cut' = cut
        BY <1>10 DEF CallsModel, Keeps
    <2>2. PICK body : Grows(body) /\ body.ev.type = "ModelCallStarted"
        BY <1>10 DEF CallsModel, GrowsBy
    <2>3. /\ Len(log') = n + 1 /\ DOMAIN log' = 1..(n + 1) /\ log'[n + 1] = body
          /\ Streamed(log', n + 1, n + 1)
        BY <1>1, <2>2, RoundGrows DEF Grows
    <2>4. Calling(log')
        <3>1. n + 1 \in 1..(n + 1)
            BY <1>1
        <3> QED
            BY <2>2, <2>3, <3>1 DEF Calling
    <2> QED
        BY <1>5, <1>7, <2>1, <2>4 DEF CutsOf, G
<1>11. CASE Streams
    <2>1. pc = "stream" /\ pc' = "stream" /\ turn' = turn /\ cut' = cut
        BY <1>11 DEF Streams
    <2>2. PICK body : Grows(body) /\ body.ev.type \in BlockTypes
        BY <1>11 DEF Streams
    <2>3. PICK m \in 1..n : log[m].ev.type = "ModelCallStarted" /\ Streamed(log, m, n)
        BY <1>1, <2>1 DEF CutsOf, Calling
    <2>4. /\ Len(log') = n + 1 /\ DOMAIN log' = 1..(n + 1) /\ log'[m] = log[m]
          /\ Streamed(log', m, n + 1)
        BY <1>1, <2>2, <2>3, RoundGrows DEF Grows
    <2>5. Calling(log')
        <3>1. m \in 1..(n + 1)
            BY <1>1
        <3> QED
            BY <2>3, <2>4, <3>1 DEF Calling
    <2> QED
        BY <1>5, <1>7, <2>1, <2>5 DEF CutsOf, G
<1>12. CASE Breaks
    <2>1. pc = "stream" /\ pc' = "fail" /\ log' = log
        BY <1>12 DEF Breaks
    <2>2. Calling(log')
        BY <1>1, <2>1 DEF CutsOf
    <2> QED
        BY <1>5, <2>1, <2>2 DEF CutsOf, G
<1>13. CASE Ends
    BY <1>6, <1>13 DEF Ends
<1>14. CASE Updates
    BY <1>1, <1>14 DEF Updates, Keeps, CutsOf
<1> QED
    BY <1>1, <1>8, <1>9, <1>10, <1>11, <1>12, <1>13, <1>14, StepKinds

\* Calls and results, over a step that is no crash.
CallsKept == Accounted(log', pc', turn', pending', cut') /\ InHand(log', pc', turn', pending')

\* A step outside of a round, which leaves no call waiting.
LEMMA PlainCalls ==
    ASSUME Base, RoundsOK, pc \notin {"stream", "dispatch", "refused"}, pending' = pending, cut' = cut,
           log' = log \/ \E body : Grows(body) /\ body.ev.type # "ToolUseRecorded"
    PROVE  CallsKept
<1> DEFINE n == Len(log)
<1>1. WellTyped(log) /\ n \in Nat /\ DOMAIN log = 1..n
      /\ Accounted(log, pc, turn, pending, cut) /\ InHand(log, pc, turn, pending)
    BY LogIs DEF RoundsOK
<1>2. \A i : ~Open(log, i, pc, turn, pending)
    BY DEF Open
<1>3. \A i \in 1..n : log[i].ev.type = "ToolUseRecorded" => log[i].ev.turn \in cut \/ HasResult(log, i)
    BY <1>1, <1>2 DEF Accounted
<1>4. InHand(log', pc', turn', pending')
    <2>1. \A m \in DOMAIN pending : FALSE
        BY <1>1, <1>2 DEF InHand
    <2> QED
        BY <2>1 DEF InHand
<1>5. CASE log' = log
    BY <1>1, <1>3, <1>4, <1>5 DEF Accounted, CallsKept
<1>6. CASE \E body : Grows(body) /\ body.ev.type # "ToolUseRecorded"
    <2>1. PICK body : Grows(body) /\ body.ev.type # "ToolUseRecorded"
        BY <1>6
    <2>2. /\ DOMAIN log' = 1..(n + 1) /\ log'[n + 1] = body /\ \A i \in 1..n : log'[i] = log[i]
          /\ \A i \in 1..n : HasResult(log, i) => HasResult(log', i)
        BY <1>1, <2>1, RoundGrows DEF Grows
    <2>3. \A i \in 1..(n + 1) : i \in 1..n \/ i = n + 1
        BY <1>1
    <2> QED
        BY <1>3, <1>4, <2>1, <2>2, <2>3 DEF Accounted, CallsKept
<1> QED
    BY <1>5, <1>6

\* A block of a message: what was open stays so, a call that is streamed is.
LEMMA StreamCalls ==
    ASSUME Base, RoundsOK, Streams
    PROVE  CallsKept
<1> DEFINE n == Len(log)
           N == Len(pending)
<1>1. WellTyped(log) /\ n \in Nat /\ DOMAIN log = 1..n
      /\ Accounted(log, pc, turn, pending, cut) /\ InHand(log, pc, turn, pending)
    BY LogIs DEF RoundsOK
<1>2. pc = "stream" /\ pc' = "stream" /\ turn' = turn /\ cut' = cut
    BY DEF Streams
<1>3. PICK body, w : /\ Grows(body) /\ body.ev.turn = turn /\ body.ev.type \in BlockTypes
                     /\ w \in Waiting /\ w.id = body.ev.key
                     /\ pending' = IF body.ev.type = "ToolUseRecorded" THEN Append(pending, w) ELSE pending
    BY DEF Streams
<1>4. pending \in Seq(Waiting)
    BY DEF Base, ContextTypes
<1>5. /\ N \in Nat /\ DOMAIN pending = 1..N
      /\ \A m \in 1..N : m \in DOMAIN pending' /\ pending'[m] = pending[m]
      /\ body.ev.type # "ToolUseRecorded" => pending' = pending
      /\ body.ev.type = "ToolUseRecorded" => DOMAIN pending' = 1..(N + 1) /\ pending'[N + 1] = w
    <2>1. LET q == Append(pending, w) IN DOMAIN q = 1..(N + 1) /\ q[N + 1] = w /\ \A m \in 1..N : q[m] = pending[m]
        BY <1>3, <1>4
    <2>2. N \in Nat /\ DOMAIN pending = 1..N /\ \A m \in 1..N : m \in 1..(N + 1)
        BY <1>4
    <2> HIDE DEF N
    <2>3. CASE body.ev.type = "ToolUseRecorded"
        BY <1>3, <2>1, <2>2, <2>3
    <2>4. CASE body.ev.type # "ToolUseRecorded"
        BY <1>3, <2>2, <2>4
    <2> QED
        BY <2>3, <2>4
<1> HIDE DEF N
<1>6. /\ Len(log') = n + 1 /\ DOMAIN log' = 1..(n + 1) /\ log'[n + 1] = body /\ \A i \in 1..n : log'[i] = log[i]
      /\ \A i \in 1..n : HasResult(log, i) => HasResult(log', i)
      /\ \A i \in 1..n : Streamed(log, i, n) => Streamed(log', i, n + 1) /\ Behind(log', i, n + 1)
      /\ Streamed(log', n + 1, n + 1) /\ Behind(log', n + 1, n + 1)
    BY <1>1, <1>3, RoundGrows DEF Grows
<1>7. \A c : Waits(pending, c) => Waits(pending', c)
    BY <1>5 DEF Waits
<1>8. \A i \in 1..n : Open(log, i, pc, turn, pending) => Open(log', i, pc', turn', pending')
    BY <1>2, <1>6, <1>7 DEF Open
<1>9. body.ev.type = "ToolUseRecorded" => Open(log', n + 1, pc', turn', pending')
    <2>1. ASSUME body.ev.type = "ToolUseRecorded"
          PROVE  Waits(pending', body.ev.key)
        <3>1. N + 1 \in 1..(N + 1)
            BY <1>5
        <3> QED
            BY <1>3, <1>5, <2>1, <3>1 DEF Waits
    <2> QED
        BY <1>2, <1>3, <1>6, <2>1 DEF Open
<1>10. Accounted(log', pc', turn', pending', cut')
    <2>1. \A i \in 1..(n + 1) : i \in 1..n \/ i = n + 1
        BY <1>1
    <2>2. \A i \in 1..n : log[i].ev.type = "ToolUseRecorded" =>
              log[i].ev.turn \in cut \/ HasResult(log, i) \/ Open(log, i, pc, turn, pending)
        BY <1>1, <1>2 DEF Accounted
    <2> QED
        BY <1>2, <1>6, <1>8, <1>9, <2>1, <2>2 DEF Accounted
<1>11. InHand(log', pc', turn', pending')
    <2> SUFFICES ASSUME NEW m \in DOMAIN pending'
                 PROVE  \E i \in DOMAIN log' : Open(log', i, pc', turn', pending') /\ log'[i].ev.key = pending'[m].id
        BY DEF InHand
    <2>1. \A i \in 1..n : i \in 1..(n + 1)
        BY <1>1
    <2>2. CASE m \in 1..N
        <3>1. PICK i \in 1..n : Open(log, i, pc, turn, pending) /\ log[i].ev.key = pending[m].id
            BY <1>1, <1>5, <2>2 DEF InHand
        <3> QED
            BY <1>5, <1>6, <1>8, <2>1, <2>2, <3>1
    <2>3. CASE m \notin 1..N
        <3>1. body.ev.type = "ToolUseRecorded" /\ m = N + 1
            BY <1>5, <2>3
        <3>2. n + 1 \in 1..(n + 1)
            BY <1>1
        <3> QED
            BY <1>3, <1>5, <1>6, <1>9, <3>1, <3>2
    <2> QED
        BY <2>2, <2>3
<1> QED
    BY <1>10, <1>11 DEF CallsKept

\* The end of a message, with calls to dispatch or without.
LEMMA CompleteCalls ==
    ASSUME Base, RoundsOK, Completes
    PROVE  CallsKept
<1> DEFINE n == Len(log)
<1>1. WellTyped(log) /\ n \in Nat /\ DOMAIN log = 1..n
      /\ Accounted(log, pc, turn, pending, cut) /\ InHand(log, pc, turn, pending)
    BY LogIs DEF RoundsOK
<1>2. pc = "stream" /\ pc' = (IF pending = <<>> THEN "complete" ELSE "dispatch")
      /\ turn' = turn /\ cut' = cut /\ pending' = pending
    BY DEF Completes, Keeps
<1>3. PICK body : Grows(body) /\ body.ev.type = "ModelCallCompleted"
    BY DEF Completes, GrowsBy
<1>4. /\ Len(log') = n + 1 /\ DOMAIN log' = 1..(n + 1) /\ log'[n + 1] = body /\ \A i \in 1..n : log'[i] = log[i]
      /\ \A i \in 1..n : HasResult(log, i) => HasResult(log', i)
      /\ \A i \in 1..n : Behind(log, i, n) => Behind(log', i, n + 1)
    <2>1. body.ev.type \in RoundTypes \ BlockTypes /\ body.ev.type # "TurnStarted"
        BY <1>3 DEF RoundTypes, BlockTypes
    <2> QED
        BY <1>1, <1>3, <2>1, RoundGrows DEF Grows
<1>5. \A i \in 1..n : Open(log, i, pc, turn, pending) => Open(log', i, pc', turn', pending')
    <2> SUFFICES ASSUME NEW i \in 1..n, Open(log, i, pc, turn, pending)
                 PROVE  Open(log', i, pc', turn', pending')
        OBVIOUS
    <2>1. pending # <<>>
        BY DEF Open, Waits
    <2>2. n + 1 \in i + 1..n + 1
        BY <1>1
    <2> QED
        BY <1>2, <1>3, <1>4, <2>1, <2>2 DEF Open
<1>6. Accounted(log', pc', turn', pending', cut')
    <2>1. \A i \in 1..(n + 1) : i \in 1..n \/ i = n + 1
        BY <1>1
    <2>2. \A i \in 1..n : log[i].ev.type = "ToolUseRecorded" =>
              log[i].ev.turn \in cut \/ HasResult(log, i) \/ Open(log, i, pc, turn, pending)
        BY <1>1, <1>2 DEF Accounted
    <2>3. log'[n + 1].ev.type # "ToolUseRecorded"
        BY <1>3, <1>4
    <2> QED
        BY <1>2, <1>4, <1>5, <2>1, <2>2, <2>3 DEF Accounted
<1>7. InHand(log', pc', turn', pending')
    <2>1. \A i \in 1..n : i \in 1..(n + 1)
        BY <1>1
    <2>2. \A m \in DOMAIN pending : \E i \in 1..n : Open(log, i, pc, turn, pending) /\ log[i].ev.key = pending[m].id
        BY <1>1 DEF InHand
    <2> QED
        BY <1>2, <1>4, <1>5, <2>1, <2>2 DEF InHand
<1> QED
    BY <1>6, <1>7 DEF CallsKept

\* A result: its call has it, the others go on waiting.
LEMMA DispatchCalls ==
    ASSUME Base, RoundsOK, Dispatches
    PROVE  CallsKept
<1> DEFINE n == Len(log)
           N == Len(pending)
<1>1. WellTyped(log) /\ n \in Nat /\ DOMAIN log = 1..n
      /\ Accounted(log, pc, turn, pending, cut) /\ InHand(log, pc, turn, pending)
    BY LogIs DEF RoundsOK
<1>2. pc = "dispatch" /\ pc' = "dispatch" /\ turn' = turn /\ cut' = cut /\ pending' = Tail(pending)
    BY DEF Dispatches
<1>3. PICK body : Grows(body) /\ body.ev.type = "ToolResultRecorded" /\ body.ev.key = Head(pending).id
    BY DEF Dispatches
<1>4. /\ N \in Nat \ {0} /\ DOMAIN pending = 1..N /\ pending[1] = Head(pending)
      /\ DOMAIN pending' = 1..(N - 1) /\ \A m \in 1..(N - 1) : pending'[m] = pending[m + 1]
    <2>1. pending \in Seq(Waiting) /\ pending # <<>>
        BY DEF Base, ContextTypes, Dispatches
    <2>2. LET q == Tail(pending) IN DOMAIN q = 1..(N - 1) /\ \A m \in 1..(N - 1) : q[m] = pending[m + 1]
        BY <2>1
    <2>3. N \in Nat \ {0} /\ DOMAIN pending = 1..N /\ pending[1] = Head(pending)
        BY <2>1
    <2> QED
        BY <1>2, <2>2, <2>3
<1> HIDE DEF N
<1>5. /\ Len(log') = n + 1 /\ DOMAIN log' = 1..(n + 1) /\ log'[n + 1] = body /\ \A i \in 1..n : log'[i] = log[i]
      /\ \A i \in 1..n : HasResult(log, i) => HasResult(log', i)
      /\ \A i \in 1..n : Behind(log, i, n) => Behind(log', i, n + 1)
    <2>1. body.ev.type \in RoundTypes \ BlockTypes /\ body.ev.type # "TurnStarted"
        BY <1>3 DEF RoundTypes, BlockTypes
    <2> QED
        BY <1>1, <1>3, <2>1, RoundGrows DEF Grows
<1>6. ASSUME NEW i \in 1..n, Open(log, i, pc, turn, pending), Waits(pending', log[i].ev.key)
      PROVE  Open(log', i, pc', turn', pending')
    <2>1. PICK c \in i + 1..n : log[c].ev.type = "ModelCallCompleted"
        BY <1>2, <1>6 DEF Open
    <2>2. c \in i + 1..n + 1 /\ c \in 1..n
        BY <1>1, <2>1
    <2> QED
        BY <1>2, <1>5, <1>6, <2>1, <2>2 DEF Open
<1>7. ASSUME NEW i \in 1..n, Open(log, i, pc, turn, pending)
      PROVE  HasResult(log', i) \/ Open(log', i, pc', turn', pending')
    <2>1. PICK m \in 1..N : pending[m].id = log[i].ev.key
        BY <1>4, <1>7 DEF Open, Waits
    <2>2. CASE m = 1
        <3>1. n + 1 \in i + 1..n + 1 /\ n + 1 \in 1..(n + 1) /\ (n + 1) - 1 = n /\ i \in 0..n
            BY <1>1
        <3>2. Behind(log', i, n)
            BY <1>1, <1>5, <1>7, <3>1, SamePlaces DEF Open
        <3>3. Use(log', i, log'[n + 1].ev.key)
            BY <1>3, <1>4, <1>5, <1>7, <2>1, <2>2 DEF Use, Open
        <3>4. ResultOf(log', i, n + 1, n + 1)
            BY <1>3, <1>5, <3>1, <3>2, <3>3 DEF ResultOf
        <3> QED
            BY <1>5, <3>1, <3>4 DEF HasResult
    <2>3. CASE m # 1
        <3>1. m - 1 \in 1..(N - 1) /\ (m - 1) + 1 = m
            BY <1>4, <2>1, <2>3
        <3>2. Waits(pending', log[i].ev.key)
            BY <1>4, <2>1, <3>1 DEF Waits
        <3> QED
            BY <1>6, <1>7, <3>2
    <2> QED
        BY <2>2, <2>3
<1>8. Accounted(log', pc', turn', pending', cut')
    <2>1. \A i \in 1..(n + 1) : i \in 1..n \/ i = n + 1
        BY <1>1
    <2>2. \A i \in 1..n : log[i].ev.type = "ToolUseRecorded" =>
              log[i].ev.turn \in cut \/ HasResult(log, i) \/ Open(log, i, pc, turn, pending)
        BY <1>1, <1>2 DEF Accounted
    <2>3. log'[n + 1].ev.type # "ToolUseRecorded"
        BY <1>3, <1>5
    <2> QED
        BY <1>2, <1>5, <1>7, <2>1, <2>2, <2>3 DEF Accounted
<1>9. InHand(log', pc', turn', pending')
    <2> SUFFICES ASSUME NEW m \in DOMAIN pending'
                 PROVE  \E i \in DOMAIN log' : Open(log', i, pc', turn', pending') /\ log'[i].ev.key = pending'[m].id
        BY DEF InHand
    <2>1. m \in 1..(N - 1) /\ m + 1 \in 1..N /\ pending'[m] = pending[m + 1]
        BY <1>4
    <2>2. PICK i \in 1..n : Open(log, i, pc, turn, pending) /\ log[i].ev.key = pending[m + 1].id
        BY <1>1, <1>4, <2>1 DEF InHand
    <2>3. Waits(pending', log[i].ev.key)
        BY <2>1, <2>2 DEF Waits
    <2>4. i \in 1..(n + 1)
        BY <1>1
    <2> QED
        BY <1>5, <1>6, <2>1, <2>2, <2>3, <2>4
<1> QED
    BY <1>8, <1>9 DEF CallsKept

\* No step but a crash loses a call, or has one in hand that is not in the log.
LEMMA CallsStep ==
    ASSUME Base, RoundsOK, Next, ~Crash
    PROVE  CallsKept
<1>1. /\ WellTyped(log) /\ Len(log) \in Nat /\ DOMAIN log = 1..Len(log) /\ PlacesOf(log)
      /\ Accounted(log, pc, turn, pending, cut) /\ InHand(log, pc, turn, pending)
    BY LogIs DEF RoundsOK
<1>2. CASE Starts \/ Enters \/ GivesUp \/ Reads \/ CallsModel \/ Ends
    <2>1. pc \notin {"stream", "dispatch", "refused"} /\ pending' = pending /\ cut' = cut
        BY <1>2 DEF Starts, Enters, GivesUp, Reads, CallsModel, Ends, Keeps
    <2>2. \/ log' = log
          \/ \E body : /\ Grows(body)
                       /\ body.ev.type \in {"TurnStarted", "ContextManageEntered", "ModelCallStarted",
                                            "TurnCompleted", "TurnFailed"}
        BY <1>2 DEF Starts, Enters, GivesUp, Reads, CallsModel, Ends, GrowsBy
    <2>3. log' = log \/ \E body : Grows(body) /\ body.ev.type # "ToolUseRecorded"
        BY <2>2
    <2> QED
        BY <2>1, <2>3, PlainCalls
<1>3. CASE Decides
    <2>1. pc \notin {"stream", "dispatch", "refused"} /\ pending' = pending /\ cut' = cut
        BY <1>3 DEF Decides, PassPcs, Keeps
    <2>2. \A body : Decided(body) => Grows(body) /\ body.ev.type # "ToolUseRecorded"
        BY DEF Decided, PassTypes
    <2>3. log' = log \/ \E body : Grows(body) /\ body.ev.type # "ToolUseRecorded"
        BY <1>3, <2>2 DEF Decides
    <2> QED
        BY <2>1, <2>3, PlainCalls
<1>4. CASE Breaks
    <2>1. pc = "stream" /\ pc' = "fail" /\ turn' = turn /\ pending' = <<>> /\ cut' = cut \cup {turn} /\ log' = log
        BY <1>4 DEF Breaks
    <2>2. \A i \in DOMAIN log : log[i].ev.type = "ToolUseRecorded" => log[i].ev.turn \in cut' \/ HasResult(log, i)
        BY <1>1, <2>1 DEF Accounted, Open
    <2>3. Accounted(log', pc', turn', pending', cut')
        BY <2>1, <2>2 DEF Accounted
    <2>4. InHand(log', pc', turn', pending')
        BY <2>1 DEF InHand
    <2> QED
        BY <2>3, <2>4 DEF CallsKept
<1>5. CASE Rounds
    <2>1. pc = "dispatch" /\ pc' = "init" /\ pending = <<>> /\ pending' = pending /\ cut' = cut /\ log' = log
        BY <1>5 DEF Rounds, Keeps
    <2>2. \A i \in DOMAIN log : log[i].ev.type = "ToolUseRecorded" => log[i].ev.turn \in cut \/ HasResult(log, i)
        BY <1>1, <2>1 DEF Accounted, Open, Waits
    <2>3. Accounted(log', pc', turn', pending', cut')
        BY <2>1, <2>2 DEF Accounted
    <2>4. InHand(log', pc', turn', pending')
        BY <2>1 DEF InHand
    <2> QED
        BY <2>3, <2>4 DEF CallsKept
<1>6. CASE Updates
    BY <1>1, <1>6 DEF Updates, Keeps, CallsKept
<1> QED
    BY <1>1, <1>2, <1>3, <1>4, <1>5, <1>6, StreamCalls, CompleteCalls, DispatchCalls, StepKinds

\* The last model call of a turn that began at b: started at s, completed at c, with no
\* other after it.  pend holds its calls that have no result.
Ended(el, b, s, c, pend) ==
    /\ s \in DOMAIN el /\ c \in DOMAIN el /\ b < s /\ s < c
    /\ el[s].type = "ModelCallStarted" /\ el[c].type = "ModelCallCompleted"
    /\ \A k \in DOMAIN el : k > s => el[k].type # "ModelCallStarted"
    /\ \A k \in DOMAIN el : k > c => el[k].type # "ModelCallCompleted"
    /\ \A u \in DOMAIN el : s < u /\ u < c /\ el[u].type = "ToolUseRecorded" =>
          \/ \E k \in DOMAIN el : k > c /\ el[k].type = "ToolResultRecorded" /\ el[k].key = el[u].key
          \/ Waits(pend, el[u].key)
    /\ \A m \in DOMAIN pend : \E u \in DOMAIN el :
          /\ s < u /\ u < c /\ el[u].type = "ToolUseRecorded" /\ el[u].key = pend[m].id
          /\ \A k \in DOMAIN el : k > c /\ el[k].type = "ToolResultRecorded" => el[k].key # el[u].key

\* Replay of a log whose last turn began at b and is not closed.
LEMMA ReplayOpenTurn ==
    ASSUME NEW E, AreEvents(E), NEW el \in Seq(E), NEW b \in DOMAIN el, el[b].type = "TurnStarted",
           \A k \in DOMAIN el : k > b => el[k].type \notin Boundaries
    PROVE  LET d == Replay(el)
           IN  \/ d.point \in {"Malformed", "RestartCurrentTurn"} /\ d.pending = <<>>
               \/ /\ d.point \in {"ResumeFromModelCompleted", "ResumeFromToolDispatching"}
                  /\ d.turn = el[b].turn
                  /\ d.point = "ResumeFromModelCompleted" => d.pending = <<>>
                  /\ \E s, c \in DOMAIN el : Ended(el, b, s, c, d.pending)
<1> DEFINE P == Positions(el, Boundaries)
           started == Latest({i \in Positions(el, {"ModelCallStarted"}) : i > b})
           completed == Latest({i \in Positions(el, {"ModelCallCompleted"}) : i > b})
           answers == {k \in Positions(el, {"ToolResultRecorded"}) : k > completed}
           results == {el[i].key : i \in answers}
           S == {i \in Positions(el, {"ToolUseRecorded"}) :
                    started < i /\ i < completed /\ el[i].key \notin results}
           unanswered == InOrder(S)
           pend == [x \in DOMAIN unanswered |->
                       [id |-> el[unanswered[x]].key, ok |-> el[unanswered[x]].info = "valid"]]
<1>1. Len(el) \in Nat /\ DOMAIN el = 1..Len(el)
    OBVIOUS
<1>2. b = Latest(P)
    <2>1. P \in SUBSET (1..Len(el)) /\ b \in P /\ \A k \in P : k <= b
        BY <1>1 DEF Positions, Boundaries
    <2> HIDE DEF P
    <2>2. Latest(P) \in P /\ \A k \in P : k <= Latest(P)
        BY <1>1, <2>1, LatestIsLast
    <2> QED
        BY <2>1, <2>2
<1>3. b # 0 /\ el[b].type \notin {"TurnCompleted", "TurnFailed", "TurnPaused"}
    BY <1>1
<1>4. \/ Replay(el) = Malformed
      \/ Replay(el) = ResumeFromTurnStarted(el, b)
    <2> HIDE DEF P
    <2> QED
        BY <1>2, <1>3 DEF Replay, P
<1>5. CASE Replay(el) = Malformed
    BY <1>5 DEF Malformed, Decision
<1>6. ResumeFromTurnStarted(el, b) =
          IF started = 0 \/ started > completed
          THEN Decision("RestartCurrentTurn", el[b].turn, <<>>, None, None)
          ELSE IF pend = <<>> /\ results = {}
          THEN IF el[completed].info = "ToolUse" THEN Malformed
               ELSE Decision("ResumeFromModelCompleted", el[b].turn, <<>>, None, None)
          ELSE Decision("ResumeFromToolDispatching", el[b].turn, pend, None, None)
    BY DEF ResumeFromTurnStarted
<1>7. /\ started \in 0..Len(el) /\ completed \in 0..Len(el)
      /\ started # 0 => started > b /\ el[started].type = "ModelCallStarted"
      /\ completed # 0 => completed > b /\ el[completed].type = "ModelCallCompleted"
      /\ \A k \in DOMAIN el : k > b /\ el[k].type = "ModelCallStarted" => started # 0 /\ k <= started
      /\ \A k \in DOMAIN el : k > b /\ el[k].type = "ModelCallCompleted" => completed # 0 /\ k <= completed
    <2> DEFINE A == {i \in Positions(el, {"ModelCallStarted"}) : i > b}
               C == {i \in Positions(el, {"ModelCallCompleted"}) : i > b}
    <2>1. A \in SUBSET (1..Len(el)) /\ C \in SUBSET (1..Len(el))
        BY <1>1 DEF Positions
    <2>2. /\ \A k : k \in A <=> k \in DOMAIN el /\ el[k].type = "ModelCallStarted" /\ k > b
          /\ \A k : k \in C <=> k \in DOMAIN el /\ el[k].type = "ModelCallCompleted" /\ k > b
        BY DEF Positions
    <2> HIDE DEF A, C
    <2>3. /\ A = {} => Latest(A) = 0
          /\ A # {} => Latest(A) \in A /\ \A k \in A : k <= Latest(A)
          /\ Latest(A) \in 0..Len(el)
          /\ C = {} => Latest(C) = 0
          /\ C # {} => Latest(C) \in C /\ \A k \in C : k <= Latest(C)
          /\ Latest(C) \in 0..Len(el)
        BY <1>1, <2>1, LatestIsLast
    <2>4. started = Latest(A) /\ completed = Latest(C)
        BY DEF A, C
    <2> HIDE DEF started, completed
    <2> QED
        BY <1>1, <2>1, <2>2, <2>3, <2>4
<1> HIDE DEF started, completed
<1>8. /\ \A r : r \in results <=> \E k \in DOMAIN el : k > completed /\ el[k].type = "ToolResultRecorded" /\ el[k].key = r
      /\ \A u : u \in S <=> /\ u \in DOMAIN el /\ el[u].type = "ToolUseRecorded"
                            /\ started < u /\ u < completed /\ el[u].key \notin results
    BY DEF Positions
<1> HIDE DEF results
<1>9. DOMAIN unanswered = 1..Cardinality(S) /\ (\A x \in 1..Cardinality(S) : unanswered[x] \in S)
      /\ \A u \in S : \E x \in 1..Cardinality(S) : unanswered[x] = u
    <2>1. S \in SUBSET (1..Len(el))
        BY <1>1, <1>8
    <2> HIDE DEF S
    <2>2. /\ InOrder(S) \in [1..Cardinality(S) -> S]
          /\ \A i \in S : \E k \in 1..Cardinality(S) : InOrder(S)[k] = i
        BY <1>1, <2>1, InOrderAscends
    <2> QED
        BY <2>2
<1> HIDE DEF S, unanswered
<1>10. /\ DOMAIN pend = 1..Cardinality(S)
       /\ \A x \in DOMAIN pend : pend[x].id = el[unanswered[x]].key
    BY <1>9
<1> HIDE DEF pend
<1>11. ASSUME started # 0, ~(started > completed)
       PROVE  Ended(el, b, started, completed, pend)
    <2>1. /\ started \in DOMAIN el /\ completed \in DOMAIN el /\ b < started
          /\ el[started].type = "ModelCallStarted" /\ el[completed].type = "ModelCallCompleted"
        BY <1>1, <1>7, <1>11
    <2>2. started < completed
        BY <1>1, <1>11, <2>1
    <2>3. \A k \in DOMAIN el : k > started => el[k].type # "ModelCallStarted"
        BY <1>1, <1>7, <2>1
    <2>4. \A k \in DOMAIN el : k > completed => el[k].type # "ModelCallCompleted"
        BY <1>1, <1>7, <2>1, <2>2
    <2>5. ASSUME NEW u \in DOMAIN el, started < u, u < completed, el[u].type = "ToolUseRecorded"
          PROVE  \/ \E k \in DOMAIN el : k > completed /\ el[k].type = "ToolResultRecorded" /\ el[k].key = el[u].key
                 \/ Waits(pend, el[u].key)
        <3>1. CASE el[u].key \in results
            BY <1>8, <3>1
        <3>2. CASE el[u].key \notin results
            <4>1. u \in S
                BY <1>8, <2>5, <3>2
            <4>2. PICK x \in 1..Cardinality(S) : unanswered[x] = u
                BY <1>9, <4>1
            <4> QED
                BY <1>10, <4>2 DEF Waits
        <3> QED
            BY <3>1, <3>2
    <2>6. ASSUME NEW m \in DOMAIN pend
          PROVE  \E u \in DOMAIN el :
                    /\ started < u /\ u < completed /\ el[u].type = "ToolUseRecorded" /\ el[u].key = pend[m].id
                    /\ \A k \in DOMAIN el : k > completed /\ el[k].type = "ToolResultRecorded" => el[k].key # el[u].key
        <3>1. unanswered[m] \in S /\ pend[m].id = el[unanswered[m]].key
            BY <1>9, <1>10, <2>6
        <3> DEFINE u == unanswered[m]
        <3>2. /\ u \in DOMAIN el /\ el[u].type = "ToolUseRecorded" /\ started < u /\ u < completed
              /\ el[u].key \notin results
            BY <1>8, <3>1
        <3>3. \A k \in DOMAIN el : k > completed /\ el[k].type = "ToolResultRecorded" => el[k].key # el[u].key
            BY <1>8, <3>2
        <3> QED
            BY <3>1, <3>2, <3>3
    <2> QED
        BY <2>1, <2>2, <2>3, <2>4, <2>5, <2>6 DEF Ended
<1>12. CASE Replay(el) = ResumeFromTurnStarted(el, b)
    <2>1. CASE started = 0 \/ started > completed
        BY <1>6, <1>12, <2>1 DEF Decision
    <2>2. CASE ~(started = 0 \/ started > completed) /\ pend = <<>> /\ results = {}
        <3>1. started \in DOMAIN el /\ completed \in DOMAIN el /\ Ended(el, b, started, completed, <<>>)
            BY <1>11, <2>2 DEF Ended
        <3>2. \/ Replay(el) = Malformed
              \/ Replay(el) = Decision("ResumeFromModelCompleted", el[b].turn, <<>>, None, None)
            BY <1>6, <1>12, <2>2
        <3>3. CASE Replay(el) = Decision("ResumeFromModelCompleted", el[b].turn, <<>>, None, None)
            BY <3>1, <3>3 DEF Decision
        <3> QED
            BY <1>5, <3>2, <3>3
    <2>3. CASE ~(started = 0 \/ started > completed) /\ ~(pend = <<>> /\ results = {})
        <3>1. started \in DOMAIN el /\ completed \in DOMAIN el /\ Ended(el, b, started, completed, pend)
            BY <1>11, <2>3 DEF Ended
        <3>2. Replay(el) = Decision("ResumeFromToolDispatching", el[b].turn, pend, None, None)
            BY <1>6, <1>12, <2>3
        <3> QED
            BY <3>1, <3>2 DEF Decision
    <2> QED
        BY <2>1, <2>2, <2>3
<1> QED
    BY <1>4, <1>5, <1>12

\* A crash within a turn: the turn is given up, or taken up with the calls of its last
\* message that have no result.
LEMMA CrashTakes ==
    ASSUME Base, RoundsOK, Crash
    PROVE  /\ log' = log /\ turn # None /\ LastTurn(log, turn, Len(log))
           /\ \/ turn' = None /\ pending' = <<>> /\ pc' = "refused" /\ cut' = cut
              \/ turn' = None /\ pending' = <<>> /\ pc' = "idle" /\ cut' = cut \cup {turn}
              \/ /\ turn' = turn /\ cut' = cut
                 /\ pc' = "dispatch" \/ (pc' = "complete" /\ pending' = <<>>)
                 /\ \E b, s, c \in DOMAIN log :
                       /\ Ended(EvsOf(log), b, s, c, pending')
                       /\ \A k \in b + 1..Len(log) : log[k].ev.turn = turn
<1> DEFINE el == EvsOf(log)
           d == Replay(el)
           use(c) == CHOOSE i \in DOMAIN log : IsType(log[i], {"ToolUseRecorded"}) /\ log[i].ev.key = c
           wait(n) == [id |-> d.pending[n].id, names |-> log[use(d.pending[n].id)].data.names]
<1>0. WellTyped(log) /\ Evs = el
    BY DEF Base, ContextTypes, Evs, EvsOf
<1>1. /\ DOMAIN log = 1..Len(log) /\ Len(log) \in Nat
      /\ DOMAIN el = DOMAIN log /\ \A i \in DOMAIN log : el[i] = log[i].ev
    BY <1>0, EvsType
<1>2. PICK E : AreEvents(E) /\ el \in Seq(E)
    BY <1>0, EvsType
<1>3. log' = log /\ turn # None /\ LastTurn(log, turn, Len(log))
    BY CrashIs DEF RoundsOK
<1> HIDE DEF el, use
<1>4. PICK b \in 1..Len(log) :
          /\ log[b].ev.type = "TurnStarted" /\ log[b].ev.turn = turn
          /\ \A k \in b + 1..Len(log) : log[k].ev.type \notin Boundaries /\ log[k].ev.turn = turn
    BY <1>3 DEF LastTurn
<1>5. /\ b \in DOMAIN el /\ el[b].type = "TurnStarted" /\ el[b].turn = turn
      /\ \A k \in DOMAIN el : k > b => el[k].type \notin Boundaries
    <2>1. \A k \in 1..Len(log) : k > b => k \in b + 1..Len(log)
        BY <1>1
    <2> QED
        BY <1>1, <1>4, <2>1
<1>6. \/ d.point \in {"Malformed", "RestartCurrentTurn"} /\ d.pending = <<>>
      \/ /\ d.point \in {"ResumeFromModelCompleted", "ResumeFromToolDispatching"}
         /\ d.turn = turn
         /\ d.point = "ResumeFromModelCompleted" => d.pending = <<>>
         /\ \E s, c \in DOMAIN el : Ended(el, b, s, c, d.pending)
    BY <1>2, <1>5, ReplayOpenTurn
<1>7. /\ turn' = IF d.point \in {"ResumeFromModelCompleted", "ResumeFromToolDispatching"}
                 THEN d.turn ELSE None
      /\ pc' = CASE d.point = "Malformed" -> "refused"
                 [] d.point = "ResumeFromModelCompleted" -> "complete"
                 [] d.point = "ResumeFromToolDispatching" -> "dispatch"
                 [] OTHER -> "idle"
      /\ pending' = [n \in DOMAIN d.pending |-> wait(n)]
      /\ cut' = IF pc' = "idle" THEN cut \cup {turn} ELSE cut
    BY <1>0, Zenon DEF Crash, use
<1>8. /\ DOMAIN pending' = DOMAIN d.pending
      /\ \A n \in DOMAIN pending' : pending'[n].id = d.pending[n].id
    BY <1>7
<1> HIDE DEF d, wait
<1>9. d.pending = <<>> => pending' = <<>>
    <2>1. \A p : p = <<>> => [n \in DOMAIN p |-> wait(n)] = <<>>
        OBVIOUS
    <2> QED
        BY <1>7, <2>1
<1>10. CASE d.point \in {"Malformed", "RestartCurrentTurn"} /\ d.pending = <<>>
    BY <1>3, <1>7, <1>9, <1>10
<1>11. CASE /\ d.point \in {"ResumeFromModelCompleted", "ResumeFromToolDispatching"}
            /\ d.turn = turn
            /\ d.point = "ResumeFromModelCompleted" => d.pending = <<>>
            /\ \E s, c \in DOMAIN el : Ended(el, b, s, c, d.pending)
    <2>1. PICK s \in DOMAIN el, c \in DOMAIN el : Ended(el, b, s, c, d.pending)
        BY <1>11
    <2>2. \A key : Waits(d.pending, key) => Waits(pending', key)
        BY <1>8 DEF Waits
    <2>3. Ended(el, b, s, c, pending')
        BY <1>8, <2>1, <2>2 DEF Ended
    <2>4. /\ turn' = turn /\ cut' = cut
          /\ pc' = "dispatch" \/ (pc' = "complete" /\ pending' = <<>>)
        BY <1>7, <1>9, <1>11
    <2>5. b \in DOMAIN log /\ s \in DOMAIN log /\ c \in DOMAIN log
        BY <1>1, <1>4
    <2> QED
        BY <1>3, <1>4, <2>3, <2>4, <2>5 DEF el
<1> QED
    BY <1>6, <1>10, <1>11

\* The calls and the results of a session, over a crash.
LEMMA CrashCalls ==
    ASSUME Base, RoundsOK, Crash
    PROVE  /\ CallsKept /\ CutsOf(log', pc', turn', cut')
           /\ turn' # None => LastTurn(log', turn', Len(log'))
<1> DEFINE n == Len(log)
           F == FreshTurn(EvsOf(log))
<1>1. WellTyped(log) /\ n \in Nat /\ DOMAIN log = 1..n /\ PlacesOf(log)
      /\ Accounted(log, pc, turn, pending, cut) /\ CutsOf(log, pc, turn, cut)
    BY LogIs DEF RoundsOK
<1>2. log' = log /\ turn # None /\ LastTurn(log, turn, n) /\ pc # "refused"
    BY CrashTakes DEF Base, ContextTypes, Away
<1>3. turn \in Nat /\ turn < F /\ \A u \in cut : u \in Nat /\ u < F
    BY <1>1 DEF Base, ContextTypes, TurnsOK, CutsOf
<1>4. CASE turn' = None /\ pending' = <<>> /\ pc' = "refused" /\ cut' = cut
    <2>1. CallsKept
        BY <1>4 DEF CallsKept, Accounted, InHand
    <2>2. CutsOf(log', pc', turn', cut')
        BY <1>2, <1>3, <1>4 DEF CutsOf
    <2> QED
        BY <1>4, <2>1, <2>2
<1>5. CASE turn' = None /\ pending' = <<>> /\ pc' = "idle" /\ cut' = cut \cup {turn}
    <2>1. \A i \in DOMAIN log : log[i].ev.type = "ToolUseRecorded" => log[i].ev.turn \in cut' \/ HasResult(log, i)
        BY <1>1, <1>2, <1>5 DEF Accounted, Open
    <2>2. CallsKept
        BY <1>2, <1>5, <2>1 DEF CallsKept, Accounted, InHand
    <2>3. CutsOf(log', pc', turn', cut')
        BY <1>2, <1>3, <1>5 DEF CutsOf
    <2> QED
        BY <1>5, <2>2, <2>3
<1>6. ASSUME turn' = turn, cut' = cut, pc' = "dispatch" \/ (pc' = "complete" /\ pending' = <<>>),
             NEW b \in 1..n, NEW s \in 1..n, NEW c \in 1..n, Ended(EvsOf(log), b, s, c, pending'),
             \A k \in b + 1..n : log[k].ev.turn = turn
      PROVE  /\ CallsKept /\ CutsOf(log', pc', turn', cut')
             /\ turn' # None => LastTurn(log', turn', Len(log'))
    <2>1. /\ b < s /\ s < c
          /\ log[s].ev.type = "ModelCallStarted" /\ log[c].ev.type = "ModelCallCompleted"
          /\ \A k \in 1..n : k > s => log[k].ev.type # "ModelCallStarted"
          /\ \A k \in 1..n : k > c => log[k].ev.type # "ModelCallCompleted"
          /\ \A u \in 1..n : s < u /\ u < c /\ log[u].ev.type = "ToolUseRecorded" =>
                \/ \E k \in 1..n : k > c /\ log[k].ev.type = "ToolResultRecorded" /\ log[k].ev.key = log[u].ev.key
                \/ Waits(pending', log[u].ev.key)
          /\ \A m \in DOMAIN pending' : \E u \in 1..n :
                /\ s < u /\ u < c /\ log[u].ev.type = "ToolUseRecorded" /\ log[u].ev.key = pending'[m].id
                /\ \A k \in 1..n : k > c /\ log[k].ev.type = "ToolResultRecorded" => log[k].ev.key # log[u].ev.key
        <3> DEFINE el == EvsOf(log)
        <3>1. DOMAIN el = 1..n /\ \A i \in 1..n : el[i] = log[i].ev
            BY <1>1, EvsType
        <3>2. Ended(el, b, s, c, pending')
            BY <1>6
        <3> HIDE DEF el
        <3>3. /\ b < s /\ s < c /\ el[s].type = "ModelCallStarted" /\ el[c].type = "ModelCallCompleted"
              /\ \A k \in 1..n : k > s => el[k].type # "ModelCallStarted"
              /\ \A k \in 1..n : k > c => el[k].type # "ModelCallCompleted"
            BY <3>1, <3>2 DEF Ended
        <3>4. \A u \in 1..n : s < u /\ u < c /\ el[u].type = "ToolUseRecorded" =>
                \/ \E k \in 1..n : k > c /\ el[k].type = "ToolResultRecorded" /\ el[k].key = el[u].key
                \/ Waits(pending', el[u].key)
            BY <3>1, <3>2, Zenon DEF Ended
        <3>5. ASSUME NEW m \in DOMAIN pending'
              PROVE  \E u \in 1..n :
                /\ s < u /\ u < c /\ log[u].ev.type = "ToolUseRecorded" /\ log[u].ev.key = pending'[m].id
                /\ \A k \in 1..n : k > c /\ log[k].ev.type = "ToolResultRecorded" => log[k].ev.key # log[u].ev.key
            <4>1. PICK u \in DOMAIN el :
                    /\ s < u /\ u < c /\ el[u].type = "ToolUseRecorded" /\ el[u].key = pending'[m].id
                    /\ \A k \in DOMAIN el : k > c /\ el[k].type = "ToolResultRecorded" => el[k].key # el[u].key
                <5>1. \A x \in DOMAIN pending' : \E u \in DOMAIN el :
                         /\ s < u /\ u < c /\ el[u].type = "ToolUseRecorded" /\ el[u].key = pending'[x].id
                         /\ \A k \in DOMAIN el : k > c /\ el[k].type = "ToolResultRecorded" => el[k].key # el[u].key
                    BY <3>2, Zenon DEF Ended
                <5> QED
                    BY <3>5, <5>1
            <4>2. log[u].ev.type = "ToolUseRecorded" /\ log[u].ev.key = pending'[m].id
                BY <3>1, <4>1
            <4>3. \A k \in 1..n : k > c /\ log[k].ev.type = "ToolResultRecorded" => log[k].ev.key # log[u].ev.key
                BY <3>1, <4>1
            <4> QED
                BY <3>1, <4>1, <4>2, <4>3
        <3>6. \A u \in 1..n : s < u /\ u < c /\ log[u].ev.type = "ToolUseRecorded" =>
                \/ \E k \in 1..n : k > c /\ log[k].ev.type = "ToolResultRecorded" /\ log[k].ev.key = log[u].ev.key
                \/ Waits(pending', log[u].ev.key)
            BY <3>1, <3>4
        <3> QED
            BY <3>1, <3>3, <3>5, <3>6
    <2>2. ~Calling(log)
        <3> SUFFICES ASSUME NEW m \in 1..n, log[m].ev.type = "ModelCallStarted", Streamed(log, m, n)
                     PROVE  FALSE
            BY <1>1 DEF Calling
        <3>1. c \in m + 1..n
            BY <1>1, <2>1
        <3> QED
            BY <2>1, <3>1 DEF Streamed, BlockTypes
    <2>3. pc # "stream" /\ turn \notin cut
        BY <1>1, <1>2, <2>2 DEF CutsOf
    <2>4. CutsOf(log', pc', turn', cut')
        BY <1>2, <1>3, <1>6, <2>3 DEF CutsOf
    <2>5. \A k \in s + 1..c - 1 : log[k].ev.type \in BlockTypes
        <3>1. PICK m \in 1..c - 1 : log[m].ev.type = "ModelCallStarted" /\ Streamed(log, m, c - 1)
            BY <1>1, <2>1 DEF PlacesOf, Placed
        <3>2. \A k \in s + 1..c - 1 : k \in m + 1..c - 1
            BY <1>1, <2>1, <3>1
        <3> QED
            BY <3>1, <3>2 DEF Streamed
    <2>6. ASSUME NEW i \in 1..n, Open(log, i, pc, turn, pending)
          PROVE  HasResult(log, i) \/ Open(log, i, pc', turn', pending')
        <3>1. /\ log[i].ev.type = "ToolUseRecorded" /\ Behind(log, i, n)
              /\ \E e \in i + 1..n : log[e].ev.type = "ModelCallCompleted"
            BY <2>3, <2>6 DEF Open
        <3>2. PICK e \in i + 1..n : log[e].ev.type = "ModelCallCompleted"
            BY <3>1
        <3>3. i < c
            BY <1>1, <2>1, <3>2
        <3>4. s < i
            <4>1. s \notin i + 1..n
                BY <2>1, <3>1 DEF Behind, RoundTypes, BlockTypes
            <4>2. s # i
                BY <2>1, <3>1
            <4> QED
                BY <1>1, <4>1, <4>2
        <3>5. CASE \E k \in 1..n : k > c /\ log[k].ev.type = "ToolResultRecorded" /\ log[k].ev.key = log[i].ev.key
            <4>1. PICK k \in 1..n : k > c /\ log[k].ev.type = "ToolResultRecorded" /\ log[k].ev.key = log[i].ev.key
                BY <3>5
            <4>2. k \in i + 1..n /\ \A j \in i + 1..k - 1 : j \in i + 1..n
                BY <1>1, <3>3, <4>1
            <4>3. Behind(log, i, k - 1)
                BY <3>1, <4>2 DEF Behind
            <4>4. ResultOf(log, i, k, n)
                BY <3>1, <4>1, <4>2, <4>3 DEF ResultOf, Use
            <4> QED
                BY <1>1, <4>4 DEF HasResult
        <3>6. CASE Waits(pending', log[i].ev.key)
            <4>1. pc' = "dispatch"
                BY <1>6, <3>6 DEF Waits
            <4> QED
                BY <1>6, <2>6, <3>1, <3>6, <4>1 DEF Open
        <3> QED
            BY <2>1, <3>1, <3>3, <3>4, <3>5, <3>6
    <2>7. Accounted(log', pc', turn', pending', cut')
        BY <1>1, <1>2, <1>6, <2>6 DEF Accounted
    <2>8. ASSUME NEW m \in DOMAIN pending'
          PROVE  \E i \in 1..n : Open(log, i, pc', turn', pending') /\ log[i].ev.key = pending'[m].id
        <3>1. PICK u \in 1..n :
                /\ s < u /\ u < c /\ log[u].ev.type = "ToolUseRecorded" /\ log[u].ev.key = pending'[m].id
                /\ \A k \in 1..n : k > c /\ log[k].ev.type = "ToolResultRecorded" => log[k].ev.key # log[u].ev.key
            BY <2>1, <2>8
        <3>2. log[u].ev.turn = turn /\ c \in u + 1..n
            BY <1>1, <1>6, <2>1, <3>1
        <3>3. Waits(pending', log[u].ev.key) /\ pc' = "dispatch"
            BY <1>6, <2>8, <3>1 DEF Waits
        <3>4. ~HasResult(log, u)
            <4> SUFFICES ASSUME NEW k \in 1..n, ResultOf(log, u, k, n)
                         PROVE  FALSE
                BY <1>1 DEF HasResult
            <4>1. k \in u + 1..n /\ log[k].ev.type = "ToolResultRecorded" /\ log[k].ev.key = log[u].ev.key
                BY DEF ResultOf, Use
            <4>2. k # c
                BY <2>1, <4>1
            <4>3. ~(k < c)
                <5>1. k < c => k \in s + 1..c - 1
                    BY <1>1, <3>1, <4>1
                <5> QED
                    BY <2>5, <4>1, <5>1 DEF BlockTypes
            <4>4. k > c
                BY <1>1, <4>2, <4>3
            <4> QED
                BY <3>1, <4>1, <4>4
        <3>5. Open(log, u, pc, turn, pending)
            BY <1>1, <1>2, <2>3, <3>1, <3>2, <3>4 DEF Accounted
        <3>6. Open(log, u, pc', turn', pending')
            BY <1>6, <2>1, <3>1, <3>2, <3>3, <3>5 DEF Open
        <3> QED
            BY <3>1, <3>6
    <2>9. InHand(log', pc', turn', pending')
        BY <1>1, <1>2, <2>8 DEF InHand
    <2> QED
        BY <1>2, <1>6, <2>4, <2>7, <2>9 DEF CallsKept
<1> QED
    BY <1>1, <1>4, <1>5, <1>6, CrashTakes

\* The rounds of a session, over any step.
LEMMA RoundsStep ==
    ASSUME Base, RoundsOK, Next
    PROVE  RoundsOK'
<1>1. PlacesOf(log') /\ InPass(log', pc', seen', short')
    BY PlacesStep, PassStep
<1>2. /\ Accounted(log', pc', turn', pending', cut') /\ InHand(log', pc', turn', pending')
      /\ CutsOf(log', pc', turn', cut')
      /\ turn' # None => LastTurn(log', turn', Len(log'))
    BY CallsStep, CutsStep, LastStep, CrashCalls DEF CallsKept
<1> QED
    BY <1>1, <1>2 DEF RoundsOK

-----------------------------------------------------------------------------
(* A compaction covers a call and its result, or neither.                  *)

\* By where the call and the compactions stand: a range ends before the first pass of a
\* turn, and the pass of the call's round is behind that turn's start.
LEMMA SameCover ==
    ASSUME NEW lg, NEW N \in Nat, \A j \in 1..N : Placed(lg, lg[j], j - 1),
           NEW h, DOMAIN h = 1..N, \A j \in 1..N : h[j] = lg[j],
           NEW i \in 1..N, NEW k \in 1..N, ResultOf(lg, i, k, N)
    PROVE  Visible(h, i) <=> Visible(h, k)
<1>1. /\ i < k /\ lg[i].ev.type = "ToolUseRecorded" /\ lg[k].ev.type = "ToolResultRecorded"
      /\ Behind(lg, i, k - 1)
    BY DEF ResultOf, Use
<1>2. \A j \in i..k : lg[j].ev.type \notin {"TurnStarted", "ContextManageEntered"}
    <2> SUFFICES ASSUME NEW j \in i..k
                 PROVE  lg[j].ev.type \notin {"TurnStarted", "ContextManageEntered"}
        OBVIOUS
    <2>1. j = i \/ j = k \/ j \in i + 1..k - 1
        OBVIOUS
    <2> QED
        BY <1>1, <2>1 DEF Behind, RoundTypes, BlockTypes
<1>3. PICK e \in 1..i - 1 : /\ lg[e].ev.type = "ContextManageEntered"
                            /\ \A j \in e + 1..i - 1 : lg[j].ev.type # "TurnStarted"
    BY <1>1 DEF Placed, BlockTypes, Entered
<1>4. h[i].seq = i - 1 /\ h[k].seq = k - 1
    BY DEF Placed
<1>5. ASSUME NEW j \in 1..N, lg[j].ev.type = "ContextCompacted"
      PROVE  (lg[j].data.lo <= i - 1 /\ i - 1 <= lg[j].data.hi) <=> (lg[j].data.lo <= k - 1 /\ k - 1 <= lg[j].data.hi)
    <2> DEFINE lo == lg[j].data.lo
               hi == lg[j].data.hi
    <2>1. Bounded(lg, lo, hi, j - 1)
        BY <1>5 DEF Placed
    <2> HIDE DEF lo, hi
    <2>2. lo \in Nat /\ hi \in Nat /\ lo + 1 \in 1..j - 1 /\ lg[lo + 1].ev.type = "TurnStarted"
        BY <2>1 DEF Bounded
    <2>3. PICK s \in 1..hi + 1 :
              /\ lg[s].ev.type = "TurnStarted"
              /\ \A x \in s + 1..hi + 1 : lg[x].ev.type \notin {"TurnStarted", "ContextManageEntered"}
        BY <2>1 DEF Bounded
    <2>4. ASSUME lo <= i - 1, i - 1 <= hi, ~(k - 1 <= hi)
          PROVE  FALSE
        <3>1. s \notin i..k
            BY <1>2, <2>3
        <3>2. s < i
            <4>1. s \in Nat /\ s < k
                BY <2>2, <2>3, <2>4
            <4>2. i \in Nat /\ k \in Nat
                OBVIOUS
            <4> QED
                BY <3>1, <4>1, <4>2
        <3>3. s <= e
            <4>1. s \notin e + 1..i - 1
                BY <1>3, <2>3
            <4> QED
                BY <1>3, <3>2, <4>1
        <3>4. s # e
            BY <1>3, <2>3
        <3>5. e \in s + 1..hi + 1
            BY <1>3, <2>2, <2>3, <2>4, <3>3, <3>4
        <3> QED
            BY <1>3, <2>3, <3>5
    <2>5. ASSUME lo <= k - 1, k - 1 <= hi, ~(lo <= i - 1)
          PROVE  FALSE
        <3>1. lo + 1 \in i..k
            BY <2>2, <2>5
        <3> QED
            BY <1>2, <2>2, <3>1
    <2>6. i \in Nat /\ k \in Nat /\ i < k
        BY <1>1
    <2>7. (lo <= i - 1 /\ i - 1 <= hi) <=> (lo <= k - 1 /\ k - 1 <= hi)
        BY <2>2, <2>4, <2>5, <2>6
    <2> QED
        BY <2>7 DEF lo, hi
<1> QED
    BY <1>4, <1>5 DEF Visible, Covered, IsType

\* A request before a model call: the calls and the results of its messages match.
LEMMA RequestMatches ==
    ASSUME Base, RoundsOK, pc = "call", prompt.messages = Walk(History)
    PROVE  ResultsMatch
<1> DEFINE n == Len(log)
           N == seen
           h == History
           ms == prompt.messages
           L == Len(ms)
           uses(i) == {b \in ToSet(ms[i].content) : b.kind = "ToolUse"}
           Follows(i, k) == i < k /\ \A j \in i + 1..k : ms[j].role = "tool"
<1>1. /\ N \in Nat /\ n \in Nat /\ N <= n /\ DOMAIN h = 1..N /\ DOMAIN log = 1..n
      /\ \A i \in 1..N : i \in 1..n /\ h[i] = log[i]
    BY HistoryIs DEF Base
<1>2. /\ \A i \in 1..n : Placed(log, log[i], i - 1)
      /\ Accounted(log, pc, turn, pending, cut) /\ InPass(log, pc, seen, short)
    BY <1>1 DEF RoundsOK, PlacesOf
<1>3. Len(h) = N
    BY <1>1, LogIs, FirstOf DEF History, Base, ContextTypes
<1> HIDE DEF h, n, N
<1>4. \A i \in 1..N : h[i].seq = i - 1
    BY <1>1, <1>2 DEF Placed
<1>5. Told(h, N, ms) /\ L \in Nat /\ DOMAIN ms = 1..L
    <2>1. ms = Walk(h)
        BY DEF h
    <2> HIDE DEF ms
    <2> QED
        BY <1>1, <1>3, <1>4, <2>1, WalkMatches
<1> HIDE DEF ms, L
<1>6. ASSUME NEW i \in 1..N, NEW k \in 1..N, ResultOf(log, i, k, N)
      PROVE  /\ i \in 1..k - 1 /\ Behind(h, i, k) /\ h[k].ev.type = "ToolResultRecorded" /\ Use(h, i, h[k].ev.key)
             /\ Visible(h, i) <=> Visible(h, k)
    <2>1. /\ k \in i + 1..N /\ log[k].ev.type = "ToolResultRecorded" /\ Use(log, i, log[k].ev.key)
          /\ Behind(log, i, k - 1)
        BY <1>6 DEF ResultOf
    <2>2. \A j \in i + 1..k : (j \in i + 1..k - 1 \/ j = k) /\ j \in 1..N /\ h[j] = log[j]
        BY <1>1, <2>1
    <2>3. \A j \in i + 1..k : h[j].ev.type \in RoundTypes
        BY <2>1, <2>2 DEF Behind, RoundTypes
    <2>4. ASSUME NEW j \in i + 1..k, NEW x \in i + 1..k, j < x, h[j].ev.type = "ToolResultRecorded"
          PROVE  h[x].ev.type \notin BlockTypes
        <3>1. CASE x = k
            BY <2>1, <2>2, <3>1 DEF BlockTypes
        <3>2. CASE x # k
            <4>1. j \in i + 1..k - 1 /\ x \in i + 1..k - 1
                BY <2>1, <2>2, <2>4, <3>2
            <4> QED
                BY <2>1, <2>2, <2>4, <4>1 DEF Behind
        <3> QED
            BY <3>1, <3>2
    <2>5. Behind(h, i, k)
        BY <2>3, <2>4 DEF Behind
    <2>6. Visible(h, i) <=> Visible(h, k)
        BY <1>1, <1>2, <1>6, SameCover
    <2>7. Use(h, i, h[k].ev.key)
        BY <1>1, <2>1 DEF Use
    <2> QED
        BY <1>1, <2>1, <2>5, <2>6, <2>7
<1>7. \A i : /\ CallBlock(h, i).kind = "ToolUse" /\ CallBlock(h, i).key = h[i].ev.key
             /\ CallBlock(h, i).turn = h[i].ev.turn
    BY DEF CallBlock, Block
<1>8. \A k : Reply(h, k)[1].key = h[k].ev.key
    BY DEF Reply, Block
<1>9. ASSUME NEW m \in DOMAIN ms, NEW b \in uses(m), b.turn \notin cut, ~short
      PROVE  \E k \in DOMAIN ms : Follows(m, k) /\ ms[k].content[1].key = b.key
    <2>1. b \in ToSet(ms[m].content) /\ b.kind = "ToolUse"
        OBVIOUS
    <2>2. PICK i \in 1..N : UseSeen(h, i, N) /\ b = CallBlock(h, i)
        BY <1>5, <2>1 DEF Told, Calls
    <2>3. /\ i \in 1..n /\ log[i].ev.type = "ToolUseRecorded" /\ log[i].ev.turn \notin cut /\ b.key = log[i].ev.key
        BY <1>1, <1>7, <1>9, <2>2 DEF UseSeen
    <2>4. HasResult(log, i)
        BY <1>1, <1>2, <2>3 DEF Accounted, Open
    <2>5. PICK k \in 1..n : ResultOf(log, i, k, n)
        BY <1>1, <2>4 DEF HasResult, n
    <2>6. k \in 1..N
        <3>1. \A j \in N + 1..n : log[j].ev.type # "ToolResultRecorded"
            BY <1>2, <1>9 DEF InPass, PassPcs, N, n
        <3>2. k \notin N + 1..n
            BY <2>5, <3>1 DEF ResultOf
        <3> QED
            BY <1>1, <3>2
    <2>7. ResultOf(log, i, k, N)
        BY <1>1, <2>5, <2>6 DEF ResultOf
    <2>8. UseSeen(h, i, N) /\ ResultSeen(h, k, N) /\ Behind(h, i, k) /\ i \in 1..k - 1 /\ Holds(ms, m, CallBlock(h, i))
        BY <1>6, <2>1, <2>2, <2>6, <2>7 DEF UseSeen, ResultSeen, Holds
    <2>9. PICK j \in m + 1..L : ms[j].content = Reply(h, k) /\ ToolsBetween(ms, m, j)
        BY <1>5, <2>6, <2>8 DEF Told, CallsTold, L
    <2>10. j \in DOMAIN ms /\ Follows(m, j)
        BY <1>5, <2>9 DEF ToolsBetween
    <2>11. ms[j].content[1].key = b.key
        BY <1>1, <1>8, <2>3, <2>5, <2>6, <2>9 DEF ResultOf, Use
    <2> QED
        BY <2>10, <2>11
<1>10. ASSUME NEW m \in DOMAIN ms, ms[m].role = "tool"
       PROVE  \E l \in DOMAIN ms : Follows(l, m) /\ \E b \in uses(l) : b.key = ms[m].content[1].key
    <2>1. PICK k \in 1..N :
              /\ ResultSeen(h, k, N) /\ ms[m].content = Reply(h, k)
              /\ \A i \in 1..k - 1 : UseSeen(h, i, N) /\ Behind(h, i, k) =>
                    \E l \in 1..m - 1 : Holds(ms, l, CallBlock(h, i)) /\ ToolsBetween(ms, l, m)
        BY <1>5, <1>10 DEF Told, ResultsTold
    <2>2. Placed(log, log[k], k - 1) /\ log[k].ev.type = "ToolResultRecorded" /\ Visible(h, k) /\ h[k] = log[k]
        BY <1>1, <1>2, <2>1 DEF ResultSeen
    <2>3. PICK i \in 1..k - 1 : Use(log, i, log[k].ev.key) /\ Behind(log, i, k - 1)
        BY <2>2 DEF Placed
    <2>4. i \in 1..N /\ ResultOf(log, i, k, N)
        BY <1>1, <2>2, <2>3 DEF ResultOf
    <2>5. UseSeen(h, i, N) /\ Behind(h, i, k) /\ Use(h, i, h[k].ev.key)
        BY <1>6, <2>2, <2>4 DEF UseSeen, Use
    <2>6. PICK l \in 1..m - 1 : Holds(ms, l, CallBlock(h, i)) /\ ToolsBetween(ms, l, m)
        BY <2>1, <2>3, <2>5
    <2>7. l \in DOMAIN ms /\ Follows(l, m)
        BY <1>5, <1>10, <2>6 DEF ToolsBetween, Holds
    <2>8. CallBlock(h, i) \in uses(l) /\ CallBlock(h, i).key = ms[m].content[1].key
        BY <1>7, <1>8, <2>1, <2>5, <2>6 DEF Holds, Use
    <2> QED
        BY <2>7, <2>8
<1> QED
    BY <1>9, <1>10 DEF ResultsMatch, ms

-----------------------------------------------------------------------------
(* The invariant and the theorems.                                         *)

ContextInv == Base /\ RoundsOK /\ CleanOK /\ PromptOK /\ SkillOnce

\* The invariant holds at the start, and over every step.
LEMMA InitInv == Init => ContextInv
<1> SUFFICES ASSUME Init
             PROVE  ContextInv
    OBVIOUS
<1>1. /\ log = <<>> /\ pc = "idle" /\ turn = None /\ seen = 0 /\ todo = <<>> /\ fresh = <<>>
      /\ reply = <<>> /\ pending = <<>> /\ cut = {}
    BY DEF Init
<1>2. Len(log) = 0 /\ DOMAIN log = {} /\ IsSeq(log)
    BY <1>1 DEF IsSeq
<1>3. WellTyped(log)
    BY <1>2 DEF WellTyped
<1>4. FreshTurn(EvsOf(log)) \in Nat \ {0}
    BY <1>3, EvsType
<1>5. ContextTypes
    <2>1. seen \in 0..Len(log) /\ turn \in Nat /\ pc \in Away /\ pc # "load"
        BY <1>1, <1>2 DEF Away, None
    <2>2. todo \in Words /\ fresh \in Words /\ pending \in Seq(Waiting) /\ reply \in Seq(StreamedBlock)
        BY <1>1 DEF Words
    <2> QED
        BY <1>1, <1>3, <2>1, <2>2 DEF ContextTypes
<1>6. TurnsOK
    BY <1>1, <1>2, <1>4 DEF TurnsOK, None
<1>7. SourcesOf(log) /\ HandsOK /\ OnceOf(log) /\ CleanOK /\ PromptOK /\ SkillOnce
    BY <1>1, <1>2 DEF SourcesOf, HandsOK, OnceOf, CleanOK, PromptOK, SkillOnce
<1>8. RoundsOK
    <2>1. PlacesOf(log) /\ Accounted(log, pc, turn, pending, cut) /\ InHand(log, pc, turn, pending)
        BY <1>1, <1>2 DEF PlacesOf, Accounted, InHand
    <2>2. CutsOf(log, pc, turn, cut) /\ InPass(log, pc, seen, short)
        BY <1>1 DEF CutsOf, InPass, PassPcs
    <2> QED
        BY <1>1, <2>1, <2>2 DEF RoundsOK
<1> QED
    BY <1>5, <1>6, <1>7, <1>8 DEF ContextInv, Base

\* Every step keeps the invariant.
LEMMA StepInv == ContextInv /\ [Next]_vars => ContextInv'
<1> SUFFICES ASSUME ContextInv, [Next]_vars
             PROVE  ContextInv'
    OBVIOUS
<1>1. Base /\ RoundsOK /\ CleanOK /\ PromptOK /\ SkillOnce
    BY DEF ContextInv
<1>2. CASE Next
    <2>1. Base'
        BY <1>1, <1>2, TypesStep, TurnsStep, SourcesStep, HandsStep DEF Base
    <2>2. RoundsOK' /\ CleanOK' /\ PromptOK' /\ SkillOnce'
        BY <1>1, <1>2, RoundsStep, CleanStep, PromptStep, SkillStep
    <2> QED
        BY <2>1, <2>2 DEF ContextInv
<1>3. CASE UNCHANGED vars
    BY <1>1, <1>3 DEF vars, ContextInv, Base, ContextTypes, TurnsOK, HandsOK, RoundsOK, CleanOK, PromptOK,
       SkillOnce, History
<1> QED
    BY <1>2, <1>3

\* The invariant holds in every state.
LEMMA ContextInvariant == Spec => []ContextInv
BY InitInv, StepInv, PTL DEF Spec

\* The body of a skill goes into one suffix in the life of a session, and into none
\* after a call has loaded it, unless a read or a write of the pass failed in that turn
\* or a crash hit it (SkillContextInjector over collect_prior_activations).
THEOREM ContextSkillOnce == Spec => []SkillOnce
<1>1. ContextInv => SkillOnce
    BY DEF ContextInv
<1> QED
    BY <1>1, ContextInvariant, PTL

\* What H11 decided for a turn is what the turn is prompted with in all its later rounds,
\* and no call of it sees the suffix of another turn (find_system_prompt_suffix and the
\* override of the turn, found again in the log the next pass reads).
THEOREM ContextLaterRoundsDecided == Spec => []LaterRoundsDecided
<1>1. ContextInv => LaterRoundsDecided
    <2> SUFFICES ASSUME ContextInv, pc = "call"
                 PROVE  LaterRoundsDecided
        BY DEF LaterRoundsDecided, AtCall
    <2>0. Base /\ CleanOK /\ PromptOK
        BY DEF ContextInv
    <2> DEFINE h == History
               at == LatestFor(h, "SystemPromptInjected", turn)
    <2>1. /\ seen \in Nat /\ seen <= Len(log) /\ DOMAIN h = 1..seen /\ Len(log) \in Nat
          /\ DOMAIN log = 1..Len(log) /\ WellTyped(log) /\ seen \in 0..Len(log)
          /\ \A i \in 1..seen : i \in DOMAIN log /\ h[i] = log[i]
        BY <2>0, HistoryIs DEF Base, ContextTypes
    <2>2. prompt.system = Suffix(h, turn) /\ prompt.tools = Surface(deps.tools.list, OverrideMode(h, turn))
        BY <2>0 DEF PromptOK
    <2>3. Meta("SkillActivated") = Activation(turn)
        BY DEF Meta, Activation
    <2>4. prompt.system = IF at = 0 THEN <<>> ELSE h[at].data.names
        BY <2>2 DEF Suffix
    <2>a. at # 0 => at \in Of(h, "SystemPromptInjected", turn)
        BY <2>1, LatestForIs
    <2> HIDE DEF h, at
    <2>5. \A i \in DOMAIN prompt.system : \E k \in DOMAIN log :
              log[k].ev = Activation(turn) /\ prompt.system[i] \in ToSet(log[k].data.names)
        <3>1. CASE at = 0
            BY <2>4, <3>1
        <3>2. CASE at # 0
            <4>1. at \in 1..seen /\ h[at] = log[at] /\ log[at].ev.type = "SystemPromptInjected"
                  /\ log[at].ev.turn = turn
                BY <2>1, <2>a, <3>2 DEF Of
            <4>2. Sourced(log, log[at], at - 1)
                BY <2>0, <2>1, <4>1 DEF Base, SourcesOf
            <4>3. \A x \in ToSet(log[at].data.names) : \E j \in 1..(at - 1) : ActivatedAt(log, j, turn, x)
                BY <4>1, <4>2 DEF Sourced
            <4>4. \A j \in 1..(at - 1) : j \in DOMAIN log
                BY <2>1, <4>1
            <4>5. prompt.system = log[at].data.names
                BY <2>4, <3>2, <4>1
            <4>6. \A i \in DOMAIN prompt.system : prompt.system[i] \in ToSet(log[at].data.names)
                BY <4>5 DEF ToSet
            <4> QED
                BY <4>3, <4>4, <4>6 DEF ActivatedAt
        <3> QED
            BY <3>1, <3>2
    <2>6. ASSUME CountModelCalls(Evs, turn) > 0, turn \notin dirty
          PROVE  /\ prompt.tools = Surface(deps.tools.list, OverrideMode(log, turn))
                 /\ ToSet(prompt.system) = ActivatedIn(log, turn)
        <3>1. Called(log, turn)
            <4>1. DOMAIN Evs = DOMAIN log /\ \A i \in DOMAIN log : Evs[i] = log[i].ev
                BY DEF Evs
            <4>2. ~Called(log, turn) => {i \in Positions(Evs, {"ModelCallStarted"}) : Evs[i].turn = turn} = {}
                BY <4>1 DEF Called, Of, Positions
            <4>3. ~Called(log, turn) => CountModelCalls(Evs, turn) = 0
                BY <4>2, FS_EmptySet DEF CountModelCalls
            <4> QED
                BY <2>6, <4>3
        <3>2. Clean(log, turn, pc, seen, todo, fresh)
            BY <2>0, <2>6 DEF CleanOK, Base, ContextTypes, Away
        <3>3. SuffixBy(log, turn, seen) /\ OverrideBy(log, turn, seen)
            BY <3>1, <3>2 DEF Clean, PassPcs
        <3>4. PICK i \in Of(log, "SystemPromptInjected", turn) :
                  i <= seen /\ ToSet(log[i].data.names) = ActivatedIn(log, turn)
            BY <3>3 DEF SuffixBy
        <3>5. PICK k \in Of(log, "ToolFilterOverridden", turn) : k <= seen
            BY <3>3 DEF OverrideBy
        <3>6. OnceOf(log) /\ "SystemPromptInjected" \in OnceTypes /\ "ToolFilterOverridden" \in OnceTypes
            BY <2>0 DEF Base, OnceTypes
        <3>a. ASSUME NEW type \in OnceTypes, NEW p \in Of(log, type, turn), p <= seen
              PROVE  LatestFor(h, type, turn) = p /\ h[p] = log[p] /\ LatestFor(log, type, turn) = p
            BY <2>1, <3>6, <3>a, OnceFound
        <3>7. LatestFor(h, "SystemPromptInjected", turn) = i /\ h[i] = log[i] /\ i # 0
            BY <2>1, <3>4, <3>6, <3>a DEF Of
        <3>8. /\ LatestFor(h, "ToolFilterOverridden", turn) = k /\ h[k] = log[k]
              /\ LatestFor(log, "ToolFilterOverridden", turn) = k
            BY <3>5, <3>6, <3>a
        <3>9. OverrideMode(h, turn) = OverrideMode(log, turn)
            BY <3>8 DEF OverrideMode
        <3>10. prompt.system = log[i].data.names
            BY <2>4, <3>7 DEF at
        <3> QED
            BY <2>2, <3>4, <3>9, <3>10
    <2> QED
        BY <2>3, <2>5, <2>6 DEF LaterRoundsDecided, ActivatedIn
<1> QED
    BY <1>1, ContextInvariant, PTL

\* A call that is sent has its result in the messages right behind it, a result its call
\* right before it (StandardProjector over what the driver, H03 and the compactor leave in
\* the log): no compaction parts a call from its result, and no resume loses or repeats one.
THEOREM ContextResultsMatch == Spec => []ResultsMatch
<1>1. ContextInv => ResultsMatch
    <2>1. CASE pc = "call"
        BY <2>1, RequestMatches DEF ContextInv, PromptOK
    <2>2. CASE pc # "call"
        BY <2>2 DEF ResultsMatch, AtCall
    <2> QED
        BY <2>1, <2>2
<1> QED
    BY <1>1, ContextInvariant, PTL
=============================================================================
