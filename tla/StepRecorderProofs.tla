------------------------- MODULE StepRecorderProofs -------------------------
(***************************************************************************)
(* The step recorder over the JSONL store, for any number of turns, rounds, *)
(* failed writes and crashes: seqs ascend and a file that can be read has   *)
(* none missing, the history cache is the end of the file, H11's events are *)
(* written once per turn, a failed write costs one acknowledged event at    *)
(* most, and the recorder accepts what the truncating compactor proposes.   *)
(*                                                                         *)
(* The invariant says of the last line, the only one that can be cut, what  *)
(* the counter knows of it: a line cut by this recorder bears the seq of the *)
(* next event, which will run into it; one found at the opening is counted.  *)
(***************************************************************************)
EXTENDS StepRecorder, EventLogProofs

FileOK(f) == /\ IsSeq(f)
             /\ \A i \in 1..Len(f) : /\ f[i].ok \in BOOLEAN /\ f[i].nl \in BOOLEAN
                                     /\ f[i].body.seq \in Nat

Ascending(f) == \A i, k \in 1..Len(f) : i < k /\ f[i].ok /\ f[k].ok => f[i].body.seq < f[k].body.seq

Numbered(f) == Readable(f) => \A i \in 1..Len(f) : f[i].body.seq = i - 1

\* The counter n is past every line, but for one that was cut when it was written.
Past(f, n) ==
    /\ \A i \in 1..Len(f) : f[i].ok =>
          f[i].body.seq <= n /\ (f[i].body.seq = n => i = Len(f) /\ ~f[i].nl)
    /\ Readable(f) => Len(f) = n \/ (Len(f) = n + 1 /\ Dangling(f))

\* The cache c is the end of what the counter n has counted of f.
Suffix(f, n, c) ==
    /\ IsSeq(c) /\ Len(c) <= n
    /\ \A i \in 1..Len(c) : c[i].seq = n - Len(c) + i - 1
    /\ Readable(f) => \A i \in 1..Len(c) : c[i] = f[n - Len(c) + i].body

\* A cache that nothing is missing of has every line that was acknowledged.
Whole(f, n, c) ==
    n = Len(c) => \A i \in 1..Len(f) : f[i].ok /\ f[i].body.seq < n =>
                      \E j \in 1..Len(c) : c[j] = f[i].body

Onces == {"SystemPromptInjected", "ToolFilterOverridden", "ContextCompacted"}

\* H11's events are in the file once, and never as its first event.
Once(f) ==
    /\ \A i \in 1..Len(f) : f[i].ok /\ f[i].body.ev.type \in Onces => f[i].body.seq >= 1
    /\ \A i, k \in 1..Len(f) : /\ f[i].ok /\ f[k].ok /\ f[i].body.ev.type \in Onces
                               /\ f[i].body.ev = f[k].body.ev
                               => i = k

\* What was acknowledged and is not in the file.
Lost(f, c) == {i \in DOMAIN c : \A k \in DOMAIN f : f[k].body = c[i] => ~f[k].ok}

\* The last line was cut and counted at the opening.
Counted(f, n) == Dangling(f) /\ f[Len(f)].ok /\ f[Len(f)].body.seq < n

\* Where a session may be that was opened and has written nothing yet.
Opened == {"idle", "enter", "complete", "dispatch", "refused"}

\* Every loss was paid for, and a cut line is a loss to come: of two events if the cut
\* one was counted, and may be in the cache.
Paid(f, n, c, at, spent) ==
    /\ Cardinality(Lost(f, c)) <= spent
    /\ Dangling(f) => Cardinality(Lost(f, c)) + 1 <= spent
    /\ Counted(f, n) => \/ c = <<>> /\ at \in Opened
                        \/ Cardinality(Lost(f, c)) + 2 <= spent

Closed == {"down", "refused"}

\* The writes of H11 that may fail and be tried again.
H11 == {"compact", "inject", "inject_again", "override", "override_again"}

RInv ==
    /\ FileOK(file) /\ seq_counter \in Nat /\ faults \in Nat
    /\ Ascending(file) /\ Numbered(file) /\ Once(file)
    /\ pc \in Closed => history_cache = <<>>
    /\ pc = "down" => seq_counter = 0
    /\ pc \notin Closed =>
          /\ Past(file, seq_counter)
          /\ Suffix(file, seq_counter, history_cache)
          /\ Whole(file, seq_counter, history_cache)
    /\ pc \notin Closed \cup {"idle"} => seq_counter >= 1
    /\ Paid(file, seq_counter, history_cache, pc, faults)

-----------------------------------------------------------------------------
(* The file.                                                               *)

\* What a write of a line makes of a file that ends in a newline, and of one that does not.
Extended(f, g, ok, body, nl) ==
    /\ IsSeq(g) /\ Len(g) = Len(f) + 1
    /\ \A i \in 1..Len(f) : g[i] = f[i]
    /\ g[Len(g)].ok = ok /\ g[Len(g)].body = body /\ g[Len(g)].nl = nl

Overrun(f, g, body, nl) ==
    /\ IsSeq(g) /\ Len(g) = Len(f) /\ Len(f) >= 1
    /\ \A i \in 1..(Len(f) - 1) : g[i] = f[i]
    /\ g[Len(g)].ok \in BOOLEAN /\ ~g[Len(g)].ok /\ g[Len(g)].body = body /\ g[Len(g)].nl = nl

LEMMA ContinueShape ==
    ASSUME NEW f, IsSeq(f), NEW ok \in BOOLEAN, NEW body, NEW nl \in BOOLEAN
    PROVE  /\ ~Dangling(f) => Extended(f, Continue(f, Line(ok, body, nl)), ok, body, nl)
           /\ Dangling(f) => Overrun(f, Continue(f, Line(ok, body, nl)), body, nl)
<1> DEFINE l == Line(ok, body, nl)
           no == FALSE
           cut == Line(no, body, nl)
<1>1. l.ok = ok /\ l.body = body /\ l.nl = nl
    BY DEF Line
<1>2. ~no /\ no \in BOOLEAN
    OBVIOUS
<1> HIDE DEF no
<1>3. cut.ok = no /\ cut.body = body /\ cut.nl = nl
    BY DEF Line
<1>4. ASSUME ~Dangling(f)
      PROVE  Extended(f, Continue(f, l), ok, body, nl)
    <2>1. Continue(f, l) = Append(f, l)
        BY <1>4 DEF Continue
    <2> HIDE DEF l
    <2> QED
        BY <1>1, <2>1, AppendLonger DEF Extended, Longer
<1>5. ASSUME Dangling(f)
      PROVE  Overrun(f, Continue(f, l), body, nl)
    <2> DEFINE g == [f EXCEPT ![Len(f)] = cut]
               n == Len(f)
               S == {f[i] : i \in 1..n} \cup {cut}
    <2>1. Continue(f, l) = g
        BY <1>1, <1>5 DEF Continue, no
    <2>2. f \in Seq(S) /\ DOMAIN f = 1..n /\ n \in Nat
        <3>1. \A i \in 1..Len(f) : f[i] \in S
            OBVIOUS
        <3> HIDE DEF S
        <3> QED
            BY <3>1, IsSeqSeq
    <2>3. cut \in S
        OBVIOUS
    <2>4. n >= 1
        BY <1>5, <2>2 DEF Dangling
    <2> HIDE DEF S, cut
    <2>5. g \in Seq(S) /\ Len(g) = n
        BY <2>2, <2>3, <2>4
    <2>6. IsSeq(g)
        BY <2>5, SeqIsSeq
    <2>7. (\A i \in 1..(n - 1) : g[i] = f[i]) /\ g[n] = cut
        BY <2>2, <2>4
    <2> HIDE DEF g
    <2> QED
        BY <1>2, <1>3, <2>1, <2>4, <2>5, <2>6, <2>7 DEF Overrun
<1> QED
    BY <1>4, <1>5

-----------------------------------------------------------------------------
(* A write, case by case: an append, a write that is cut, and the two that  *)
(* run into a cut line.                                                     *)

\* What is true of the file alone.
Sound(f) == FileOK(f) /\ Ascending(f) /\ Numbered(f) /\ Once(f)

\* What is true of it and of the recorder that has it open.
Kept(f, n, c) == Past(f, n) /\ Suffix(f, n, c) /\ Whole(f, n, c)

\* An event that H11 writes once is no event the counter has counted.
Unwritten(f, n, ev) ==
    ev.type \in Onces =>
        /\ n >= 1
        /\ \A i \in 1..Len(f) : f[i].ok /\ f[i].body.seq < n => f[i].body.ev # ev

\* The recorder is about to write the event b.
Writing(f, n, c, b) == n \in Nat /\ Sound(f) /\ Kept(f, n, c) /\ b.seq = n

\* An append that is acknowledged.
LEMMA AppendKeeps ==
    ASSUME NEW f, NEW g, NEW n, NEW c, NEW b, NEW d, Longer(c, b, d), NEW yes \in BOOLEAN, yes,
           Writing(f, n, c, b), Unwritten(f, n, b.ev),
           ~Dangling(f), Extended(f, g, yes, b, yes)
    PROVE  Sound(g) /\ Kept(g, n + 1, d)
<1> USE DEF Writing
<1> DEFINE m == Len(f)
           len == Len(c)
<1>1. /\ m \in Nat /\ IsSeq(g) /\ Len(g) = m + 1
      /\ \A i \in 1..m : g[i] = f[i]
      /\ g[m + 1].ok /\ g[m + 1].ok \in BOOLEAN /\ g[m + 1].body = b /\ g[m + 1].nl /\ g[m + 1].nl \in BOOLEAN
    BY DEF Extended, Sound, FileOK, IsSeq
<1>2. \A i \in 1..m : f[i].ok \in BOOLEAN /\ f[i].nl \in BOOLEAN /\ f[i].body.seq \in Nat
    BY DEF Sound, FileOK
<1>3. \A i \in 1..m : f[i].ok => f[i].body.seq < n
    <2>1. m >= 1 => f[m].nl
        BY <1>1 DEF Dangling
    <2> QED
        BY <1>1, <1>2, <2>1 DEF Kept, Past
<1>4. /\ IsSeq(d) /\ Len(d) = len + 1 /\ len \in Nat
      /\ \A i \in 1..len : d[i] = c[i]
      /\ d[len + 1] = b
    BY DEF Longer
<1>5. DOMAIN f = 1..m /\ DOMAIN g = 1..(m + 1)
    BY <1>1 DEF Sound, FileOK, IsSeq
<1>6. Readable(g) => Readable(f) /\ m = n
    <2> SUFFICES ASSUME Readable(g)
                 PROVE  Readable(f) /\ m = n
        OBVIOUS
    <2> HIDE DEF m
    <2>1. \A i \in 1..m : i \in 1..(m + 1) /\ g[i].ok
        BY <1>1, <1>5 DEF Readable
    <2>2. Readable(f)
        BY <1>1, <1>5, <2>1 DEF Readable
    <2>3. m = n
        BY <2>2 DEF Kept, Past, m
    <2> QED
        BY <2>2, <2>3
<1> HIDE DEF m, len
<1>7. FileOK(g)
    <2> SUFFICES ASSUME NEW i \in 1..(m + 1)
                 PROVE  g[i].ok \in BOOLEAN /\ g[i].nl \in BOOLEAN /\ g[i].body.seq \in Nat
        BY <1>1 DEF FileOK
    <2>1. CASE i = m + 1
        BY <1>1, <2>1
    <2>2. CASE i \in 1..m
        BY <1>1, <1>2, <2>2
    <2> QED
        BY <1>1, <2>1, <2>2
<1>8. Ascending(g)
    BY <1>1, <1>2, <1>3 DEF Ascending, Sound, m
<1>9. Numbered(g)
    BY <1>1, <1>6 DEF Numbered, Sound, m
<1>10. Once(g)
    <2>1. b.ev.type \in Onces => n >= 1 /\ \A i \in 1..m : f[i].ok => f[i].body.ev # b.ev
        BY <1>3 DEF Unwritten, m
    <2>2. /\ \A i \in 1..m : f[i].ok /\ f[i].body.ev.type \in Onces => f[i].body.seq >= 1
          /\ \A i, k \in 1..m : /\ f[i].ok /\ f[k].ok /\ f[i].body.ev.type \in Onces
                                 /\ f[i].body.ev = f[k].body.ev
                                 => i = k
        BY DEF Sound, Once, m
    <2>3. ASSUME NEW i \in 1..(m + 1), g[i].ok, g[i].body.ev.type \in Onces
          PROVE  /\ g[i].body.seq >= 1
                 /\ \A k \in 1..(m + 1) : g[k].ok /\ g[k].body.ev = g[i].body.ev => i = k
        <3>1. CASE i = m + 1
            <4>1. \A k \in 1..m : g[k].ok => g[k].body.ev # g[i].body.ev
                BY <1>1, <2>1, <2>3, <3>1
            <4> QED
                BY <1>1, <2>1, <2>3, <3>1, <4>1
        <3>2. CASE i \in 1..m
            <4>1. g[i] = f[i]
                BY <1>1, <3>2
            <4>2. g[m + 1].ok => g[m + 1].body.ev # g[i].body.ev
                BY <1>1, <2>1, <2>3, <3>2, <4>1
            <4>3. \A k \in 1..m : g[k].ok /\ g[k].body.ev = g[i].body.ev => i = k
                BY <1>1, <2>2, <2>3, <3>2, <4>1
            <4> QED
                BY <1>1, <2>2, <2>3, <3>2, <4>1, <4>2, <4>3
        <3> QED
            BY <1>1, <3>1, <3>2
    <2> QED
        BY <1>1, <2>3 DEF Once
<1>11. Past(g, n + 1)
    BY <1>1, <1>2, <1>3, <1>6 DEF Past
<1>12. Suffix(g, n + 1, d)
    <2>1. /\ len <= n /\ \A i \in 1..len : c[i].seq = n - len + i - 1
          /\ Readable(f) => \A i \in 1..len : c[i] = f[n - len + i].body
        BY DEF Kept, Suffix, len
    <2>2. \A i \in 1..(len + 1) : d[i].seq = (n + 1) - (len + 1) + i - 1
        BY <1>4, <2>1
    <2>3. ASSUME Readable(g), NEW i \in 1..(len + 1)
          PROVE  d[i] = g[(n + 1) - (len + 1) + i].body
        <3>1. Readable(f) /\ m = n /\ (n + 1) - (len + 1) + i = n - len + i
            BY <1>4, <1>6, <2>3
        <3>2. CASE i = len + 1
            <4>1. n - len + i = m + 1
                BY <1>4, <3>1, <3>2
            <4> QED
                BY <1>1, <1>4, <3>1, <3>2, <4>1
        <3>3. CASE i \in 1..len
            <4>1. n - len + i \in 1..m
                BY <1>4, <2>1, <3>1, <3>3
            <4> QED
                BY <1>1, <1>4, <2>1, <3>1, <3>3, <4>1
        <3> QED
            BY <1>4, <3>2, <3>3
    <2> QED
        BY <1>4, <2>1, <2>2, <2>3 DEF Suffix
<1>13. Whole(g, n + 1, d)
    <2> SUFFICES ASSUME n = len, NEW i \in 1..(m + 1), g[i].ok
                 PROVE  \E j \in 1..(len + 1) : d[j] = g[i].body
        BY <1>1, <1>4 DEF Whole
    <2>1. CASE i = m + 1
        BY <1>1, <1>4, <2>1
    <2>2. CASE i \in 1..m
        <3>1. g[i] = f[i] /\ f[i].body.seq < n
            BY <1>1, <1>3, <2>2
        <3>2. PICK j \in 1..len : c[j] = f[i].body
            BY <2>2, <3>1 DEF Whole, Kept, m, len
        <3> QED
            BY <1>4, <3>1, <3>2
    <2> QED
        BY <1>1, <2>1, <2>2
<1> QED
    BY <1>7, <1>8, <1>9, <1>10, <1>11, <1>12, <1>13 DEF Sound, Kept

\* A write that is cut leaves a line, which may parse, without its newline.
LEMMA CutKeeps ==
    ASSUME NEW f, NEW g, NEW n, NEW c, NEW b, NEW ok \in BOOLEAN, NEW no \in BOOLEAN, ~no,
           Writing(f, n, c, b), Unwritten(f, n, b.ev),
           ~Dangling(f), Extended(f, g, ok, b, no)
    PROVE  Sound(g) /\ Kept(g, n, c)
<1> USE DEF Writing
<1> DEFINE m == Len(f)
           len == Len(c)
<1>1. /\ m \in Nat /\ IsSeq(g) /\ Len(g) = m + 1
      /\ \A i \in 1..m : g[i] = f[i]
      /\ g[m + 1].ok \in BOOLEAN /\ g[m + 1].body = b /\ ~g[m + 1].nl /\ g[m + 1].nl \in BOOLEAN
    BY DEF Extended, Sound, FileOK, IsSeq
<1>2. \A i \in 1..m : f[i].ok \in BOOLEAN /\ f[i].nl \in BOOLEAN /\ f[i].body.seq \in Nat
    BY DEF Sound, FileOK
<1>3. \A i \in 1..m : f[i].ok => f[i].body.seq < n
    <2>1. m >= 1 => f[m].nl
        BY <1>1 DEF Dangling
    <2> QED
        BY <1>1, <1>2, <2>1 DEF Kept, Past
<1>4. len \in Nat /\ len <= n
    BY DEF Kept, Suffix, IsSeq
<1>5. DOMAIN f = 1..m /\ DOMAIN g = 1..(m + 1)
    BY <1>1 DEF Sound, FileOK, IsSeq
<1>6. Readable(g) => Readable(f) /\ m = n
    <2> SUFFICES ASSUME Readable(g)
                 PROVE  Readable(f) /\ m = n
        OBVIOUS
    <2> HIDE DEF m
    <2>1. \A i \in 1..m : i \in 1..(m + 1) /\ g[i].ok
        BY <1>1, <1>5 DEF Readable
    <2>2. Readable(f)
        BY <1>1, <1>5, <2>1 DEF Readable
    <2>3. m = n
        BY <2>2 DEF Kept, Past, m
    <2> QED
        BY <2>2, <2>3
<1>a. Dangling(g)
    <2>1. g # <<>>
        BY <1>1
    <2> QED
        BY <1>1, <2>1 DEF Dangling
<1> HIDE DEF m, len
<1>7. FileOK(g)
    <2> SUFFICES ASSUME NEW i \in 1..(m + 1)
                 PROVE  g[i].ok \in BOOLEAN /\ g[i].nl \in BOOLEAN /\ g[i].body.seq \in Nat
        BY <1>1 DEF FileOK
    <2>1. CASE i = m + 1
        BY <1>1, <2>1
    <2>2. CASE i \in 1..m
        BY <1>1, <1>2, <2>2
    <2> QED
        BY <1>1, <2>1, <2>2
<1>8. Ascending(g)
    BY <1>1, <1>2, <1>3 DEF Ascending, Sound, m
<1>9. Numbered(g)
    BY <1>1, <1>6 DEF Numbered, Sound, m
<1>10. Once(g)
    <2>1. b.ev.type \in Onces => n >= 1 /\ \A i \in 1..m : f[i].ok => f[i].body.ev # b.ev
        BY <1>3 DEF Unwritten, m
    <2>2. /\ \A i \in 1..m : f[i].ok /\ f[i].body.ev.type \in Onces => f[i].body.seq >= 1
          /\ \A i, k \in 1..m : /\ f[i].ok /\ f[k].ok /\ f[i].body.ev.type \in Onces
                                 /\ f[i].body.ev = f[k].body.ev
                                 => i = k
        BY DEF Sound, Once, m
    <2>3. ASSUME NEW i \in 1..(m + 1), g[i].ok, g[i].body.ev.type \in Onces
          PROVE  /\ g[i].body.seq >= 1
                 /\ \A k \in 1..(m + 1) : g[k].ok /\ g[k].body.ev = g[i].body.ev => i = k
        <3>1. CASE i = m + 1
            <4>1. \A k \in 1..m : g[k].ok => g[k].body.ev # g[i].body.ev
                BY <1>1, <2>1, <2>3, <3>1
            <4> QED
                BY <1>1, <2>1, <2>3, <3>1, <4>1
        <3>2. CASE i \in 1..m
            <4>1. g[i] = f[i]
                BY <1>1, <3>2
            <4>2. g[m + 1].ok => g[m + 1].body.ev # g[i].body.ev
                BY <1>1, <2>1, <2>3, <3>2, <4>1
            <4>3. \A k \in 1..m : g[k].ok /\ g[k].body.ev = g[i].body.ev => i = k
                BY <1>1, <2>2, <2>3, <3>2, <4>1
            <4> QED
                BY <1>1, <2>2, <2>3, <3>2, <4>1, <4>2, <4>3
        <3> QED
            BY <1>1, <3>1, <3>2
    <2> QED
        BY <1>1, <2>3 DEF Once
<1>11. Past(g, n)
    BY <1>1, <1>2, <1>3, <1>6, <1>a DEF Past
<1>12. Suffix(g, n, c)
    <2>1. /\ IsSeq(c) /\ \A i \in 1..len : c[i].seq = n - len + i - 1
          /\ Readable(f) => \A i \in 1..len : c[i] = f[n - len + i].body
        BY DEF Kept, Suffix, len
    <2>2. ASSUME Readable(g), NEW i \in 1..len
          PROVE  c[i] = g[n - len + i].body
        <3>1. Readable(f) /\ m = n
            BY <1>6, <2>2
        <3>2. n - len + i \in 1..m
            BY <1>4, <3>1
        <3> QED
            BY <1>1, <2>1, <3>1, <3>2
    <2> QED
        BY <1>4, <2>1, <2>2 DEF Suffix, len
<1>13. Whole(g, n, c)
    BY <1>1, <1>2, <1>3, <1>4 DEF Whole, Kept, m, len
<1> QED
    BY <1>7, <1>8, <1>9, <1>10, <1>11, <1>12, <1>13 DEF Sound, Kept

\* A write that runs into a cut line makes the file unreadable: acknowledged or cut itself.
LEMMA OverrunKeeps ==
    ASSUME NEW f, NEW g, NEW n, NEW c, NEW b, NEW d, Longer(c, b, d), NEW nl \in BOOLEAN,
           Writing(f, n, c, b), Overrun(f, g, b, nl)
    PROVE  Sound(g) /\ Kept(g, n, c) /\ Kept(g, n + 1, d)
<1> USE DEF Writing
<1> DEFINE m == Len(f)
           len == Len(c)
<1>1. /\ m \in Nat /\ m >= 1 /\ IsSeq(g) /\ Len(g) = m
      /\ \A i \in 1..(m - 1) : g[i] = f[i]
      /\ g[m].ok \in BOOLEAN /\ ~g[m].ok /\ g[m].body = b /\ g[m].nl \in BOOLEAN
    <2>1. m \in Nat
        BY DEF Sound, FileOK, IsSeq
    <2>2. g[m].ok \in BOOLEAN /\ ~g[m].ok
        BY DEF Overrun
    <2> QED
        BY <2>1, <2>2 DEF Overrun
<1>2. \A i \in 1..m : f[i].ok \in BOOLEAN /\ f[i].nl \in BOOLEAN /\ f[i].body.seq \in Nat
    BY DEF Sound, FileOK
<1>3. \A i \in 1..(m - 1) : f[i].ok => f[i].body.seq < n
    BY <1>1, <1>2 DEF Kept, Past
<1>4. /\ IsSeq(d) /\ Len(d) = len + 1 /\ len \in Nat
      /\ \A i \in 1..len : d[i] = c[i]
      /\ d[len + 1] = b
    BY DEF Longer
<1>5. DOMAIN f = 1..m /\ DOMAIN g = 1..m
    BY <1>1 DEF Sound, FileOK, IsSeq
<1>6. ~Readable(g)
    BY <1>1, <1>5 DEF Readable
<1> HIDE DEF m, len
<1>7. FileOK(g)
    BY <1>1, <1>2 DEF FileOK
<1>8. Ascending(g)
    BY <1>1, <1>2, <1>3 DEF Ascending, Sound, m
<1>9. Numbered(g)
    BY <1>6 DEF Numbered
<1>10. Once(g)
    <2>1. \A i \in 1..m : g[i].ok => i \in 1..(m - 1) /\ g[i] = f[i] /\ i \in 1..Len(f)
        BY <1>1 DEF m
    <2>2. Once(f)
        BY DEF Sound
    <2>3. Len(g) = m
        BY <1>1
    <2> QED
        BY <2>1, <2>2, <2>3 DEF Once
<1>11. Past(g, n) /\ Past(g, n + 1)
    BY <1>1, <1>2, <1>3, <1>6 DEF Past
<1>12. Suffix(g, n, c) /\ Suffix(g, n + 1, d)
    <2>1. IsSeq(c) /\ len <= n /\ \A i \in 1..len : c[i].seq = n - len + i - 1
        BY DEF Kept, Suffix, len
    <2>2. \A i \in 1..(len + 1) : d[i].seq = (n + 1) - (len + 1) + i - 1
        BY <1>4, <2>1
    <2>3. Suffix(g, n, c)
        BY <1>6, <2>1 DEF Suffix, len
    <2>4. Suffix(g, n + 1, d)
        BY <1>4, <1>6, <2>1, <2>2 DEF Suffix
    <2> QED
        BY <2>3, <2>4
<1>13. Whole(g, n, c)
    BY <1>1, <1>2, <1>3, <1>4 DEF Whole, Kept, m, len
<1>14. Whole(g, n + 1, d)
    <2> SUFFICES ASSUME n = len, NEW i \in 1..m, g[i].ok
                 PROVE  \E j \in 1..(len + 1) : d[j] = g[i].body
        BY <1>1, <1>4 DEF Whole
    <2>1. i \in 1..(m - 1) /\ g[i] = f[i] /\ f[i].body.seq < n
        BY <1>1, <1>3
    <2>2. PICK j \in 1..len : c[j] = f[i].body
        BY <1>1, <2>1 DEF Whole, Kept, m, len
    <2>3. j \in 1..(len + 1) /\ d[j] = g[i].body
        BY <1>4, <2>1, <2>2
    <2> QED
        BY <2>3
<1> QED
    BY <1>7, <1>8, <1>9, <1>10, <1>11, <1>12, <1>13, <1>14 DEF Sound, Kept

-----------------------------------------------------------------------------
(* What a write costs.                                                     *)

\* A set that grows by one member at most.
LEMMA OneMore ==
    ASSUME NEW A, NEW B, NEW x, IsFiniteSet(A), B \subseteq A \cup {x}
    PROVE  /\ IsFiniteSet(B) /\ Cardinality(A) \in Nat /\ Cardinality(B) \in Nat
           /\ Cardinality(B) <= Cardinality(A) + 1
           /\ B \subseteq A => Cardinality(B) <= Cardinality(A)
<1>1. /\ IsFiniteSet(A \cup {x}) /\ Cardinality(A) \in Nat
      /\ Cardinality(A \cup {x}) = Cardinality(A) \/ Cardinality(A \cup {x}) = Cardinality(A) + 1
    BY FS_AddElement, FS_CardinalityType
<1>2. IsFiniteSet(B) /\ Cardinality(B) <= Cardinality(A \cup {x})
    BY <1>1, FS_Subset
<1>3. Cardinality(B) \in Nat
    BY <1>2, FS_CardinalityType
<1>4. B \subseteq A => Cardinality(B) <= Cardinality(A)
    BY FS_Subset
<1> QED
    BY <1>1, <1>2, <1>3, <1>4

LEMMA LostFinite ==
    ASSUME NEW f, NEW c, IsSeq(c)
    PROVE  /\ Lost(f, c) \subseteq 1..Len(c) /\ DOMAIN c = 1..Len(c) /\ Len(c) \in Nat
           /\ IsFiniteSet(Lost(f, c)) /\ Cardinality(Lost(f, c)) \in Nat
           /\ c = <<>> => Lost(f, c) = {} /\ Cardinality(Lost(f, c)) = 0
<1> DEFINE n == Len(c)
<1>1. n \in Nat /\ DOMAIN c = 1..n
    BY DEF IsSeq
<1>2. Lost(f, c) \subseteq 1..n
    BY <1>1 DEF Lost
<1>3. IsFiniteSet(Lost(f, c)) /\ Cardinality(Lost(f, c)) \in Nat
    <2> HIDE DEF n
    <2> QED
        BY <1>1, <1>2, PositionsFinite
<1>4. ASSUME c = <<>>
      PROVE  Lost(f, c) = {} /\ Cardinality(Lost(f, c)) = 0
    <2>1. DOMAIN c = {}
        BY <1>4
    <2>2. Lost(f, c) = {}
        BY <2>1 DEF Lost
    <2> QED
        BY <2>2, FS_EmptySet
<1> QED
    BY <1>1, <1>2, <1>3, <1>4

\* A new line loses nothing: its body is none of the cache, and is there itself if the
\* write was acknowledged.
LEMMA ExtendedLoses ==
    ASSUME NEW f, NEW g, NEW n, NEW c, NEW b, NEW ok \in BOOLEAN, NEW nl \in BOOLEAN,
           Writing(f, n, c, b), Extended(f, g, ok, b, nl)
    PROVE  Lost(g, c) \subseteq Lost(f, c)
<1> USE DEF Writing
<1> DEFINE m == Len(f)
           len == Len(c)
<1>1. m \in Nat /\ IsSeq(g) /\ Len(g) = m + 1 /\ \A i \in 1..m : g[i] = f[i]
    BY DEF Extended, Sound, FileOK, IsSeq
<1>2. DOMAIN f = 1..m /\ DOMAIN g = 1..(m + 1) /\ DOMAIN c = 1..len
    BY <1>1 DEF Sound, FileOK, IsSeq, Kept, Suffix
<1> HIDE DEF m, len
<1> SUFFICES ASSUME NEW i \in Lost(g, c)
             PROVE  i \in Lost(f, c)
    OBVIOUS
<1>3. i \in 1..len /\ \A k \in 1..(m + 1) : g[k].body = c[i] => ~g[k].ok
    BY <1>2 DEF Lost
<1>4. \A k \in 1..m : k \in 1..(m + 1) /\ g[k] = f[k]
    BY <1>1
<1>5. \A k \in 1..m : f[k].body = c[i] => ~f[k].ok
    BY <1>3, <1>4
<1> QED
    BY <1>2, <1>3, <1>5 DEF Lost

Acked(f, g, b) == \E yes \in BOOLEAN : yes /\ Extended(f, g, yes, b, yes)

LEMMA AckedLoses ==
    ASSUME NEW f, NEW g, NEW n, NEW c, NEW b, NEW d, Longer(c, b, d), Writing(f, n, c, b), Acked(f, g, b)
    PROVE  Lost(g, d) \subseteq Lost(f, c)
<1>a. PICK yes \in BOOLEAN : yes /\ Extended(f, g, yes, b, yes)
    BY DEF Acked
<1> DEFINE m == Len(f)
           len == Len(c)
<1>0. Lost(g, c) \subseteq Lost(f, c)
    BY <1>a, ExtendedLoses
<1>1. /\ m \in Nat /\ IsSeq(g) /\ Len(g) = m + 1
      /\ g[m + 1].ok /\ g[m + 1].body = b
    BY <1>a DEF Writing, Extended, Sound, FileOK, IsSeq
<1>2. /\ DOMAIN g = 1..(m + 1) /\ DOMAIN c = 1..len /\ DOMAIN d = 1..(len + 1) /\ len \in Nat
      /\ \A i \in 1..len : d[i] = c[i]
      /\ d[len + 1] = b
    BY <1>1 DEF Longer, Writing, Kept, Suffix, IsSeq
<1> HIDE DEF m, len
<1> SUFFICES ASSUME NEW i \in Lost(g, d)
             PROVE  i \in Lost(g, c)
    BY <1>0
<1>3. i \in 1..(len + 1) /\ \A k \in 1..(m + 1) : g[k].body = d[i] => ~g[k].ok
    BY <1>2 DEF Lost
<1>4. m + 1 \in 1..(m + 1)
    BY <1>1
<1>5. i # len + 1
    BY <1>1, <1>2, <1>3, <1>4
<1>6. i \in 1..len /\ d[i] = c[i]
    BY <1>2, <1>3, <1>5
<1> QED
    BY <1>2, <1>3, <1>6 DEF Lost

\* A write that runs into a cut line loses that line if it was counted, and is lost itself.
LEMMA OverrunLoses ==
    ASSUME NEW f, NEW g, NEW n, NEW c, NEW b, NEW d, Longer(c, b, d), NEW nl \in BOOLEAN,
           Writing(f, n, c, b), Dangling(f), Overrun(f, g, b, nl)
    PROVE  /\ ~Counted(f, n) => Lost(g, c) \subseteq Lost(f, c)
           /\ \E x : Lost(g, c) \subseteq Lost(f, c) \cup {x}
           /\ Lost(g, d) \subseteq Lost(g, c) \cup {Len(c) + 1}
<1> USE DEF Writing
<1> DEFINE m == Len(f)
           len == Len(c)
<1>1. /\ m \in Nat /\ m >= 1 /\ IsSeq(g) /\ Len(g) = m
      /\ \A i \in 1..(m - 1) : g[i] = f[i]
      /\ ~g[m].ok
    <2>1. m \in Nat
        BY DEF Sound, FileOK, IsSeq
    <2>2. ~g[m].ok
        BY DEF Overrun
    <2> QED
        BY <2>1, <2>2 DEF Overrun
<1>2. DOMAIN f = 1..m /\ DOMAIN g = 1..m
    BY <1>1 DEF Sound, FileOK, IsSeq
<1>3. /\ DOMAIN c = 1..len /\ DOMAIN d = 1..(len + 1) /\ len \in Nat
      /\ \A i \in 1..len : d[i] = c[i]
    BY DEF Longer, Kept, Suffix, IsSeq
<1>4. \A i \in 1..len : c[i].seq = n - len + i - 1
    BY DEF Kept, Suffix
<1>5. f[m].body.seq \in Nat
    BY <1>1 DEF Sound, FileOK
<1>6. Counted(f, n) <=> f[m].ok /\ f[m].body.seq < n
    BY DEF Counted
<1> HIDE DEF m, len
<1>7. ASSUME NEW i \in Lost(g, c), i \notin Lost(f, c)
      PROVE  i \in 1..len /\ f[m].body = c[i] /\ f[m].ok
    <2>1. i \in 1..len /\ \A k \in 1..m : g[k].body = c[i] => ~g[k].ok
        BY <1>2, <1>3 DEF Lost
    <2>2. PICK k \in 1..m : f[k].body = c[i] /\ f[k].ok
        BY <1>2, <1>3, <1>7, <2>1 DEF Lost
    <2>3. k = m
        BY <1>1, <2>1, <2>2
    <2> QED
        BY <2>1, <2>2, <2>3
<1>8. ~Counted(f, n) => Lost(g, c) \subseteq Lost(f, c)
    <2> SUFFICES ASSUME ~Counted(f, n), NEW i \in Lost(g, c), i \notin Lost(f, c)
                 PROVE  FALSE
        OBVIOUS
    <2>1. i \in 1..len /\ f[m].body = c[i] /\ f[m].ok
        BY <1>7
    <2>2. c[i].seq < n
        BY <1>3, <1>4, <2>1
    <2> QED
        BY <1>6, <2>1, <2>2
<1>9. Lost(g, c) \subseteq Lost(f, c) \cup {f[m].body.seq - n + len + 1}
    <2> SUFFICES ASSUME NEW i \in Lost(g, c), i \notin Lost(f, c)
                 PROVE  i = f[m].body.seq - n + len + 1
        OBVIOUS
    <2>1. i \in 1..len /\ f[m].body = c[i]
        BY <1>7
    <2>2. f[m].body.seq = n - len + i - 1
        BY <1>4, <2>1
    <2> QED
        BY <1>3, <1>5, <2>1, <2>2
<1>10. Lost(g, d) \subseteq Lost(g, c) \cup {len + 1}
    <2> SUFFICES ASSUME NEW i \in Lost(g, d), i # len + 1
                 PROVE  i \in Lost(g, c)
        OBVIOUS
    <2>1. i \in 1..(len + 1) /\ \A k \in 1..m : g[k].body = d[i] => ~g[k].ok
        BY <1>2, <1>3 DEF Lost
    <2>2. i \in 1..len /\ d[i] = c[i]
        BY <1>3, <2>1
    <2> QED
        BY <1>2, <1>3, <2>1, <2>2 DEF Lost
<1> QED
    BY <1>8, <1>9, <1>10 DEF len

\* Losses stay paid for: by an append,
LEMMA AppendPaid ==
    ASSUME NEW f, NEW g, NEW n, NEW c, NEW b, NEW d, Longer(c, b, d), NEW at, NEW spent \in Nat, NEW yes \in BOOLEAN, yes,
           Writing(f, n, c, b), Paid(f, n, c, at, spent), Extended(f, g, yes, b, yes),
           NEW p
    PROVE  Paid(g, n + 1, d, p, spent)
<1> USE DEF Writing
<1> DEFINE A == Lost(f, c)
           B == Lost(g, d)
<1>1. IsFiniteSet(A) /\ Cardinality(A) <= spent
    BY LostFinite DEF Kept, Suffix, Paid
<1>2. B \subseteq A
    <2> HIDE DEF Writing
    <2>1. Acked(f, g, b)
        BY DEF Acked
    <2> QED
        BY <2>1, AckedLoses
<1>3. ~Dangling(g)
    <2>1. g[Len(g)].nl
        BY DEF Extended
    <2> QED
        BY <2>1 DEF Dangling
<1> HIDE DEF A, B
<1>4. Cardinality(B) <= spent
    BY <1>1, <1>2, OneMore
<1> QED
    BY <1>3, <1>4 DEF Paid, Counted, B

\* by a write that fails and leaves nothing,
LEMMA NothingPaid ==
    ASSUME NEW f, NEW n \in Nat, NEW c, NEW at, NEW spent \in Nat,
           Kept(f, n, c), Paid(f, n, c, at, spent), NEW p
    PROVE  Paid(f, n, c, p, spent + 1)
<1>1. Cardinality(Lost(f, c)) \in Nat
    BY LostFinite DEF Kept, Suffix
<1> QED
    BY <1>1 DEF Paid, Counted

\* by one that is cut,
LEMMA CutPaid ==
    ASSUME NEW f, NEW g, NEW n, NEW c, NEW b, NEW at, NEW spent \in Nat,
           NEW ok \in BOOLEAN, NEW no \in BOOLEAN, ~no,
           Writing(f, n, c, b), Paid(f, n, c, at, spent), Extended(f, g, ok, b, no),
           NEW p
    PROVE  Paid(g, n, c, p, spent + 1)
<1> USE DEF Writing
<1> DEFINE A == Lost(f, c)
           B == Lost(g, c)
<1>1. IsFiniteSet(A) /\ Cardinality(A) <= spent
    BY LostFinite DEF Kept, Suffix, Paid
<1>2. B \subseteq A
    <2> HIDE DEF Writing
    <2> QED
        BY ExtendedLoses
<1>3. ~Counted(g, n)
    BY DEF Extended, Counted
<1> HIDE DEF A, B
<1>4. Cardinality(B) <= spent /\ Cardinality(B) \in Nat
    BY <1>1, <1>2, OneMore
<1> QED
    BY <1>3, <1>4 DEF Paid, B

\* and by one that runs into a cut line, acknowledged or cut itself.
LEMMA OverrunPaid ==
    ASSUME NEW f, NEW g, NEW n, NEW c, NEW b, NEW d, Longer(c, b, d), NEW at, NEW spent \in Nat, NEW nl \in BOOLEAN,
           Writing(f, n, c, b), Dangling(f), Paid(f, n, c, at, spent), Overrun(f, g, b, nl),
           NEW p
    PROVE  /\ nl => Paid(g, n + 1, d, p, spent)
           /\ Paid(g, n, c, p, spent + 1)
<1> USE DEF Writing
<1> DEFINE A == Lost(f, c)
           B == Lost(g, c)
           C == Lost(g, d)
<1>1. /\ IsFiniteSet(A) /\ Cardinality(A) \in Nat /\ Cardinality(A) + 1 <= spent
      /\ Counted(f, n) => c = <<>> \/ Cardinality(A) + 2 <= spent
    BY LostFinite DEF Kept, Suffix, Paid
<1>2. /\ ~Counted(f, n) => B \subseteq A
      /\ \E x : B \subseteq A \cup {x}
      /\ C \subseteq B \cup {Len(c) + 1}
    <2> HIDE DEF Writing
    <2> QED
        BY OverrunLoses
<1>3. ~Counted(g, n) /\ ~Counted(g, n + 1) /\ (nl => ~Dangling(g))
    <2>1. ~g[Len(g)].ok /\ (nl => g[Len(g)].nl)
        BY DEF Overrun
    <2> QED
        BY <2>1 DEF Counted, Dangling
<1>4. c = <<>> => Cardinality(B) = 0
    BY LostFinite DEF Kept, Suffix
<1> HIDE DEF A, B, C
<1>5. IsFiniteSet(B) /\ Cardinality(B) \in Nat /\ Cardinality(B) + 1 <= spent
    <2>1. PICK x : B \subseteq A \cup {x}
        BY <1>2
    <2>2. /\ IsFiniteSet(B) /\ Cardinality(B) \in Nat /\ Cardinality(B) <= Cardinality(A) + 1
          /\ B \subseteq A => Cardinality(B) <= Cardinality(A)
        BY <1>1, <2>1, OneMore
    <2>3. CASE ~Counted(f, n)
        BY <1>1, <1>2, <2>2, <2>3
    <2>4. CASE c = <<>>
        BY <1>1, <1>4, <2>2, <2>4
    <2>5. CASE Cardinality(A) + 2 <= spent
        BY <1>1, <2>2, <2>5
    <2> QED
        BY <1>1, <2>3, <2>4, <2>5
<1>6. Cardinality(C) \in Nat /\ Cardinality(C) <= spent
    <2>1. Cardinality(C) \in Nat /\ Cardinality(C) <= Cardinality(B) + 1
        BY <1>2, <1>5, OneMore
    <2> QED
        BY <1>5, <2>1
<1>7. nl => Paid(g, n + 1, d, p, spent)
    BY <1>3, <1>6 DEF Paid, C
<1>8. Paid(g, n, c, p, spent + 1)
    <2>1. Cardinality(B) <= spent + 1 /\ Cardinality(B) + 1 <= spent + 1
        BY <1>5
    <2> QED
        BY <1>3, <2>1 DEF Paid, B
<1> QED
    BY <1>7, <1>8

-----------------------------------------------------------------------------
(* Write.                                                                  *)

\* Every write keeps what is true of the file and the recorder.
LEMMA WriteKeeps ==
    ASSUME NEW ev, NEW data, NEW cache, NEW how \in Hows, NEW at, NEW p,
           seq_counter \in Nat, faults \in Nat, Sound(file), Kept(file, seq_counter, cache),
           Paid(file, seq_counter, cache, at, faults), Unwritten(file, seq_counter, ev),
           Write(ev, data, cache, how)
    PROVE  /\ seq_counter' \in Nat /\ faults' \in Nat
           /\ seq_counter' >= seq_counter /\ (how = "ok" => seq_counter' >= 1)
           /\ Sound(file') /\ Kept(file', seq_counter', history_cache')
           /\ Paid(file', seq_counter', history_cache', p, faults')
<1> DEFINE b == Body(ev, data)
           n == seq_counter
           d == Append(cache, b)
           yes == TRUE
           no == FALSE
<1>1. Writing(file, n, cache, b) /\ Unwritten(file, n, b.ev)
    BY DEF Body, Writing
<1>2. yes /\ ~no /\ yes \in BOOLEAN /\ no \in BOOLEAN
    OBVIOUS
<1>3. IsSeq(file) /\ Longer(cache, b, d)
    BY AppendLonger DEF Sound, FileOK, Kept, Suffix
<1>4. CASE /\ how = "ok"
           /\ file' = Appended(file, b)
           /\ seq_counter' = n + 1
           /\ history_cache' = d
           /\ faults' = faults
    <2>1. file' = Continue(file, Line(yes, b, yes))
        BY <1>4 DEF Appended
    <2> HIDE DEF yes, no, b, d
    <2>2. CASE ~Dangling(file)
        <3>1. Extended(file, file', yes, b, yes)
            BY <1>2, <1>3, <2>1, <2>2, ContinueShape
        <3>2. Sound(file') /\ Kept(file', n + 1, d)
            BY <1>1, <1>2, <1>3, <2>2, <3>1, AppendKeeps
        <3>3. Paid(file', n + 1, d, p, faults)
            BY <1>1, <1>2, <1>3, <3>1, AppendPaid
        <3> QED
            BY <1>3, <1>4, <3>2, <3>3
    <2>3. CASE Dangling(file)
        <3>1. Overrun(file, file', b, yes)
            <4>1. Overrun(file, Continue(file, Line(yes, b, yes)), b, yes)
                BY <1>2, <1>3, <2>3, ContinueShape
            <4> QED
                BY <2>1, <4>1
        <3>2. Sound(file') /\ Kept(file', n + 1, d)
            BY <1>1, <1>2, <1>3, <3>1, OverrunKeeps
        <3>3. Paid(file', n + 1, d, p, faults)
            BY <1>1, <1>2, <1>3, <2>3, <3>1, OverrunPaid
        <3> QED
            BY <1>3, <1>4, <3>2, <3>3
    <2> QED
        BY <2>2, <2>3
<1>5. CASE /\ how \in Tears
           /\ file' = Torn(file, b, how)
           /\ faults' = faults + 1
           /\ history_cache' = cache
           /\ seq_counter' = n
    <2> DEFINE bare == how = "bare"
    <2>0. bare \in BOOLEAN /\ how # "ok"
        BY <1>5 DEF Tears
    <2>1. CASE how = "nothing"
        <3>1. file' = file
            BY <1>5, <2>1 DEF Torn
        <3>2. Paid(file, n, cache, p, faults + 1)
            BY NothingPaid
        <3> QED
            BY <1>5, <2>0, <3>1, <3>2
    <2>2. CASE how # "nothing"
        <3>1. file' = Continue(file, Line(bare, b, no))
            BY <1>5, <2>2 DEF Torn
        <3> HIDE DEF yes, no, b, d, bare
        <3>2. CASE ~Dangling(file)
            <4>1. Extended(file, file', bare, b, no)
                BY <1>2, <1>3, <2>0, <3>1, <3>2, ContinueShape
            <4>2. Sound(file') /\ Kept(file', n, cache)
                BY <1>1, <1>2, <1>3, <2>0, <3>2, <4>1, CutKeeps
            <4>3. Paid(file', n, cache, p, faults + 1)
                BY <1>1, <1>2, <1>3, <2>0, <4>1, CutPaid
            <4> QED
                BY <1>5, <2>0, <4>2, <4>3
        <3>3. CASE Dangling(file)
            <4>1. Overrun(file, file', b, no)
                <5>1. Overrun(file, Continue(file, Line(bare, b, no)), b, no)
                    BY <1>2, <1>3, <2>0, <3>3, ContinueShape
                <5> QED
                    BY <3>1, <5>1
            <4>2. Sound(file') /\ Kept(file', n, cache)
                BY <1>1, <1>2, <1>3, <4>1, OverrunKeeps
            <4>3. Paid(file', n, cache, p, faults + 1)
                BY <1>1, <1>2, <1>3, <3>3, <4>1, OverrunPaid
            <4> QED
                BY <1>5, <2>0, <4>2, <4>3
        <3> QED
            BY <3>2, <3>3
    <2> QED
        BY <2>1, <2>2
<1> QED
    BY <1>4, <1>5 DEF Write

-----------------------------------------------------------------------------
(* Loading.                                                                *)

\* The events at an interval of positions.
LEMMA PickedInterval ==
    ASSUME NEW s, NEW a \in Nat \ {0}, NEW b \in Nat, a <= b + 1
    PROVE  Picked(s, a..b) = [k \in 1..(b - a + 1) |-> s[a + k - 1]]
<1> DEFINE at == InOrder(a..b)
<1>1. at = [k \in 1..(b - a + 1) |-> a + k - 1]
    BY InOrderInterval
<1>2. DOMAIN at = 1..(b - a + 1) /\ \A k \in 1..(b - a + 1) : at[k] = a + k - 1
    BY <1>1
<1>3. Picked(s, a..b) = [k \in DOMAIN at |-> s[at[k]]]
    BY DEF Picked
<1> HIDE DEF at
<1> QED
    BY <1>2, <1>3

\* A replay of a file that can be read is everything but its first event.
LEMMA ReplayReadable ==
    ASSUME NEW f, Sound(f), Readable(f), Len(f) >= 1
    PROVE  ReplayFrom(f, 0) = [k \in 1..(Len(f) - 1) |-> f[k + 1].body]
<1> DEFINE m == Len(f)
           stop == {i \in DOMAIN f : ~f[i].ok}
           bodies == [i \in 1..m |-> f[i].body]
           some == {i \in 1..m : f[i].body.seq > 0}
<1>1. m \in Nat /\ DOMAIN f = 1..m /\ \A i \in 1..m : f[i].body.seq = i - 1
    BY DEF Sound, FileOK, IsSeq, Numbered
<1>2. stop = {}
    BY DEF Readable
<1>3. ReplayFrom(f, 0) = Picked(bodies, some)
    BY <1>2 DEF ReplayFrom
<1> HIDE DEF stop
<1>4. some = 2..m
    <2> HIDE DEF m
    <2>1. \A i \in 1..m : f[i].body.seq > 0 <=> i \in 2..m
        BY <1>1
    <2>2. \A i \in 2..m : i \in 1..m
        BY <1>1
    <2> QED
        BY <2>1, <2>2
<1>5. Picked(bodies, 2..m) = [k \in 1..(m - 2 + 1) |-> bodies[2 + k - 1]]
    <2> HIDE DEF bodies, m
    <2>1. m >= 1
        BY DEF m
    <2> QED
        BY <1>1, <2>1, PickedInterval
<1>6. m - 2 + 1 = m - 1 /\ \A k \in 1..(m - 1) : 2 + k - 1 = k + 1 /\ k + 1 \in 1..m
    <2> HIDE DEF m
    <2> QED
        BY <1>1
<1>7. \A k \in 1..(m - 1) : bodies[2 + k - 1] = f[k + 1].body
    <2> HIDE DEF m
    <2> QED
        BY <1>6
<1> HIDE DEF m, bodies, some
<1>8. [k \in 1..(m - 2 + 1) |-> bodies[2 + k - 1]] = [k \in 1..(m - 1) |-> f[k + 1].body]
    BY <1>6, <1>7
<1> QED
    BY <1>3, <1>4, <1>5, <1>8 DEF m

\* What a load makes of the cache c, n being the counter.
Loads(f, n, c, l) ==
    LET stored == ReplayFrom(f, 0)
    IN  l = Picked(stored, {i \in DOMAIN stored : stored[i].seq < n - Len(c)}) \o c

\* It is everything the counter has counted but the first event.
LEMMA LoadsShape ==
    ASSUME NEW f, NEW n \in Nat, NEW c, NEW l, Sound(f), Past(f, n), Suffix(f, n, c), Readable(f),
           n - Len(c) # 0, Loads(f, n, c, l)
    PROVE  /\ IsSeq(l) /\ Len(l) = n - 1 /\ n >= 1 /\ Len(f) >= n
           /\ \A i \in 1..(n - 1) : l[i] = f[i + 1].body
<1> DEFINE m == Len(f)
           len == Len(c)
           M == n - len
           stored == ReplayFrom(f, 0)
           first == [k \in 1..(M - 1) |-> f[k + 1].body]
<1>1. /\ len \in Nat /\ len <= n /\ IsSeq(c)
      /\ \A i \in 1..len : c[i] = f[n - len + i].body
    BY DEF Suffix, IsSeq
<1>2. /\ m \in Nat /\ (m = n \/ m = n + 1)
      /\ \A i \in 1..m : f[i].body.seq = i - 1
    BY DEF Sound, FileOK, IsSeq, Numbered, Past
<1>3. M \in 1..n /\ n >= 1 /\ m >= 1 /\ m >= n /\ len \in Nat
    <2> HIDE DEF m, len
    <2>1. n - len # 0
        BY DEF len
    <2> QED
        BY <1>1, <1>2, <2>1
<1>4. stored = [k \in 1..(m - 1) |-> f[k + 1].body]
    BY <1>3, ReplayReadable
<1> HIDE DEF m, len, stored
<1>5. DOMAIN stored = 1..(m - 1) /\ \A k \in 1..(m - 1) : stored[k] = f[k + 1].body /\ stored[k].seq = k
    <2>1. \A k \in 1..(m - 1) : k + 1 \in 1..m /\ (k + 1) - 1 = k
        BY <1>2, <1>3
    <2> QED
        BY <1>2, <1>4, <2>1
<1>6. {i \in DOMAIN stored : stored[i].seq < M} = 1..(M - 1)
    <2>1. \A i : i \in 1..(m - 1) /\ i < M <=> i \in 1..(M - 1)
        BY <1>2, <1>3
    <2>2. \A i : i \in DOMAIN stored /\ stored[i].seq < M <=> i \in 1..(m - 1) /\ i < M
        BY <1>5
    <2> HIDE DEF M
    <2> QED
        BY <2>1, <2>2
<1>7. Picked(stored, 1..(M - 1)) = first
    <2> DEFINE b == M - 1
    <2>1. b \in Nat /\ 1 <= b + 1 /\ b - 1 + 1 = b /\ \A k \in 1..b : 1 + k - 1 = k /\ k \in 1..(m - 1)
        BY <1>2, <1>3
    <2> HIDE DEF b, M
    <2>2. Picked(stored, 1..b) = [k \in 1..(b - 1 + 1) |-> stored[1 + k - 1]]
        BY <2>1, PickedInterval
    <2>3. [k \in 1..(b - 1 + 1) |-> stored[1 + k - 1]] = [k \in 1..b |-> f[k + 1].body]
        BY <1>5, <2>1
    <2> QED
        BY <2>2, <2>3 DEF b
<1>8. l = first \o c
    <2>1. l = Picked(stored, {i \in DOMAIN stored : stored[i].seq < M}) \o c
        BY DEF Loads, stored, len
    <2> HIDE DEF M, first
    <2> QED
        BY <1>6, <1>7, <2>1
<1>9. /\ IsSeq(l) /\ Len(l) = (M - 1) + len
      /\ \A i \in 1..(M - 1) : l[i] = first[i]
      /\ \A i \in 1..len : l[M - 1 + i] = c[i]
    <2> DEFINE S == {first[i] : i \in 1..(M - 1)} \cup {c[i] : i \in 1..len}
    <2>0. M - 1 \in Nat
        BY <1>3
    <2>1. first \in Seq(S) /\ Len(first) = M - 1
        <3>1. \A i \in 1..(M - 1) : first[i] \in S
            OBVIOUS
        <3> DEFINE b == M - 1
                   F(k) == f[k + 1].body
        <3>2. b \in Nat /\ first = [k \in 1..b |-> F(k)] /\ \A i \in 1..b : F(i) \in S
            BY <1>3, <3>1
        <3> HIDE DEF S, b, F, first
        <3>3. first \in Seq(S) /\ Len(first) = b
            BY <3>2
        <3> QED
            BY <3>3 DEF b
    <2>2. c \in Seq(S)
        <3>1. \A i \in 1..Len(c) : c[i] \in S
            BY DEF len
        <3> HIDE DEF S
        <3> QED
            BY <1>1, <3>1, IsSeqSeq
    <2> HIDE DEF S, first, M
    <2>3. first \o c \in Seq(S)
        BY <2>1, <2>2
    <2>4. IsSeq(l)
        BY <1>8, <2>3, SeqIsSeq
    <2> DEFINE q == first \o c
    <2>5. /\ Len(q) = Len(first) + Len(c)
          /\ \A i \in 1..Len(first) : q[i] = first[i]
          /\ \A i \in 1..Len(c) : q[Len(first) + i] = c[i]
        BY <2>1, <2>2
    <2>6. q = l
        BY <1>8
    <2> HIDE DEF q
    <2>7. /\ Len(q) = (M - 1) + len
          /\ \A i \in 1..(M - 1) : q[i] = first[i]
          /\ \A i \in 1..len : q[M - 1 + i] = c[i]
        BY <2>1, <2>5 DEF len
    <2> QED
        BY <2>4, <2>6, <2>7
<1>10. ASSUME NEW i \in 1..(n - 1)
       PROVE  l[i] = f[i + 1].body
    <2>1. CASE i \in 1..(M - 1)
        BY <1>9, <2>1
    <2>2. CASE i \notin 1..(M - 1)
        <3> DEFINE j == i - (M - 1)
        <3>1. j \in 1..len /\ M - 1 + j = i /\ n - len + j = i + 1
            BY <1>1, <1>3, <2>2
        <3> HIDE DEF j
        <3>2. c[j] = f[i + 1].body
            BY <1>1, <3>1
        <3> HIDE DEF M
        <3> QED
            BY <1>9, <3>1, <3>2
    <2> QED
        BY <2>1, <2>2
<1>11. (M - 1) + len = n - 1
    BY <1>1
<1> QED
    BY <1>3, <1>9, <1>10, <1>11 DEF m

\* The loaded cache is one to write with, and has every event of H11 that was counted.
LEMMA LoadedKept ==
    ASSUME seq_counter \in Nat, faults \in Nat, Sound(file), Kept(file, seq_counter, history_cache),
           pc \notin Opened, Paid(file, seq_counter, history_cache, pc, faults), ~LoadFails
    PROVE  /\ Kept(file, seq_counter, Loaded)
           /\ Paid(file, seq_counter, Loaded, pc, faults)
           /\ \A ev : /\ seq_counter >= 1
                      /\ \A i \in DOMAIN Loaded : Loaded[i].ev # ev
                      => Unwritten(file, seq_counter, ev)
<1> DEFINE n == seq_counter
           c == history_cache
           l == Loaded
           m == Len(file)
<1>1. IsSeq(c) /\ DOMAIN c = 1..Len(c) /\ Len(c) \in Nat
    BY DEF Kept, Suffix, IsSeq
<1>2. m \in Nat /\ DOMAIN file = 1..m /\ \A i \in 1..m : file[i].body.seq \in Nat
    BY DEF Sound, FileOK, IsSeq
<1>3. CASE n - Len(c) = 0
    <2>1. l = c
        BY <1>3 DEF Loaded, Missing
    <2>2. n = Len(c)
        <3> DEFINE k == Len(c)
        <3>1. n \in Nat /\ k \in Nat /\ n - k = 0
            BY <1>1, <1>3
        <3> HIDE DEF n, k
        <3>2. n = k
            BY <3>1
        <3> QED
            BY <3>2 DEF k
    <2>3. ASSUME NEW ev, n >= 1, \A i \in DOMAIN c : c[i].ev # ev
          PROVE  Unwritten(file, n, ev)
        <3>1. \A i \in 1..m : file[i].ok /\ file[i].body.seq < n => \E j \in 1..Len(c) : c[j] = file[i].body
            BY <2>2 DEF Kept, Whole
        <3> HIDE DEF n, c, m
        <3>2. \A i \in 1..m : file[i].ok /\ file[i].body.seq < n => file[i].body.ev # ev
            BY <1>1, <2>3, <3>1
        <3> QED
            BY <2>3, <3>2 DEF Unwritten, m
    <2> QED
        BY <2>1, <2>3
<1>4. CASE n - Len(c) # 0
    <2>1. Readable(file)
        BY <1>4 DEF LoadFails, Missing
    <2>2. Loads(file, n, c, l)
        <3>1. Missing # 0
            BY <1>4 DEF Missing
        <3> QED
            BY <3>1 DEF Loads, Loaded, Missing
    <2> HIDE DEF l
    <2>3. /\ IsSeq(l) /\ Len(l) = n - 1 /\ n >= 1 /\ m >= n
          /\ \A i \in 1..(n - 1) : l[i] = file[i + 1].body
        <3>1. n \in Nat /\ Sound(file) /\ Past(file, n) /\ Suffix(file, n, c)
            BY DEF Kept
        <3> HIDE DEF n, c
        <3> QED
            BY <1>4, <2>1, <2>2, <3>1, LoadsShape DEF m
    <2>4. \A i \in 1..m : file[i].body.seq = i - 1 /\ file[i].ok
        BY <1>2, <2>1 DEF Sound, Numbered, Readable
    <2>a. \A i \in 1..(n - 1) : i + 1 \in 1..m /\ i + 1 = n - (n - 1) + i /\ i = n - (n - 1) + i - 1
        BY <1>2, <2>3
    <2>5. Suffix(file, n, l)
        <3>1. ASSUME NEW i \in 1..(n - 1)
              PROVE  l[i].seq = i
            <4>1. l[i] = file[i + 1].body /\ file[i + 1].body.seq = (i + 1) - 1
                BY <2>3, <2>4, <2>a
            <4>2. (i + 1) - 1 = i
                OBVIOUS
            <4> QED
                BY <4>1, <4>2
        <3> QED
            BY <2>3, <2>a, <3>1 DEF Suffix
    <2>6. Whole(file, n, l)
        BY <2>3 DEF Whole
    <2>7. Lost(file, l) = {} /\ Cardinality(Lost(file, l)) = 0
        <3>1. DOMAIN l = 1..(n - 1)
            BY <2>3 DEF IsSeq
        <3>2. \A i \in DOMAIN l : i + 1 \in DOMAIN file /\ file[i + 1].body = l[i] /\ file[i + 1].ok
            BY <1>2, <2>3, <2>4, <2>a, <3>1
        <3>3. Lost(file, l) = {}
            BY <3>2 DEF Lost
        <3> QED
            BY <3>3, FS_EmptySet
    <2>8. Paid(file, n, l, pc, faults)
        <3>1. Cardinality(Lost(file, c)) \in Nat
            BY <1>1, LostFinite
        <3> QED
            BY <2>7, <3>1 DEF Paid
    <2>9. ASSUME NEW ev, \A i \in DOMAIN l : l[i].ev # ev
          PROVE  Unwritten(file, n, ev)
        <3> SUFFICES ASSUME ev.type \in Onces, NEW i \in 1..m, file[i].ok, file[i].body.seq < n
                     PROVE  file[i].body.ev # ev
            BY <2>3 DEF Unwritten
        <3>1. CASE i = 1
            <4>1. ~(file[i].body.seq >= 1)
                BY <2>4, <3>1
            <4>2. file[i].body.ev.type \notin Onces
                BY <4>1 DEF Sound, Once
            <4> QED
                BY <4>2
        <3>2. CASE i # 1
            <4>1. i - 1 \in 1..(n - 1) /\ (i - 1) + 1 = i
                BY <1>2, <2>4, <3>2
            <4>2. l[i - 1] = file[i].body
                BY <2>3, <4>1
            <4>3. i - 1 \in DOMAIN l
                BY <2>3, <4>1 DEF IsSeq
            <4> QED
                BY <2>9, <4>2, <4>3
        <3> QED
            BY <3>1, <3>2
    <2> QED
        BY <2>5, <2>6, <2>8, <2>9 DEF Kept, l
<1> QED
    BY <1>3, <1>4

-----------------------------------------------------------------------------
(* The steps.                                                              *)

LEMMA InitRInv ==
    ASSUME Init
    PROVE  RInv
<1>1. IsSeq(<<>>) /\ Len(<<>>) = 0
    BY DEF IsSeq
<1>2. Lost(<<>>, <<>>) = {} /\ Cardinality(Lost(<<>>, <<>>)) = 0
    BY <1>1, LostFinite
<1>3. Sound(file)
    BY <1>1 DEF Init, Sound, FileOK, Ascending, Numbered, Once
<1>4. Paid(file, 0, <<>>, pc, 0)
    BY <1>2 DEF Init, Paid, Dangling, Counted
<1> QED
    BY <1>3, <1>4 DEF Init, RInv, Sound, Closed

\* A step of an open session that writes one event with its cache, or none.
LEMMA TurnKeeps ==
    ASSUME RInv, pc \notin Closed, NEW ev, NEW data, NEW how \in Hows,
           ev.type \notin Onces, Write(ev, data, history_cache, how),
           pc' \notin Closed, pc' # "idle" /\ pc = "idle" => how = "ok"
    PROVE  RInv'
<1>1. /\ seq_counter \in Nat /\ faults \in Nat /\ Sound(file)
      /\ Kept(file, seq_counter, history_cache)
      /\ Paid(file, seq_counter, history_cache, pc, faults)
    BY DEF RInv, Sound, Kept
<1>2. Unwritten(file, seq_counter, ev)
    BY DEF Unwritten
<1>3. /\ seq_counter' \in Nat /\ faults' \in Nat
      /\ seq_counter' >= seq_counter /\ (how = "ok" => seq_counter' >= 1)
      /\ Sound(file') /\ Kept(file', seq_counter', history_cache')
      /\ Paid(file', seq_counter', history_cache', pc', faults')
    BY <1>1, <1>2, WriteKeeps
<1>4. pc' # "idle" => seq_counter' >= 1
    BY <1>1, <1>3 DEF RInv
<1> QED
    BY <1>3, <1>4 DEF RInv, Sound, Kept, Closed

\* A step that leaves the store and the cache alone.
LEMMA QuietKeeps ==
    ASSUME RInv, UNCHANGED storeVars, \/ pc' = pc
                                      \/ pc \notin Opened \cup Closed /\ pc' \notin Opened \cup Closed
    PROVE  RInv'
<1>1. /\ file' = file /\ seq_counter' = seq_counter
      /\ history_cache' = history_cache /\ faults' = faults
    BY DEF storeVars
<1>2. Paid(file, seq_counter, history_cache, pc', faults)
    BY DEF RInv, Paid
<1> QED
    BY <1>1, <1>2 DEF RInv, Closed, Opened

\* A step that loads the cache and writes nothing.
LEMMA LoadKeeps ==
    ASSUME RInv, pc \in H11, pc' \notin Opened \cup Closed, ~LoadFails,
           history_cache' = Loaded, UNCHANGED <<file, seq_counter, faults>>
    PROVE  RInv'
<1>1. /\ seq_counter \in Nat /\ faults \in Nat /\ Sound(file)
      /\ Kept(file, seq_counter, history_cache)
      /\ Paid(file, seq_counter, history_cache, pc, faults)
    BY DEF RInv, Sound, Kept, Closed, H11
<1>2. pc \notin Opened /\ pc \notin Closed
    BY DEF Opened, Closed, H11
<1>3. Kept(file, seq_counter, Loaded) /\ Paid(file, seq_counter, Loaded, pc, faults)
    BY <1>1, <1>2, LoadedKept
<1>4. Paid(file, seq_counter, Loaded, pc', faults)
    BY <1>2, <1>3 DEF Paid
<1>5. seq_counter >= 1
    BY <1>2 DEF RInv, Opened
<1> QED
    BY <1>1, <1>3, <1>4, <1>5 DEF RInv, Sound, Kept, Closed

\* A step that loads the cache and writes an event that is not in it.
LEMMA OnceKeeps ==
    ASSUME RInv, pc \in H11, pc' \notin Opened \cup Closed, ~LoadFails,
           NEW ev, NEW data, NEW how \in Hows, Write(ev, data, Loaded, how),
           \A i \in DOMAIN Loaded : Loaded[i].ev # ev
    PROVE  RInv'
<1>1. /\ seq_counter \in Nat /\ faults \in Nat /\ Sound(file)
      /\ Kept(file, seq_counter, history_cache)
      /\ Paid(file, seq_counter, history_cache, pc, faults)
    BY DEF RInv, Sound, Kept, Closed, H11
<1>2. pc \notin Opened /\ pc \notin Closed
    BY DEF Opened, Closed, H11
<1>3. seq_counter >= 1
    BY <1>2 DEF RInv, Opened
<1>4. /\ Kept(file, seq_counter, Loaded) /\ Paid(file, seq_counter, Loaded, pc, faults)
      /\ Unwritten(file, seq_counter, ev)
    BY <1>1, <1>2, <1>3, LoadedKept
<1>5. /\ seq_counter' \in Nat /\ faults' \in Nat /\ seq_counter' >= seq_counter
      /\ Sound(file') /\ Kept(file', seq_counter', history_cache')
      /\ Paid(file', seq_counter', history_cache', pc', faults')
    BY <1>1, <1>4, WriteKeeps
<1>6. seq_counter' >= 1
    BY <1>1, <1>3, <1>5
<1> QED
    BY <1>5, <1>6 DEF RInv, Sound, Kept, Closed

\* Opening, refusing and crashing.
LEMMA OpenKeeps ==
    ASSUME RInv, OpenFails \/ OpenNew \/ OpenExisting \/ Crash
    PROVE  RInv'
<1>0. /\ seq_counter \in Nat /\ faults \in Nat /\ Sound(file)
      /\ Paid(file, seq_counter, history_cache, pc, faults)
    BY DEF RInv, Sound
<1>1. IsSeq(<<>>) /\ Len(<<>>) = 0
    BY DEF IsSeq
<1>2. Lost(file, <<>>) = {} /\ Cardinality(Lost(file, <<>>)) = 0
    BY <1>1, LostFinite
<1>a. Dangling(file) => 1 <= faults
    <2>1. IsSeq(history_cache)
        BY <1>1 DEF RInv, Suffix
    <2>2. Cardinality(Lost(file, history_cache)) \in Nat
        BY <2>1, LostFinite
    <2> QED
        BY <1>0, <2>2 DEF Paid
<1>3. CASE OpenFails
    <2>1. /\ pc = "down" /\ pc' = "refused" /\ file' = file /\ seq_counter' = seq_counter
          /\ history_cache' = history_cache /\ faults' = faults /\ history_cache = <<>>
        BY <1>3 DEF OpenFails, storeVars, RInv, Closed
    <2>2. Paid(file, seq_counter, history_cache, "refused", faults)
        BY <1>0, <1>2, <1>a, <2>1 DEF Paid, Opened
    <2> QED
        BY <1>0, <2>1, <2>2 DEF RInv, Sound, Closed
<1>4. CASE OpenNew
    <2>1. pc = "down" /\ pc' = "idle" /\ file = <<>> /\ seq_counter = 0 /\ history_cache = <<>>
        BY <1>4 DEF OpenNew, RInv, Closed
    <2>2. PICK how \in Hows : Write(Meta("SessionStarted", None), NoData, history_cache, how)
        BY <1>4 DEF OpenNew
    <2>3. Kept(file, seq_counter, history_cache)
        BY <1>1, <2>1 DEF Kept, Past, Suffix, Whole, Readable
    <2>4. Unwritten(file, seq_counter, Meta("SessionStarted", None))
        BY DEF Unwritten, Onces, Meta, Ev
    <2>5. /\ seq_counter' \in Nat /\ faults' \in Nat
          /\ Sound(file') /\ Kept(file', seq_counter', history_cache')
          /\ Paid(file', seq_counter', history_cache', pc', faults')
        BY <1>0, <2>2, <2>3, <2>4, WriteKeeps
    <2> QED
        BY <2>1, <2>5 DEF RInv, Sound, Kept, Closed
<1>5. CASE OpenExisting
    <2>1. /\ pc = "down" /\ file # <<>> /\ Readable(file) /\ history_cache = <<>>
          /\ seq_counter' = LatestSeq(file) + 1
          /\ file' = file /\ history_cache' = history_cache /\ faults' = faults
        BY <1>5 DEF OpenExisting, RInv, Closed
    <2>2. pc' \in Opened
        BY <1>5 DEF OpenExisting, Opened
    <2>3. Len(file) \in Nat /\ Len(file) >= 1 /\ DOMAIN file = 1..Len(file)
        <3>1. IsSeq(file)
            BY <1>0 DEF Sound, FileOK
        <3>2. Len(file) \in Nat /\ DOMAIN file = 1..Len(file)
            BY <3>1 DEF IsSeq
        <3>3. Len(file) = 0 => file = <<>>
            BY <3>1 DEF IsSeq
        <3> QED
            BY <2>1, <3>2, <3>3
    <2>4. \A i \in 1..Len(file) : file[i].body.seq = i - 1
        BY <1>0, <2>1 DEF Sound, Numbered
    <2>5. seq_counter' = Len(file)
        BY <2>1, <2>3, <2>4 DEF LatestSeq
    <2> DEFINE n == Len(file)
    <2>6. Past(file, n)
        <3>1. \A i \in 1..n : file[i].body.seq <= n /\ file[i].body.seq # n
            <4> HIDE DEF n
            <4>1. n \in Nat /\ \A i \in 1..n : file[i].body.seq = i - 1
                BY <2>3, <2>4 DEF n
            <4> QED
                BY <4>1
        <3> QED
            BY <3>1 DEF Past
    <2>7. Suffix(file, n, <<>>) /\ Whole(file, n, <<>>)
        BY <1>1, <2>3 DEF Suffix, Whole
    <2>8. Paid(file, n, <<>>, pc', faults)
        BY <1>0, <1>2, <1>a, <2>2 DEF Paid
    <2> HIDE DEF n
    <2>9. seq_counter' = n /\ n \in Nat /\ n >= 1
        BY <2>3, <2>5 DEF n
    <2>10. pc' # "down"
        BY <2>2 DEF Opened
    <2> QED
        BY <1>0, <2>1, <2>6, <2>7, <2>8, <2>9, <2>10 DEF RInv, Sound, Closed
<1>6. CASE Crash
    <2>1. /\ file' = file /\ faults' = faults /\ seq_counter' = 0 /\ history_cache' = <<>>
          /\ pc' = "down"
        BY <1>6 DEF Crash
    <2>2. ~Counted(file, 0)
        <3>1. Dangling(file) => Len(file) \in 1..Len(file)
            <4>1. IsSeq(file)
                BY <1>0 DEF Sound, FileOK
            <4>2. Len(file) \in Nat /\ (Len(file) = 0 => file = <<>>)
                BY <4>1 DEF IsSeq
            <4> QED
                BY <4>2 DEF Dangling
        <3> QED
            BY <1>0, <3>1 DEF Counted, Sound, FileOK
    <2>3. Paid(file, 0, <<>>, "down", faults)
        BY <1>0, <1>2, <1>a, <2>2 DEF Paid
    <2> QED
        BY <1>0, <2>1, <2>3 DEF RInv, Sound, Closed
<1> QED
    BY <1>3, <1>4, <1>5, <1>6

\* The steps of a turn that write with the cache they find.
LEMMA PlainKeeps ==
    ASSUME RInv, StartTurn \/ RecordPlain \/ CallModel \/ RecordToolUse \/ Seal
                 \/ \E k \in Kinds : BlockComplete(k)
    PROVE  RInv'
<1>1. CASE StartTurn
    <2>1. PICK how \in Hows : /\ Write(TurnStarted(turns', turns'), NoData, history_cache, how)
                              /\ IF how = "ok" THEN pc' = "enter" /\ turn' = turns' ELSE UNCHANGED <<pc, turn>>
        BY <1>1 DEF StartTurn
    <2>2. pc = "idle" /\ (pc' = "idle" \/ (how = "ok" /\ pc' = "enter"))
        BY <1>1, <2>1 DEF StartTurn
    <2>3. TurnStarted(turns', turns').type \notin Onces
        BY DEF TurnStarted, Ev, Onces
    <2> QED
        BY <2>1, <2>2, <2>3, TurnKeeps DEF Closed
<1>2. CASE RecordPlain
    <2>1. pc \in DOMAIN Plain /\ pc' = Plain[pc][2]
        BY <1>2 DEF RecordPlain
    <2>2. pc \in {"enter", "decide", "leave", "compose", "dispatch", "complete", "fail"}
        BY <2>1 DEF Plain
    <2>3. Plain[pc][1].type \notin Onces /\ Plain[pc][2] \notin Closed
        BY <2>2 DEF Plain, Meta, ToolResult, TurnCompleted, TurnFailed, Ev, Onces, Closed
    <2>4. pc \notin Closed /\ pc # "idle"
        BY <2>2 DEF Closed
    <2>5. PICK how \in Hows : Write(Plain[pc][1], NoData, history_cache, how)
        BY <1>2 DEF RecordPlain
    <2> QED
        BY <2>1, <2>3, <2>4, <2>5, TurnKeeps
<1>3. CASE CallModel
    <2>1. pc = "prompt" /\ pc' = "stream"
        BY <1>3 DEF CallModel
    <2>2. PICK how \in Hows : Write(ModelCallStarted(turn), NoData, history_cache, how)
        BY <1>3 DEF CallModel
    <2>3. ModelCallStarted(turn).type \notin Onces
        BY DEF ModelCallStarted, Ev, Onces
    <2> QED
        BY <2>1, <2>2, <2>3, TurnKeeps DEF Closed
<1>4. CASE RecordToolUse
    <2>1. PICK how \in Hows : /\ Write(ToolUse(turn, call', "valid"), NoData, history_cache, how)
                              /\ pc' = IF how = "ok" THEN "called" ELSE "fail"
        BY <1>4 DEF RecordToolUse
    <2>2. pc = "stream" /\ pc' \in {"called", "fail"}
        BY <1>4, <2>1 DEF RecordToolUse
    <2>3. ToolUse(turn, call', "valid").type \notin Onces
        BY DEF ToolUse, Ev, Onces
    <2> QED
        BY <2>1, <2>2, <2>3, TurnKeeps DEF Closed
<1>5. CASE Seal
    <2> DEFINE ev == ModelCallCompleted(turn, IF pc = "called" THEN "ToolUse" ELSE "EndTurn")
    <2>1. PICK how \in Hows :
              /\ Write(ev, NoData, history_cache, how)
              /\ pc' = IF how # "ok" THEN "fail" ELSE IF pc = "called" THEN "dispatch" ELSE "complete"
        BY <1>5 DEF Seal
    <2>2. pc \in Streaming /\ pc' \in {"fail", "dispatch", "complete"}
        BY <1>5, <2>1 DEF Seal
    <2>3. ev.type \notin Onces
        BY DEF ModelCallCompleted, Ev, Onces
    <2>4. pc \notin Closed /\ pc # "idle" /\ pc' \notin Closed
        BY <2>2 DEF Streaming, Closed
    <2> HIDE DEF ev
    <2> QED
        BY <2>1, <2>3, <2>4, TurnKeeps
<1>6. CASE \E k \in Kinds : BlockComplete(k)
    <2>1. PICK k \in Kinds : BlockComplete(k)
        BY <1>6
    <2> DEFINE ev == Meta(k, blocks[k].turn)
               data == Data(0, 0, blocks[k].msg, blocks[k].chunks)
    <2>2. PICK how \in Hows : /\ Write(ev, data, history_cache, how)
                              /\ pc' = IF how = "ok" THEN pc ELSE "fail"
        BY <2>1 DEF BlockComplete
    <2>3. pc \in Streaming /\ pc' \in {pc, "fail"}
        BY <2>1, <2>2 DEF BlockComplete
    <2>4. ev.type \notin Onces
        BY KindsAssumption DEF Meta, Ev, Onces, BlockTypes
    <2>5. pc \notin Closed /\ pc # "idle" /\ pc' \notin Closed
        BY <2>3 DEF Streaming, Closed
    <2> HIDE DEF ev, data
    <2> QED
        BY <2>2, <2>4, <2>5, TurnKeeps
<1> QED
    BY <1>1, <1>2, <1>3, <1>4, <1>5, <1>6

\* The events of H11 that are written once.
LEMMA InjectKeeps ==
    ASSUME RInv, pc \in H11, pc' \in H11 \cup {"decide"}, NEW type, RecordOnce(type)
    PROVE  RInv'
<1>0. pc \notin Opened \cup Closed /\ pc' \notin Opened \cup Closed
    BY DEF Opened, Closed, H11
<1>1. CASE LoadFails
    <2>1. UNCHANGED storeVars
        BY <1>1 DEF RecordOnce
    <2> QED
        BY <1>0, <2>1, QuietKeeps
<1>2. CASE ~LoadFails /\ \E i \in DOMAIN Loaded : Loaded[i].ev = Meta(type, turn)
    <2>1. history_cache' = Loaded /\ UNCHANGED <<file, seq_counter, faults>>
        BY <1>2 DEF RecordOnce
    <2> QED
        BY <1>0, <1>2, <2>1, LoadKeeps
<1>3. CASE ~LoadFails /\ ~\E i \in DOMAIN Loaded : Loaded[i].ev = Meta(type, turn)
    <2>1. PICK how \in Hows : Write(Meta(type, turn), NoData, Loaded, how)
        BY <1>3 DEF RecordOnce
    <2>2. \A i \in DOMAIN Loaded : Loaded[i].ev # Meta(type, turn)
        BY <1>3
    <2> QED
        BY <1>0, <1>3, <2>1, <2>2, OnceKeeps
<1> QED
    BY <1>1, <1>2, <1>3

LEMMA CompactKeeps ==
    ASSUME RInv, Compact
    PROVE  RInv'
<1>0. pc = "compact" /\ pc' = "inject"
    BY DEF Compact
<1>1. pc \notin Opened \cup Closed /\ pc' \notin Opened \cup Closed
    BY <1>0 DEF Opened, Closed
<1>a. pc \in H11
    BY <1>0 DEF H11
<1>2. CASE UNCHANGED storeVars
    BY <1>1, <1>2, QuietKeeps
<1>3. CASE \E r \in Proposals : RecordContextCompacted(Loaded, r[1], r[2])
    <2>1. PICK r \in Proposals : RecordContextCompacted(Loaded, r[1], r[2])
        BY <1>3
    <2>2. CASE LoadFails
        <3>1. UNCHANGED storeVars
            BY <2>1, <2>2 DEF RecordContextCompacted
        <3> QED
            BY <1>1, <3>1, QuietKeeps
    <2>3. CASE ~LoadFails /\ ~Accepts(Loaded, r[1], r[2])
        <3>1. history_cache' = Loaded /\ UNCHANGED <<file, seq_counter, faults>>
            BY <2>1, <2>3 DEF RecordContextCompacted
        <3> QED
            BY <1>1, <1>a, <2>3, <3>1, LoadKeeps
    <2>4. CASE ~LoadFails /\ Accepts(Loaded, r[1], r[2])
        <3> DEFINE ev == Meta("ContextCompacted", turn)
                   data == Data(r[1], r[2], None, {})
        <3>1. PICK how \in Hows : Write(ev, data, Loaded, how)
            BY <2>1, <2>4 DEF RecordContextCompacted
        <3>2. ~CompactedFor(Loaded, turn)
            BY <2>4 DEF Accepts
        <3>3. ev.type = "ContextCompacted" /\ ev.turn = turn
            BY DEF Meta, Ev
        <3> HIDE DEF ev, data
        <3>4. \A i \in DOMAIN Loaded : Loaded[i].ev # ev
            BY <3>2, <3>3 DEF CompactedFor, IsType
        <3> QED
            BY <1>1, <1>a, <2>4, <3>1, <3>4, OnceKeeps
    <2> QED
        BY <2>2, <2>3, <2>4
<1> QED
    BY <1>2, <1>3 DEF Compact

\* Every step keeps the invariant.
LEMMA NextRInv ==
    ASSUME RInv, [Next]_vars
    PROVE  RInv'
<1>1. CASE OpenFails \/ OpenNew \/ OpenExisting \/ Crash
    BY <1>1, OpenKeeps
<1>2. CASE StartTurn \/ RecordPlain \/ CallModel \/ RecordToolUse \/ Seal \/ \E k \in Kinds : BlockComplete(k)
    BY <1>2, PlainKeeps
<1>3. CASE Compact
    BY <1>3, CompactKeeps
<1>4. CASE Inject
    <2>1. /\ pc \in H11 /\ pc' \in H11 \cup {"decide"}
          /\ RecordOnce("SystemPromptInjected") \/ RecordOnce("ToolFilterOverridden")
        BY <1>4 DEF Inject, Attempt, H11
    <2> QED
        BY <2>1, InjectKeeps
<1>5. CASE \E k \in Kinds : Delta(k)
    <2>1. UNCHANGED storeVars /\ pc' = pc
        BY <1>5 DEF Delta
    <2> QED
        BY <2>1, QuietKeeps
<1>6. CASE StreamError
    <2>1. UNCHANGED storeVars /\ pc \in Streaming /\ pc' = "fail"
        BY <1>6 DEF StreamError
    <2>2. pc \notin Opened \cup Closed /\ pc' \notin Opened \cup Closed
        BY <2>1 DEF Opened, Closed, Streaming
    <2> QED
        BY <2>1, <2>2, QuietKeeps
<1>7. CASE UNCHANGED vars
    <2>1. UNCHANGED storeVars /\ pc' = pc
        BY <1>7 DEF vars
    <2> QED
        BY <2>1, QuietKeeps
<1> QED
    BY <1>1, <1>2, <1>3, <1>4, <1>5, <1>6, <1>7 DEF Next

-----------------------------------------------------------------------------
(* The theorems.                                                           *)

\* The invariant of the recorder and the file it writes, over failed writes, crashes and
\* openings.
THEOREM StepRecorderInvariant == Spec => []RInv
<1> QED
    BY InitRInv, NextRInv, PTL DEF Spec

\* Lines ascend, and a file that can be read has every seq once (step_recorder.rs append,
\* jsonl.rs latest_seq, for any number of failed writes, crashes and openings).
THEOREM StepRecorderSeqsAscend == Spec => []SeqsAscend
<1>1. RInv => SeqsAscend
    <2> SUFFICES ASSUME RInv
                 PROVE  SeqsAscend
        OBVIOUS
    <2>1. Len(file) \in Nat /\ DOMAIN file = 1..Len(file)
        BY DEF RInv, FileOK, IsSeq
    <2>2. ASSUME NEW i \in DOMAIN file, NEW k \in (i + 1)..Len(file), file[i].ok, file[k].ok
          PROVE  file[i].body.seq < file[k].body.seq
        <3>1. k \in 1..Len(file) /\ i \in 1..Len(file) /\ i < k
            BY <2>1
        <3> QED
            BY <2>2, <3>1 DEF RInv, Ascending
    <2>3. Readable(file) => \A i \in DOMAIN file : file[i].body.seq = i - 1
        BY <2>1 DEF RInv, Numbered
    <2> QED
        BY <2>2, <2>3 DEF SeqsAscend
<1> QED
    BY <1>1, StepRecorderInvariant, PTL

\* The history cache is the end of the file, and never longer than the counter says
\* (ensure_prior_history_loaded subtracts one from the other).
THEOREM StepRecorderCacheFaithful == Spec => []CacheFaithful
<1>1. RInv => CacheFaithful
    <2> SUFFICES ASSUME RInv
                 PROVE  CacheFaithful
        OBVIOUS
    <2>1. seq_counter \in Nat
        BY DEF RInv
    <2>2. CASE pc \in Closed
        <3>1. history_cache = <<>>
            BY <2>2 DEF RInv
        <3>2. Len(history_cache) = 0 /\ Len(file) \in Nat
            BY <3>1 DEF RInv, FileOK, IsSeq
        <3> QED
            BY <2>1, <3>2 DEF CacheFaithful, Missing
    <2>3. CASE pc \notin Closed
        <3>1. /\ Len(history_cache) \in Nat /\ Len(history_cache) <= seq_counter
              /\ Readable(file) /\ ~Dangling(file) => Len(file) = seq_counter
              /\ Readable(file) => \A i \in 1..Len(history_cache) :
                     history_cache[i] = file[seq_counter - Len(history_cache) + i].body
            BY <2>3 DEF RInv, Suffix, IsSeq, Past
        <3>2. Missing >= 0
            BY <2>1, <3>1 DEF Missing
        <3> QED
            BY <3>1, <3>2 DEF CacheFaithful
    <2> QED
        BY <2>2, <2>3
<1> QED
    BY <1>1, StepRecorderInvariant, PTL

\* H11's events are in the log once per turn (record_system_prompt_injected,
\* record_tool_filter_overridden, record_context_compacted), however often a turn is resumed.
THEOREM StepRecorderOncePerTurn == Spec => []OncePerTurn
<1>1. RInv => OncePerTurn
    <2> SUFFICES ASSUME RInv
                 PROVE  OncePerTurn
        OBVIOUS
    <2>1. DOMAIN file = 1..Len(file) /\ Once(file)
        BY DEF RInv, FileOK, IsSeq
    <2> QED
        BY <2>1 DEF OncePerTurn, Once, Onces, IsType
<1> QED
    BY <1>1, StepRecorderInvariant, PTL

\* Of the appends a recorder acknowledged, no more are lost than writes have failed
\* (append after a torn line, jsonl.rs).
THEOREM StepRecorderAckedKept == Spec => []AckedKept
<1>1. RInv => AckedKept
    BY DEF RInv, Paid, Lost, AckedKept
<1> QED
    BY <1>1, StepRecorderInvariant, PTL

-----------------------------------------------------------------------------
(* What the compactor proposes.                                            *)

\* A history in which every event bears its position.
Numbers(h, n) == n \in Nat /\ DOMAIN h = 1..n /\ \A k \in 1..n : h[k].seq = k

\* The turns are listed in the order they were started.
LEMMA StartsListed ==
    ASSUME NEW h, NEW n, Numbers(h, n), NEW starts, starts = TurnStarts(h)
    PROVE  /\ Len(starts) \in Nat /\ DOMAIN starts = 1..Len(starts)
           /\ \A k \in 1..Len(starts) : starts[k].seq \in 1..n /\ IsType(h[starts[k].seq], {"TurnStarted"})
           /\ \A j, k \in 1..Len(starts) : j < k => starts[j].seq < starts[k].seq
<1> DEFINE P == {i \in DOMAIN h : IsType(h[i], {"TurnStarted"})}
           t == Cardinality(P)
           at == InOrder(P)
<1>1. n \in Nat /\ P \in SUBSET (1..n) /\ \A i \in P : h[i].seq = i /\ IsType(h[i], {"TurnStarted"})
    BY DEF Numbers
<1>2. starts = [k \in DOMAIN at |-> h[at[k]]]
    BY DEF TurnStarts, Picked
<1> HIDE DEF P
<1>3. t \in Nat /\ at \in [1..t -> P] /\ \A j, k \in 1..t : j < k => at[j] < at[k]
    BY <1>1, InOrderAscends
<1> HIDE DEF at, t
<1>4. starts = [k \in 1..t |-> h[at[k]]]
    BY <1>2, <1>3
<1>5. Len(starts) = t /\ DOMAIN starts = 1..t
    <2> DEFINE F(k) == h[at[k]]
    <2>1. starts = [k \in 1..t |-> F(k)]
        BY <1>4
    <2> HIDE DEF F
    <2> QED
        BY <1>3, <2>1
<1>6. \A k \in 1..t : at[k] \in P /\ starts[k].seq = at[k]
    BY <1>1, <1>3, <1>4
<1> QED
    BY <1>1, <1>3, <1>5, <1>6

\* A turn that another one follows ends right before an event that begins a turn or a pass.
LEMMA TurnEndFound ==
    ASSUME NEW h, NEW n, Numbers(h, n), NEW k, NEW a \in 1..n, NEW b \in 1..n, a < b,
           TurnStarts(h)[k].seq = a, IsType(h[b], {"TurnStarted"})
    PROVE  /\ TurnEnd(h, k) \in a..(b - 1)
           /\ IsType(h[TurnEnd(h, k) + 1], {"TurnStarted", "ContextManageEntered"})
<1> DEFINE Begins(i) == IsType(h[i], {"TurnStarted", "ContextManageEntered"})
           stops == {h[i].seq : i \in {q \in DOMAIN h : h[q].seq > a /\ Begins(q)}}
           inside == {h[i].seq : i \in {q \in DOMAIN h : h[q].seq >= a /\ \A s \in stops : h[q].seq < s}}
           stopsAt == {q \in 1..n : q > a /\ Begins(q)}
           insideAt == {q \in 1..n : q >= a /\ \A s \in stopsAt : q < s}
           last == CHOOSE s \in insideAt : \A q \in insideAt : q <= s
<1>1. n \in Nat /\ DOMAIN h = 1..n /\ \A q \in 1..n : h[q].seq = q
    BY DEF Numbers
<1>2. TurnEnd(h, k) = CHOOSE s \in inside : \A q \in inside : q <= s
    BY DEF TurnEnd
<1>3. Begins(b)
    BY DEF IsType
<1> HIDE DEF Begins
<1>4. stops = stopsAt
    BY <1>1
<1>5. inside = insideAt
    <2> HIDE DEF stops, stopsAt
    <2> QED
        BY <1>1, <1>4
<1>6. TurnEnd(h, k) = last
    BY <1>2, <1>5
<1>7. b \in stopsAt /\ a \in insideAt /\ insideAt \in SUBSET (1..n) /\ insideAt # {}
    <2>1. b \in stopsAt /\ \A s \in stopsAt : a < s
        BY <1>3
    <2>2. a >= a
        BY <1>1
    <2> HIDE DEF stopsAt
    <2> QED
        BY <2>1, <2>2
<1>8. last \in insideAt /\ \A q \in insideAt : q <= last
    <2> HIDE DEF insideAt
    <2>1. Latest(insideAt) \in insideAt /\ \A q \in insideAt : q <= Latest(insideAt)
        BY <1>1, <1>7, LatestIsLast
    <2> QED
        BY <2>1
<1> HIDE DEF last
<1>9. last \in 1..n /\ a <= last /\ last < b /\ last + 1 \in 1..n
    BY <1>1, <1>7, <1>8
<1>10. last + 1 \in stopsAt
    <2>1. last + 1 \notin insideAt
        <3> HIDE DEF insideAt
        <3> QED
            BY <1>1, <1>8, <1>9
    <2>2. PICK s \in stopsAt : ~(last + 1 < s)
        BY <1>1, <1>9, <2>1
    <2>3. last < s
        BY <1>8, <2>2
    <2>4. s = last + 1
        BY <1>1, <1>9, <2>2, <2>3
    <2> QED
        BY <2>2, <2>4
<1>11. Begins(last + 1)
    BY <1>10
<1> QED
    BY <1>1, <1>6, <1>9, <1>11 DEF Begins

\* What is proposed begins with a turn, ends right before an event that begins a turn or
\* a pass, and has none of the turns that are kept.
Proposed(h, n, turnNow, keepFirst, keepRecent, lo, hi) ==
    /\ ~CompactedFor(h, turnNow)
    /\ lo \in 1..n /\ IsType(h[lo], {"TurnStarted"})
    /\ hi \in lo..(n - 1) /\ IsType(h[hi + 1], {"TurnStarted", "ContextManageEntered"})
    /\ \A k \in DOMAIN TurnStarts(h) :
          (k = 1 /\ keepFirst) \/ k > Len(TurnStarts(h)) - keepRecent
              => TurnStarts(h)[k].seq \notin lo..hi

LEMMA RangeProposed ==
    ASSUME NEW h, NEW n, Numbers(h, n), NEW turnNow,
           NEW keepFirst \in BOOLEAN, NEW keepRecent \in Nat \ {0},
           NEW r \in TruncateRange(h, turnNow, keepFirst, keepRecent)
    PROVE  Proposed(h, n, turnNow, keepFirst, keepRecent, r[1], r[2])
<1> DEFINE starts == TurnStarts(h)
           t == Len(starts)
           from == IF keepFirst THEN 2 ELSE 1
           drop == Droppable(h, keepFirst, keepRecent)
           first == CHOOSE k \in drop : \A q \in drop : k <= q
           last == CHOOSE k \in drop : \A q \in drop : q <= k
<1>1. /\ t \in Nat /\ DOMAIN starts = 1..t
      /\ \A k \in 1..t : starts[k].seq \in 1..n /\ IsType(h[starts[k].seq], {"TurnStarted"})
      /\ \A j, k \in 1..t : j < k => starts[j].seq < starts[k].seq
    BY StartsListed
<1>2. /\ ~CompactedFor(h, turnNow) /\ drop # {}
      /\ r = <<starts[first].seq, TurnEnd(h, last)>>
    BY Zenon DEF TruncateRange
<1>3. drop \in SUBSET (from..(t - keepRecent))
    BY DEF Droppable
<1> HIDE DEF starts, t, drop
<1>4. drop \in SUBSET (1..t) /\ drop \in SUBSET Nat /\ from \in {1, 2}
    BY <1>1, <1>3
<1>5. first \in drop /\ \A q \in drop : first <= q
    BY <1>2, <1>4, LeastNat
<1>6. last \in drop /\ \A q \in drop : q <= last
    <2>1. Latest(drop) \in drop /\ \A q \in drop : q <= Latest(drop)
        BY <1>1, <1>2, <1>4, LatestIsLast
    <2> QED
        BY <2>1
<1> HIDE DEF first, last
<1>7. /\ first \in 1..t /\ last \in 1..(t - 1) /\ last + 1 \in 1..t /\ first <= last
      /\ from <= first /\ last <= t - keepRecent
    BY <1>1, <1>3, <1>4, <1>5, <1>6
<1> DEFINE a == starts[last].seq
           b == starts[last + 1].seq
           lo == starts[first].seq
           hi == TurnEnd(h, last)
<1>8. a \in 1..n /\ b \in 1..n /\ a < b /\ IsType(h[b], {"TurnStarted"})
    BY <1>1, <1>7
<1>9. hi \in a..(b - 1) /\ IsType(h[hi + 1], {"TurnStarted", "ContextManageEntered"})
    <2>1. TurnStarts(h)[last].seq = a
        BY DEF starts
    <2> HIDE DEF a, b
    <2> QED
        BY <1>8, <2>1, TurnEndFound
<1>10. lo \in 1..n /\ lo <= a /\ IsType(h[lo], {"TurnStarted"})
    BY <1>1, <1>7, <1>8
<1>11. n \in Nat
    BY DEF Numbers
<1>12. ASSUME NEW k \in 1..t, (k = 1 /\ keepFirst) \/ k > t - keepRecent
       PROVE  starts[k].seq \notin lo..hi
    <2> DEFINE s == starts[k].seq
    <2>0. s \in 1..n
        BY <1>1
    <2>1. CASE k = 1 /\ keepFirst
        <3>1. k < first
            BY <1>7, <2>1
        <3>2. s < lo
            BY <1>1, <1>7, <3>1
        <3> HIDE DEF s, lo, hi
        <3> QED
            BY <1>10, <1>11, <2>0, <3>2 DEF s
    <2>2. CASE k > t - keepRecent
        <3>1. last + 1 <= k
            BY <1>1, <1>7, <2>2
        <3>2. b <= s
            <4>1. CASE last + 1 = k
                BY <1>8, <4>1
            <4>2. CASE last + 1 # k
                <5>1. last + 1 < k
                    BY <1>1, <1>7, <3>1, <4>2
                <5> QED
                    BY <1>1, <1>7, <1>8, <2>0, <5>1
            <4> QED
                BY <4>1, <4>2
        <3> HIDE DEF s, lo, hi, a, b
        <3>3. hi < s
            BY <1>8, <1>9, <1>11, <2>0, <3>2
        <3> QED
            BY <1>9, <1>8, <1>11, <2>0, <3>3 DEF s
    <2> QED
        BY <1>12, <2>1, <2>2
<1> DEFINE kept(x, y) == \A k \in DOMAIN TurnStarts(h) :
                             (k = 1 /\ keepFirst) \/ k > Len(TurnStarts(h)) - keepRecent
                                 => TurnStarts(h)[k].seq \notin x..y
<1>13. kept(lo, hi)
    <2>1. \A k \in DOMAIN starts : (k = 1 /\ keepFirst) \/ k > t - keepRecent => starts[k].seq \notin lo..hi
        BY <1>1, <1>12
    <2> QED
        BY <2>1 DEF starts, t
<1>14. r[1] = lo /\ r[2] = hi
    BY <1>2
<1> HIDE DEF lo, hi, a, b, kept
<1>15. hi \in lo..(n - 1)
    BY <1>8, <1>9, <1>10, <1>11
<1>16. Proposed(h, n, turnNow, keepFirst, keepRecent, lo, hi)
    BY <1>2, <1>9, <1>10, <1>13, <1>15 DEF Proposed, kept
<1> QED
    BY <1>14, <1>16

\* The recorder, whose loaded cache has all of the history it has counted, accepts what
\* the compactor proposes.
LEMMA ProposedAccepted ==
    ASSUME RInv, pc = "compact", ~LoadFails, Readable(file), NEW keepFirst, NEW keepRecent,
           NEW lo, NEW hi, Proposed(History, Len(file) - 1, turn, keepFirst, keepRecent, lo, hi)
    PROVE  Accepts(Loaded, lo, hi)
<1> DEFINE n == seq_counter
           m == Len(file)
           c == Loaded
           len == Len(c)
<1>1. /\ seq_counter \in Nat /\ faults \in Nat /\ Sound(file)
      /\ Kept(file, seq_counter, history_cache)
      /\ Paid(file, seq_counter, history_cache, pc, faults)
      /\ pc \notin Opened /\ n >= 1
    BY DEF RInv, Sound, Kept, Closed, Opened
<1>2. Kept(file, n, c)
    BY <1>1, LoadedKept
<1>3. /\ IsSeq(c) /\ DOMAIN c = 1..len /\ len \in Nat /\ len <= n
      /\ \A i \in 1..len : c[i] = file[n - len + i].body /\ c[i].seq = n - len + i - 1
    BY <1>2 DEF Kept, Suffix, IsSeq
<1>4. m \in Nat /\ (m = n \/ m = n + 1) /\ \A i \in 1..m : file[i].ok /\ file[i].body.seq = i - 1
    BY <1>1 DEF Sound, FileOK, IsSeq, Numbered, Kept, Past, Readable
<1>5. len >= n - 1
    <2>1. CASE Missing = 0
        <3>1. c = history_cache /\ n - Len(history_cache) = 0
            BY <2>1 DEF Loaded, Missing
        <3> HIDE DEF c, n
        <3>2. Len(history_cache) = len
            BY <3>1
        <3> HIDE DEF len
        <3> QED
            BY <1>1, <1>3, <3>1, <3>2 DEF n
    <2>2. CASE Missing # 0
        <3>1. Loads(file, n, history_cache, c) /\ n - Len(history_cache) # 0
            BY <2>2 DEF Loads, Loaded, Missing
        <3>2. n \in Nat /\ Past(file, n) /\ Suffix(file, n, history_cache)
            BY <1>1 DEF Kept
        <3> HIDE DEF c, n
        <3>3. Len(c) = n - 1
            BY <1>1, <3>1, <3>2, LoadsShape
        <3> HIDE DEF c, n
        <3> QED
            BY <3>2, <3>3
    <2> QED
        BY <2>1, <2>2
<1> DEFINE h == History
<1>6. DOMAIN h = 1..(m - 1) /\ \A k \in 1..(m - 1) : h[k] = file[k + 1].body
    <2>1. m >= 1
        BY <1>1, <1>4
    <2>2. h = [k \in 1..(m - 1) |-> file[k + 1].body]
        BY <1>1, <2>1, ReplayReadable DEF History
    <2> HIDE DEF h, m
    <2> QED
        BY <2>2
<1>7. /\ ~CompactedFor(h, turn)
      /\ lo \in 1..(m - 1) /\ IsType(h[lo], {"TurnStarted"})
      /\ hi \in lo..(m - 1 - 1) /\ IsType(h[hi + 1], {"TurnStarted", "ContextManageEntered"})
    BY DEF Proposed
<1> HIDE DEF h, c, len, m, n
\* Where an event of the cache is in the history, and the other way round.
<1>8. \A i \in 1..len : c[i].seq = n - len + i - 1 /\ (c[i].seq >= 1 => c[i].seq \in 1..(m - 1) /\ c[i] = h[c[i].seq])
    <2> SUFFICES ASSUME NEW i \in 1..len
                 PROVE  c[i].seq = n - len + i - 1 /\ (c[i].seq >= 1 => c[i].seq \in 1..(m - 1) /\ c[i] = h[c[i].seq])
        OBVIOUS
    <2> DEFINE s == n - len + i - 1
    <2>1. c[i].seq = s /\ c[i] = file[n - len + i].body
        BY <1>3
    <2>2. n - len + i = s + 1 /\ s \in Int /\ (s >= 1 => s \in 1..(m - 1))
        BY <1>1, <1>3, <1>4 DEF n
    <2> HIDE DEF s
    <2>3. s >= 1 => h[s] = file[s + 1].body
        BY <1>6, <2>2
    <2> QED
        BY <2>1, <2>2, <2>3 DEF s
<1>9. \A s \in 1..(n - 1) : s - (n - len) + 1 \in 1..len /\ c[s - (n - len) + 1] = h[s] /\ c[s - (n - len) + 1].seq = s
    <2> SUFFICES ASSUME NEW s \in 1..(n - 1)
                 PROVE  s - (n - len) + 1 \in 1..len /\ c[s - (n - len) + 1] = h[s] /\ c[s - (n - len) + 1].seq = s
        OBVIOUS
    <2> DEFINE i == s - (n - len) + 1
    <2>1. i \in 1..len /\ n - len + i - 1 = s /\ s >= 1
        BY <1>1, <1>3, <1>5 DEF n
    <2> HIDE DEF i
    <2>2. c[i].seq = s /\ c[i] = h[s]
        BY <1>8, <2>1
    <2> QED
        BY <2>1, <2>2 DEF i
<1>10. hi < n /\ lo <= hi /\ hi \in Nat /\ lo \in Nat /\ n \in Nat
    BY <1>1, <1>4, <1>7 DEF n
<1>11. \E i \in DOMAIN c : c[i].seq = lo /\ IsType(c[i], {"TurnStarted"})
    <2>1. lo \in 1..(n - 1)
        BY <1>7, <1>10
    <2> QED
        BY <1>3, <1>7, <1>9, <2>1
<1>12. ASSUME NEW i \in DOMAIN c, c[i].seq > hi, \A k \in 1..(i - 1) : c[k].seq <= hi
       PROVE  IsType(c[i], {"TurnStarted", "ContextManageEntered"})
    <2>1. i \in 1..len /\ i \in Nat /\ n - len \in Int
        BY <1>3, <1>10
    <2>2. c[i].seq = n - len + i - 1 /\ c[i] = h[c[i].seq]
        BY <1>7, <1>8, <1>10, <1>12, <2>1
    <2>3. c[i].seq = hi + 1
        <3> SUFFICES ASSUME c[i].seq > hi + 1
                     PROVE  FALSE
            BY <1>10, <1>12, <2>1, <2>2
        <3> DEFINE k == i - 1
        <3>1. n - len + k - 1 > hi /\ k >= 1 /\ k \in 1..len /\ k \in 1..(i - 1)
            <4> DEFINE s == c[i].seq
            <4>1. s = n - len + i - 1 /\ s > hi + 1 /\ hi >= 1
                BY <1>7, <1>10, <2>2
            <4>2. len \in Nat /\ len <= n /\ len >= n - 1
                BY <1>3, <1>5
            <4> HIDE DEF s
            <4> QED
                BY <1>10, <2>1, <4>1, <4>2
        <3> HIDE DEF k
        <3>2. c[k].seq = n - len + k - 1 /\ c[k].seq <= hi
            BY <1>8, <1>12, <3>1
        <3> QED
            BY <1>3, <1>10, <2>1, <3>1, <3>2
    <2> QED
        BY <1>7, <2>2, <2>3
<1>13. ~CompactedFor(c, turn)
    <2> SUFFICES ASSUME NEW i \in 1..len, IsType(c[i], {"ContextCompacted"}), c[i].ev.turn = turn
                 PROVE  FALSE
        BY <1>3 DEF CompactedFor
    <2>1. n - len + i \in 1..m /\ c[i] = file[n - len + i].body /\ c[i].seq = n - len + i - 1
        BY <1>3, <1>4, <1>10
    <2>2. c[i].seq >= 1
        <3> DEFINE q == n - len + i
        <3>1. q \in 1..m /\ c[i] = file[q].body
            BY <2>1
        <3> HIDE DEF q
        <3>2. file[q].ok /\ file[q].body.ev.type \in Onces
            BY <1>4, <3>1 DEF IsType, Onces
        <3> QED
            BY <1>1, <3>1, <3>2 DEF Sound, Once, m
    <2>3. c[i].seq \in DOMAIN h /\ c[i] = h[c[i].seq]
        BY <1>6, <1>8, <2>2
    <2> QED
        BY <1>7, <2>3 DEF CompactedFor
<1> QED
    BY <1>10, <1>11, <1>12, <1>13 DEF Accepts, c, n

\* What the truncating compactor proposes the recorder accepts, and none of the turns
\* that are kept is in it (truncate.rs collect_turn_boundaries against
\* record_context_compacted), if at least the turn in flight is kept.
THEOREM StepRecorderTruncateAccepted ==
    ASSUME KeepRecent >= 1
    PROVE  Spec => []TruncateAccepted
<1>1. RInv => TruncateAccepted
    <2> SUFFICES ASSUME RInv, pc = "compact", ~LoadFails, Readable(file),
                        NEW r \in TruncateRange(History, turn, KeepFirst, KeepRecent)
                 PROVE  /\ Accepts(Loaded, r[1], r[2])
                        /\ \A k \in DOMAIN TurnStarts(History) :
                              (k = 1 /\ KeepFirst) \/ k > Len(TurnStarts(History)) - KeepRecent
                                  => TurnStarts(History)[k].seq \notin r[1]..r[2]
        BY DEF TruncateAccepted
    <2> DEFINE n == Len(file) - 1
    <2>1. /\ seq_counter >= 1 /\ Sound(file) /\ Past(file, seq_counter) /\ seq_counter \in Nat
          /\ Len(file) \in Nat
          /\ \A i \in 1..Len(file) : file[i].body.seq = i - 1
        BY DEF RInv, Sound, Closed, FileOK, IsSeq, Numbered
    <2>2. Len(file) >= 1
        BY <2>1 DEF Past
    <2>3. History = [k \in 1..n |-> file[k + 1].body]
        BY <2>1, <2>2, ReplayReadable DEF History
    <2>4. Numbers(History, n)
        <3>1. n \in Nat /\ \A k \in 1..n : k + 1 \in 1..Len(file) /\ (k + 1) - 1 = k
            BY <2>1, <2>2
        <3> HIDE DEF n
        <3> QED
            BY <2>1, <2>3, <3>1 DEF Numbers
    <2>5. KeepFirst \in BOOLEAN /\ KeepRecent \in Nat \ {0}
        BY TruncateAssumption
    <2>6. Proposed(History, n, turn, KeepFirst, KeepRecent, r[1], r[2])
        <3> HIDE DEF n
        <3> QED
            BY <2>4, <2>5, RangeProposed
    <2>7. Accepts(Loaded, r[1], r[2])
        BY <2>6, ProposedAccepted
    <2> QED
        BY <2>6, <2>7 DEF Proposed
<1> QED
    BY <1>1, StepRecorderInvariant, PTL
=============================================================================
