--------------------------- MODULE SubagentsProofs ---------------------------
(***************************************************************************)
(* Any number of sessions, opened, closed and delegated to by any number of *)
(* calls: a session has one writer and a log without gap or repeat, unless  *)
(* a client raced a close or a drain deadline passed, and a delegate call   *)
(* answers with what its own child said last.                               *)
(*                                                                         *)
(* The invariant follows the recorder's counter: what a process read of the *)
(* log before an await still describes the log after it, because nobody     *)
(* else can write meanwhile.                                                *)
(***************************************************************************)
EXTENDS Subagents, FiniteSetTheorems, TLAPS

Kinds == {"SessionStarted", "TurnStarted", "Message", "TurnCompleted", "TurnFailed"}
Published == {"TurnStarted", "TextDelta", "TurnCompleted", "TurnFailed"}

LogEntry == [seq : Int, kind : Kinds, depth : Nat]

Process == [phase : Alive \cup {"idle", "refused", "gone"}, session : SessionIds \cup {NoHandle},
            mode : OpenModes, register : BOOLEAN, depth : Nat, latest : Int, cut : BOOLEAN,
            next : Int, inbox : BOOLEAN, stop : BOOLEAN, turn : {"none", "ended"} \cup Working]

DelegateCall == [pc : Waiting \cup {"idle", "done"}, parent : Procs \cup {NoHandle},
                 ending : {"-", "completed", "failed", "lagged", "timeout"},
                 outcome : {"-", "refused", "open_failed", "timeout", "child_failed", "answer"},
                 text : Nat]

Feed == [queue : Seq(Published), lagged : BOOLEAN]

\* The shape of the state; the registry holds the handles of openers only, never that
\* of a delegate call.
ShapeOK ==
    /\ store \in [SessionIds -> Seq(LogEntry)]
    /\ registry \in [SessionIds -> Openers \cup {NoHandle}]
    /\ procs \in [Procs -> Process]
    /\ calls \in [Calls -> DelegateCall]
    /\ feed \in [Calls -> Feed]

\* A process that may write: its actor lives or its turn runs.
Writer(r) == r.phase \in Alive \/ r.turn \in Working

\* What the record r of process p says by itself.  A turn that runs on without its
\* actor has outlived a deadline.
ProcOK(p, r, over) ==
    /\ r \in Process
    /\ r.phase \in Alive \cup {"gone"} => r.session \in SessionIds /\ (p \in Calls => r.session = p)
    /\ p \in Calls => ~r.register
    /\ r.turn # "none" => r.phase \in {"up", "draining", "gone"}
    /\ r.phase = "gone" /\ r.turn \in Working => r.session \in over
    /\ r.phase \in {"idle", "refused"} => r.session = NoHandle

ProcsOK == \A p \in Procs : ProcOK(p, procs[p], overran)

\* No process has the session of a call that was not made, and nothing is known of it.
Unminted ==
    \A c \in Calls : calls[c].pc = "idle" =>
        /\ calls[c] = NoCall /\ feed[c] = NoFeed /\ procs[c].phase = "idle"
        /\ \A p \in Procs : procs[p].session # c

\* A session has one writer.
Unique ==
    \A p, q \in Procs :
        /\ Writer(procs[p]) /\ Writer(procs[q]) /\ procs[p].session = procs[q].session
        /\ procs[p].session \notin raced \cup overran
        => p = q

\* A log numbered from 0, with one SessionStarted, the first event.
Numbered(lg) ==
    \A i \in DOMAIN lg : lg[i].seq = i - 1 /\ (lg[i].kind = "SessionStarted" <=> i = 1)

\* What a process knows of its log is so.
Abreast(r, lg) ==
    /\ r.phase \in {"collecting", "starting"} => r.latest = Len(lg) - 1
    /\ r.phase \in {"up", "draining"} \/ r.turn \in Working => r.next = Len(lg) /\ lg # <<>>

LogsOK ==
    /\ \A s \in SessionIds \ (raced \cup overran) : Numbered(store[s])
    /\ \A p \in Procs : procs[p].session \in SessionIds \ (raced \cup overran) =>
           Abreast(procs[p], store[procs[p].session])

\* The turn of r, whose log is lg, has completed.
Completed(r, lg) ==
    /\ r.turn = "ended"
    /\ \E i \in DOMAIN lg : lg[i].kind = "TurnCompleted"

\* It has, or says so already: nothing but the end is to be written.
Promised(r, lg) == r.turn = "TurnCompleted" \/ Completed(r, lg)

\* What a call k with child r, log lg and receiver queue q may rely on.
CallOK(k, r, lg, q) ==
    /\ k.pc = "done" => r.phase \in {"idle", "refused", "gone"}
    /\ \A i \in DOMAIN q : q[i] = "TurnCompleted" => Promised(r, lg)
    /\ k.ending = "completed" => Promised(r, lg)
    /\ k.pc = "done" /\ k.outcome = "answer" /\ k.ending = "completed" => k.text = Messages(lg)

CallsOK == \A c \in Calls : CallOK(calls[c], procs[c], store[c], feed[c].queue)

Inv ==
    /\ ShapeOK
    /\ ProcsOK
    /\ Unminted
    /\ Unique
    /\ LogsOK
    /\ CallsOK

-----------------------------------------------------------------------------
(* Logs, queues and call records *)

\* An event of another kind leaves the count of messages alone.
LEMMA MessagesAppend ==
    ASSUME NEW lg \in Seq(LogEntry), NEW e \in LogEntry, e.kind # "Message"
    PROVE  Messages(Append(lg, e)) = Messages(lg)
  <1>1. {i \in DOMAIN Append(lg, e) : Append(lg, e)[i].kind = "Message"}
        = {i \in DOMAIN lg : lg[i].kind = "Message"}
    <2>1. /\ Len(Append(lg, e)) = Len(lg) + 1 /\ DOMAIN Append(lg, e) = 1 .. Len(lg) + 1
          /\ DOMAIN lg = 1 .. Len(lg) /\ Len(lg) \in Nat
          /\ Append(lg, e)[Len(lg) + 1] = e
          /\ \A i \in 1 .. Len(lg) : Append(lg, e)[i] = lg[i]
      BY DEF LogEntry
    <2>2. \A i \in 1 .. Len(lg) + 1 : i \in 1 .. Len(lg) \/ i = Len(lg) + 1
      BY <2>1
    <2> QED BY <2>1, <2>2
  <1> QED BY <1>1 DEF Messages

\* A log grows by one.
LEMMA AppendGrows ==
    ASSUME NEW lg \in Seq(LogEntry), NEW e \in LogEntry
    PROVE  Len(Append(lg, e)) = Len(lg) + 1 /\ Append(lg, e) # <<>>
  <1>1. Len(Append(lg, e)) = Len(lg) + 1 /\ Len(lg) \in Nat
    BY DEF LogEntry
  <1> QED BY <1>1

\* The messages of a log can be counted.
LEMMA MessagesType ==
    ASSUME NEW lg \in Seq(LogEntry)
    PROVE  Messages(lg) \in Nat
  <1>1. Len(lg) \in Nat /\ DOMAIN lg = 1 .. Len(lg)
    OBVIOUS
  <1>2. IsFiniteSet(1 .. Len(lg))
    BY <1>1, FS_Interval
  <1>3. IsFiniteSet({i \in DOMAIN lg : lg[i].kind = "Message"})
    BY <1>1, <1>2, FS_Subset
  <1> QED BY <1>3, FS_CardinalityType DEF Messages

\* A send keeps the receiver's shape; what is in the queue was there or is the event sent.
LEMMA SentType ==
    ASSUME NEW f \in Feed, NEW ev \in Published
    PROVE  /\ Sent(f, ev) \in Feed
           /\ \A i \in DOMAIN Sent(f, ev).queue :
                 \/ Sent(f, ev).queue[i] = ev
                 \/ \E j \in DOMAIN f.queue : Sent(f, ev).queue[i] = f.queue[j]
  <1>1. /\ f.queue \in Seq(Published) /\ f.lagged \in BOOLEAN
        /\ f = [queue |-> f.queue, lagged |-> f.lagged]
    BY DEF Feed
  <1>2. CASE Len(f.queue) < StreamCap
    <2>1. Sent(f, ev) = [queue |-> Append(f.queue, ev), lagged |-> f.lagged]
      BY <1>1, <1>2 DEF Sent, Feed
    <2>2. Append(f.queue, ev) \in Seq(Published)
      BY <1>1
    <2>3. Sent(f, ev) \in Feed
      BY <1>1, <2>1, <2>2 DEF Feed
    <2>4. \A i \in DOMAIN Append(f.queue, ev) : i \in DOMAIN f.queue \/ i = Len(f.queue) + 1
      BY <1>1
    <2>5. /\ Append(f.queue, ev)[Len(f.queue) + 1] = ev
          /\ \A i \in DOMAIN f.queue : Append(f.queue, ev)[i] = f.queue[i]
      BY <1>1
    <2> QED BY <2>1, <2>3, <2>4, <2>5
  <1>3. CASE ~(Len(f.queue) < StreamCap)
    <2> DEFINE t == Tail(f.queue)
    <2>0. f.queue # <<>>
      BY <1>1, <1>3, StreamCapAssumption
    <2>1. Sent(f, ev) = [queue |-> Append(t, ev), lagged |-> TRUE]
      BY <1>3 DEF Sent
    <2>2. /\ t \in Seq(Published)
          /\ \A i \in DOMAIN t : i + 1 \in DOMAIN f.queue /\ t[i] = f.queue[i + 1]
      BY <1>1, <2>0
    <2> HIDE DEF t
    <2>3. Append(t, ev) \in Seq(Published)
      BY <2>2
    <2>4. \A i \in DOMAIN Append(t, ev) : i \in DOMAIN t \/ i = Len(t) + 1
      BY <2>2
    <2>5. /\ Append(t, ev)[Len(t) + 1] = ev
          /\ \A i \in DOMAIN t : Append(t, ev)[i] = t[i]
      BY <2>2
    <2>6. Sent(f, ev) \in Feed
      BY <2>1, <2>3 DEF Feed
    <2>7. Sent(f, ev).queue = Append(t, ev)
      BY <2>1
    <2>8. ASSUME NEW i \in DOMAIN Append(t, ev)
          PROVE  Append(t, ev)[i] = ev \/ \E j \in DOMAIN f.queue : Append(t, ev)[i] = f.queue[j]
      <3>1. CASE i \in DOMAIN t
        <4>1. Append(t, ev)[i] = f.queue[i + 1] /\ i + 1 \in DOMAIN f.queue
          BY <2>2, <2>5, <3>1
        <4> QED BY <4>1
      <3>2. CASE i = Len(t) + 1
        BY <2>5, <3>2
      <3> QED BY <2>4, <3>1, <3>2
    <2> QED BY <2>6, <2>7, <2>8
  <1> QED BY <1>2, <1>3

\* A call keeps what it relies on while its child's log grows: a turn that has
\* announced its end writes just that, an ended one nothing more.
LEMMA CallKept ==
    ASSUME NEW k, NEW r, NEW lg \in Seq(LogEntry), NEW q,
           NEW r2, NEW lg2, NEW e \in LogEntry,
           CallOK(k, r, lg, q),
           r.turn = "ended" => r2.turn = "ended",
           r.turn = "TurnCompleted" =>
               \/ r2.turn = "TurnCompleted"
               \/ r2.turn = "ended" /\ lg2 = Append(lg, e) /\ e.kind = "TurnCompleted",
           k.pc = "done" /\ r.phase \in {"idle", "refused", "gone"} =>
               r2.phase \in {"idle", "refused", "gone"},
           lg2 = lg \/ (lg2 = Append(lg, e) /\
                            (e.kind = "Message" => r.turn \notin {"TurnCompleted", "ended"}))
    PROVE  CallOK(k, r2, lg2, q)
  <1>1. ASSUME Promised(r, lg)
        PROVE  Promised(r2, lg2) /\ Messages(lg2) = Messages(lg)
    <2>1. r.turn \in {"TurnCompleted", "ended"}
      BY <1>1 DEF Promised, Completed
    <2>2. CASE lg2 = lg /\ r2.turn = r.turn
      BY <1>1, <2>2 DEF Promised, Completed
    <2>3. CASE lg2 = Append(lg, e) /\ e.kind # "Message"
      <3>1. Messages(lg2) = Messages(lg)
        BY <2>3, MessagesAppend
      <3>2. CASE r2.turn = "TurnCompleted"
        BY <3>1, <3>2 DEF Promised
      <3>3. CASE r.turn = "TurnCompleted" /\ r2.turn = "ended" /\ e.kind = "TurnCompleted"
        <4>1. Len(lg) + 1 \in DOMAIN Append(lg, e) /\ Append(lg, e)[Len(lg) + 1] = e
          BY DEF LogEntry
        <4>2. \E j \in DOMAIN lg2 : lg2[j].kind = "TurnCompleted"
          BY <2>3, <3>3, <4>1
        <4> QED BY <3>1, <3>3, <4>2 DEF Promised, Completed
      <3>4. CASE r.turn = "ended" /\ r2.turn = "ended"
        <4>1. PICK i \in DOMAIN lg : lg[i].kind = "TurnCompleted"
          BY <1>1, <3>4 DEF Promised, Completed
        <4>2. i \in DOMAIN Append(lg, e) /\ Append(lg, e)[i] = lg[i]
          BY <4>1
        <4>3. \E j \in DOMAIN lg2 : lg2[j].kind = "TurnCompleted"
          BY <2>3, <4>1, <4>2
        <4> QED BY <3>1, <3>4, <4>3 DEF Promised, Completed
      <3> QED BY <2>1, <3>2, <3>3, <3>4
    <2>4. CASE lg2 = lg /\ r2.turn # r.turn
      <3>1. lg # Append(lg, e)
        BY AppendGrows
      <3> QED BY <2>1, <2>4, <3>1
    <2> QED BY <2>1, <2>2, <2>3, <2>4
  <1>2. k.ending = "completed" => Promised(r, lg)
    BY DEF CallOK
  <1> QED BY <1>1, <1>2 DEF CallOK

-----------------------------------------------------------------------------
(* One process moves *)

\* A number of the log: what is appended at its length continues it.
LEMMA NumberedAppend ==
    ASSUME NEW lg \in Seq(LogEntry), NEW e \in LogEntry, Numbered(lg),
           e.seq = Len(lg), e.kind = "SessionStarted" <=> lg = <<>>
    PROVE  Numbered(Append(lg, e))
  <1>1. /\ DOMAIN Append(lg, e) = 1 .. Len(lg) + 1
        /\ DOMAIN lg = 1 .. Len(lg) /\ Len(lg) \in Nat
        /\ Append(lg, e)[Len(lg) + 1] = e
        /\ \A i \in 1 .. Len(lg) : Append(lg, e)[i] = lg[i]
    BY DEF LogEntry
  <1>2. \A i \in 1 .. Len(lg) + 1 : i \in 1 .. Len(lg) \/ i = Len(lg) + 1
    BY <1>1
  <1>3. Len(lg) + 1 = 1 <=> lg = <<>>
    OBVIOUS
  <1> QED BY <1>1, <1>2, <1>3 DEF Numbered

\* The moves of one process p to a record d.  The log of its session stays or grows by
\* the event e it wrote, at its own counter; the histories only grow.
Moves(p, d) ==
    /\ procs' = [procs EXCEPT ![p] = d]
    /\ ProcOK(p, d, overran')
    /\ raced \subseteq raced' /\ overran \subseteq overran'
    /\ \A q \in Procs \ {p} :
          Writer(d) /\ Writer(procs[q]) /\ procs[q].session = d.session =>
              d.session \in raced' \cup overran'
    /\ d.session \in SessionIds \ (raced' \cup overran') => Abreast(d, store'[d.session])

Silent == store' = store

Writes(p, e) ==
    /\ e \in LogEntry /\ Writer(procs[p])
    /\ store' = [store EXCEPT ![procs[p].session] = Append(@, e)]
    /\ procs[p].session \notin raced' \cup overran' =>
          /\ e.seq = Len(store[procs[p].session])
          /\ e.kind = "SessionStarted" <=> store[procs[p].session] = <<>>

\* Such a move keeps the records, their one writer per session and the logs.
LEMMA MoveKeeps ==
    ASSUME Inv, NEW p \in Procs, NEW d, Moves(p, d), NEW e, Silent \/ Writes(p, e)
    PROVE  /\ store' \in [SessionIds -> Seq(LogEntry)]
           /\ procs' \in [Procs -> Process]
           /\ ProcsOK' /\ Unique' /\ LogsOK'
  <1>0. /\ procs \in [Procs -> Process] /\ d \in Process
        /\ procs'[p] = d /\ \A q \in Procs \ {p} : procs'[q] = procs[q]
        /\ procs' \in [Procs -> Process]
    <2>1. procs \in [Procs -> Process] /\ d \in Process
      BY DEF Inv, ShapeOK, Moves, ProcOK
    <2> QED BY <2>1 DEF Moves
  <1>1. \A q \in Procs : Writer(procs[q]) => procs[q].session \in SessionIds
    BY DEF Inv, ProcsOK, ProcOK, Writer, Alive, Opening, Working
  <1>2. store \in [SessionIds -> Seq(LogEntry)]
    BY DEF Inv, ShapeOK
  <1>3. store' \in [SessionIds -> Seq(LogEntry)]
    <2>1. CASE Silent
      BY <1>2, <2>1 DEF Silent
    <2>2. CASE Writes(p, e)
      <3>1. procs[p].session \in SessionIds /\ e \in LogEntry
        BY <1>1, <2>2 DEF Writes
      <3>2. Append(store[procs[p].session], e) \in Seq(LogEntry)
        BY <1>2, <3>1
      <3> QED BY <1>2, <2>2, <3>1, <3>2 DEF Writes
    <2> QED BY <2>1, <2>2
  <1>4. ProcsOK'
    <2>1. \A q \in Procs : ProcOK(q, procs[q], overran)
      BY DEF Inv, ProcsOK
    <2>2. \A q \in Procs : ProcOK(q, procs[q], overran')
      BY <2>1 DEF ProcOK, Moves
    <2>3. ProcOK(p, d, overran')
      BY DEF Moves
    <2> QED BY <1>0, <2>2, <2>3 DEF ProcsOK
  <1>5. Unique'
    <2> SUFFICES ASSUME NEW a \in Procs, NEW b \in Procs,
                        Writer(procs'[a]), Writer(procs'[b]), procs'[a].session = procs'[b].session,
                        procs'[a].session \notin raced' \cup overran', a # b
                 PROVE  FALSE
      BY DEF Unique
    <2>1. CASE a = p
      BY <1>0, <2>1 DEF Moves
    <2>2. CASE b = p
      BY <1>0, <2>2 DEF Moves
    <2>3. CASE a # p /\ b # p
      BY <1>0, <2>3 DEF Inv, Unique, Moves
    <2> QED BY <2>1, <2>2, <2>3
  <1>6. ASSUME NEW s \in SessionIds, s \notin raced' \cup overran'
        PROVE  Numbered(store'[s])
    <2>1. Numbered(store[s])
      BY <1>6 DEF Inv, LogsOK, Moves
    <2>2. CASE Silent
      BY <2>1, <2>2 DEF Silent
    <2>3. CASE Writes(p, e) /\ s = procs[p].session
      <3>1. store'[s] = Append(store[s], e)
        BY <1>2, <2>3 DEF Writes
      <3>2. /\ store[s] \in Seq(LogEntry) /\ e \in LogEntry
            /\ e.seq = Len(store[s]) /\ (e.kind = "SessionStarted" <=> store[s] = <<>>)
        BY <1>2, <1>6, <2>3 DEF Writes
      <3> QED BY <2>1, <3>1, <3>2, NumberedAppend
    <2>4. CASE Writes(p, e) /\ s # procs[p].session
      <3>1. store'[s] = store[s]
        BY <1>2, <2>4 DEF Writes
      <3> QED BY <2>1, <3>1
    <2> QED BY <2>2, <2>3, <2>4
  <1>7. ASSUME NEW q \in Procs, procs'[q].session \in SessionIds \ (raced' \cup overran')
        PROVE  Abreast(procs'[q], store'[procs'[q].session])
    <2>1. CASE q = p
      BY <1>0, <1>7, <2>1 DEF Moves
    <2>2. CASE q # p /\ ~Writer(procs[q])
      BY <1>0, <2>2 DEF Writer, Abreast, Alive, Opening
    <2>3. CASE q # p /\ Writer(procs[q])
      <3>1. procs'[q] = procs[q]
        BY <1>0, <2>3
      <3>2. procs[q].session \in SessionIds \ (raced \cup overran)
        BY <1>7, <3>1 DEF Moves
      <3>3. Abreast(procs[q], store[procs[q].session])
        BY <3>2 DEF Inv, LogsOK
      <3>4. store'[procs[q].session] = store[procs[q].session]
        <4>1. CASE Silent
          BY <4>1 DEF Silent
        <4>2. CASE Writes(p, e)
          <5>1. procs[p].session # procs[q].session
            BY <2>3, <3>2, <4>2 DEF Writes, Inv, Unique
          <5> QED BY <1>2, <3>2, <4>2, <5>1 DEF Writes
        <4> QED BY <4>1, <4>2
      <3> QED BY <3>1, <3>3, <3>4
    <2> QED BY <2>1, <2>2, <2>3
  <1>8. LogsOK'
    BY <1>6, <1>7 DEF LogsOK
  <1> QED BY <1>0, <1>3, <1>4, <1>5, <1>8

\* Nothing becomes known of a session whose call was not made.
LEMMA MoveKeepsUnminted ==
    ASSUME Inv, NEW p \in Procs, NEW d, Moves(p, d),
           \A c \in Calls : calls'[c].pc = "idle" =>
               calls'[c] = calls[c] /\ feed'[c] = feed[c] /\ c # p /\ d.session # c
    PROVE  Unminted'
  <1>1. procs \in [Procs -> Process]
    BY DEF Inv, ShapeOK
  <1>2. procs'[p] = d /\ \A q \in Procs \ {p} : procs'[q] = procs[q]
    BY <1>1 DEF Moves
  <1>3. Calls \subseteq Procs
    BY DEF Procs
  <1> QED BY <1>2, <1>3 DEF Inv, Unminted

\* A process that keeps its session stays its only writer.
LEMMA StayMoves ==
    ASSUME Inv, NEW p \in Procs, NEW d, procs' = [procs EXCEPT ![p] = d],
           ProcOK(p, d, overran'), raced \subseteq raced', overran \subseteq overran',
           d.session = procs[p].session, Writer(d) => Writer(procs[p]),
           d.session \in SessionIds \ (raced' \cup overran') => Abreast(d, store'[d.session])
    PROVE  Moves(p, d)
  <1>1. ASSUME NEW q \in Procs, q # p,
               Writer(d), Writer(procs[q]), procs[q].session = d.session
        PROVE  d.session \in raced \cup overran
    BY <1>1 DEF Inv, Unique
  <1> QED BY <1>1 DEF Moves

\* The calls keep what they rely on: only the child's running turn says something, an
\* announced end is written next and an ended turn stays ended.
LEMMA MoveKeepsCalls ==
    ASSUME Inv, NEW p \in Procs, NEW d, Moves(p, d), NEW e, Silent \/ Writes(p, e),
           procs[p].turn = "ended" => d.turn = "ended",
           procs[p].turn = "TurnCompleted" =>
               \/ d.turn = "TurnCompleted"
               \/ d.turn = "ended" /\ Writes(p, e) /\ e.kind = "TurnCompleted",
           p \in Calls /\ calls[p].pc = "done" /\ procs[p].phase \in {"idle", "refused", "gone"} =>
               d.phase \in {"idle", "refused", "gone"},
           Writes(p, e) /\ e.kind = "Message" => p \in Calls /\ procs[p].turn = "running"
    PROVE  \A c \in Calls : CallOK(calls[c], procs'[c], store'[c], feed[c].queue)
  <1> SUFFICES ASSUME NEW c \in Calls
               PROVE  CallOK(calls[c], procs'[c], store'[c], feed[c].queue)
    OBVIOUS
  <1>0. /\ procs \in [Procs -> Process] /\ store \in [SessionIds -> Seq(LogEntry)]
        /\ c \in Procs /\ c \in SessionIds
        /\ CallOK(calls[c], procs[c], store[c], feed[c].queue)
    BY DEF Inv, ShapeOK, CallsOK, Procs, SessionIds
  <1>1. /\ procs[c].turn = "ended" => procs'[c].turn = "ended"
        /\ calls[c].pc = "done" /\ procs[c].phase \in {"idle", "refused", "gone"} =>
               procs'[c].phase \in {"idle", "refused", "gone"}
    <2>1. CASE c = p
      BY <1>0, <2>1 DEF Moves
    <2>2. CASE c # p
      <3>1. procs'[c] = procs[c]
        BY <1>0, <2>2 DEF Moves
      <3> QED BY <3>1
    <2> QED BY <2>1, <2>2
  <1>2. c # p => procs'[c] = procs[c]
    BY <1>0 DEF Moves
  <1>3. c = p => procs'[c] = d
    BY <1>0 DEF Moves
  <1>4. CASE Writes(p, e) /\ procs[p].session = c
    <2>1. store'[c] = Append(store[c], e) /\ e \in LogEntry
      BY <1>0, <1>4 DEF Writes
    <2>2. e.kind = "Message" => procs[c].turn \notin {"TurnCompleted", "ended"}
      <3>1. ProcOK(p, procs[p], overran)
        BY DEF Inv, ProcsOK
      <3>2. e.kind = "Message" => p = c
        BY <1>4, <3>1 DEF Writes, Writer, ProcOK, Alive, Opening
      <3> QED BY <1>4, <3>2
    <2>3. procs[c].turn = "TurnCompleted" =>
             \/ procs'[c].turn = "TurnCompleted"
             \/ /\ procs'[c].turn = "ended" /\ store'[c] = Append(store[c], e)
                /\ e.kind = "TurnCompleted"
      BY <1>2, <1>3, <2>1
    <2>4. store[c] \in Seq(LogEntry)
      BY <1>0
    <2> QED BY <1>0, <1>1, <2>1, <2>2, <2>3, <2>4, CallKept
  <1>5. CASE ~(Writes(p, e) /\ procs[p].session = c)
    <2> DEFINE any == [seq |-> 0, kind |-> "TurnStarted", depth |-> 0]
    <2>1. any \in LogEntry
      BY DEF LogEntry, Kinds
    <2> HIDE DEF any
    <2>2. store[c] \in Seq(LogEntry)
      BY <1>0
    <2>3. store'[c] = store[c]
      <3>1. CASE Silent
        BY <3>1 DEF Silent
      <3>2. CASE Writes(p, e)
        BY <1>0, <1>5, <3>2 DEF Writes
      <3> QED BY <3>1, <3>2
    <2>4. procs[c].turn = "TurnCompleted" => procs'[c].turn = "TurnCompleted"
      <3>1. CASE c # p
        BY <1>2, <3>1
      <3>2. CASE c = p
        <4>1. ProcOK(p, procs[p], overran)
          BY DEF Inv, ProcsOK
        <4>2. procs[p].turn = "TurnCompleted" => procs[p].session = p
          BY <3>2, <4>1 DEF ProcOK, Alive
        <4> QED BY <1>3, <1>5, <3>2, <4>2
      <3> QED BY <3>1, <3>2
    <2> QED BY <1>0, <1>1, <2>1, <2>2, <2>3, <2>4, CallKept
  <1> QED BY <1>4, <1>5

\* A move that leaves the calls and their receivers alone keeps the whole invariant.
LEMMA PlainMove ==
    ASSUME Inv, NEW p \in Procs, NEW d, Moves(p, d), NEW e, Silent \/ Writes(p, e),
           registry' \in [SessionIds -> Openers \cup {NoHandle}], UNCHANGED subagentVars,
           procs[p].turn \in {"TurnCompleted", "ended"} => d.turn = procs[p].turn,
           p \in Calls /\ calls[p].pc = "done" /\ procs[p].phase \in {"idle", "refused", "gone"} =>
               d.phase \in {"idle", "refused", "gone"},
           Writes(p, e) /\ e.kind = "Message" => p \in Calls /\ procs[p].turn = "running",
           \A c \in Calls : calls[c].pc = "idle" => c # p /\ d.session # c
    PROVE  Inv'
  <1>1. /\ store' \in [SessionIds -> Seq(LogEntry)]
        /\ procs' \in [Procs -> Process]
        /\ ProcsOK' /\ Unique' /\ LogsOK'
    BY MoveKeeps
  <1>2. calls' = calls /\ feed' = feed
    BY DEF subagentVars
  <1>3. Unminted'
    BY <1>2, MoveKeepsUnminted
  <1>4. \A c \in Calls : CallOK(calls[c], procs'[c], store'[c], feed[c].queue)
    BY MoveKeepsCalls
  <1>5. CallsOK'
    BY <1>2, <1>4 DEF CallsOK
  <1>6. ShapeOK'
    BY <1>1, <1>2 DEF Inv, ShapeOK
  <1> QED BY <1>1, <1>3, <1>5, <1>6 DEF Inv

\* A process that is under way has a session that was minted.
LEMMA MintedStays ==
    ASSUME Inv, NEW p \in Procs, NEW d, d.session \in {procs[p].session, NoHandle},
           p \in Openers \/ procs[p].phase # "idle"
    PROVE  \A c \in Calls : calls[c].pc = "idle" => c # p /\ d.session # c
  BY IdsAssumption DEF Inv, Unminted

\* A process that is under way moves on within its session.
LEMMA StayStep ==
    ASSUME Inv, NEW p \in Procs, NEW d, Moves(p, d),
           p \in Openers \/ procs[p].phase # "idle", d.session = procs[p].session,
           NEW e, Silent \/ Writes(p, e), Writes(p, e) => e.kind # "Message",
           registry' \in [SessionIds -> Openers \cup {NoHandle}], UNCHANGED subagentVars,
           procs[p].turn \in {"TurnCompleted", "ended"} => d.turn = procs[p].turn,
           procs[p].phase \in {"idle", "refused", "gone"} => d.phase = procs[p].phase
    PROVE  Inv'
  <1>1. \A c \in Calls : calls[c].pc = "idle" => c # p /\ d.session # c
    BY MintedStays
  <1> QED BY <1>1, PlainMove

\* A record of a process that has not read the store yet.
LEMMA ProcType ==
    ASSUME NEW phase \in Alive \cup {"idle", "refused", "gone"},
           NEW session \in SessionIds \cup {NoHandle}, NEW mode \in OpenModes,
           NEW register \in BOOLEAN, NEW depth \in Nat
    PROVE  Proc(phase, session, mode, register, depth) \in Process
  BY DEF Proc, Process

\* An open that is refused leaves at most the SessionStarted it wrote.
LEMMA RefusedStep ==
    ASSUME Inv, NEW p \in Procs, Refused(p), p \in Openers \/ procs[p].phase # "idle",
           procs[p].phase \in Opening \cup {"idle"},
           NEW e, Silent \/ Writes(p, e), Writes(p, e) => e.kind # "Message",
           UNCHANGED <<registry, raced, overran>>, UNCHANGED subagentVars
    PROVE  Inv'
  <1> DEFINE d == Proc("refused", NoHandle, "New", FALSE, 0)
  <1>1. /\ d \in Process /\ d.phase = "refused" /\ d.session = NoHandle /\ d.turn = "none"
        /\ ~d.register
    <2>1. d \in Process
      BY ProcType DEF OpenModes
    <2>2. d.phase = "refused" /\ d.session = NoHandle /\ d.turn = "none"
      BY DEF Proc
    <2>3. ~d.register
      BY DEF Proc
    <2> QED BY <2>1, <2>2, <2>3
  <1>2. procs' = [procs EXCEPT ![p] = d]
    BY DEF Refused
  <1> HIDE DEF d
  <1>3. ProcOK(p, d, overran') /\ ~Writer(d) /\ \A lg : Abreast(d, lg)
    BY <1>1 DEF ProcOK, Writer, Abreast, Alive, Opening, Working
  <1>4. Moves(p, d)
    BY <1>2, <1>3 DEF Moves
  <1>5. procs[p].turn = "none"
    BY DEF Inv, ProcsOK, ProcOK, Process, Working, Opening
  <1>6. \A c \in Calls : calls[c].pc = "idle" => c # p /\ d.session # c
    BY <1>1, MintedStays
  <1>7. registry' \in [SessionIds -> Openers \cup {NoHandle}]
    BY DEF Inv, ShapeOK
  <1> QED BY <1>1, <1>4, <1>5, <1>6, <1>7, PlainMove

\* What a turn publishes reaches the receiver of its own call only.
LEMMA PublishKeeps ==
    ASSUME Inv, NEW p \in Procs, NEW ev \in Published, Publish(p, ev), calls' = calls,
           \A c \in Calls : CallOK(calls[c], procs'[c], store'[c], feed[c].queue),
           ev = "TurnCompleted" /\ p \in Calls => Promised(procs'[p], store'[p])
    PROVE  /\ feed' \in [Calls -> Feed]
           /\ CallsOK'
           /\ \A c \in Calls : calls[c].pc = "idle" => feed'[c] = feed[c]
  <1>1. feed \in [Calls -> Feed]
    BY DEF Inv, ShapeOK
  <1>2. \A c \in Calls : Sent(feed[c], ev) \in Feed
    BY <1>1, SentType
  <1>3. /\ feed' \in [Calls -> Feed]
        /\ \A c \in Calls : calls[c].pc = "idle" => feed'[c] = feed[c]
    BY <1>1, <1>2 DEF Publish
  <1>4. ASSUME NEW c \in Calls
        PROVE  CallOK(calls[c], procs'[c], store'[c], feed'[c].queue)
    <2>1. CASE feed'[c] = feed[c]
      BY <2>1
    <2>2. CASE c = p /\ feed'[c] = Sent(feed[c], ev)
      <3> DEFINE q == feed'[c].queue
      <3>1. \A i \in DOMAIN q : q[i] = ev \/ \E j \in DOMAIN feed[c].queue : q[i] = feed[c].queue[j]
        BY <1>1, <2>2, SentType
      <3>2. \A j \in DOMAIN feed[c].queue : feed[c].queue[j] = "TurnCompleted" =>
                                                 Promised(procs'[c], store'[c])
        BY DEF CallOK
      <3> HIDE DEF q
      <3>3. \A i \in DOMAIN q : q[i] = "TurnCompleted" => Promised(procs'[c], store'[c])
        BY <2>2, <3>1, <3>2
      <3>4. CallOK(calls[c], procs'[c], store'[c], q)
        BY <3>3 DEF CallOK
      <3> QED BY <3>4 DEF q
    <2>3. feed'[c] = feed[c] \/ (c = p /\ feed'[c] = Sent(feed[c], ev))
      BY DEF Publish
    <2> QED BY <2>1, <2>2, <2>3
  <1>5. CallsOK'
    BY <1>4 DEF CallsOK
  <1> QED BY <1>3, <1>5

-----------------------------------------------------------------------------
(* The steps of Runtime that no call hears of *)

\* A flag in the mailbox changes nothing the invariant reads.
LEMMA FlagStep ==
    ASSUME Inv, NEW p \in Procs, NEW d, procs' = [procs EXCEPT ![p] = d],
           d = [procs[p] EXCEPT !.inbox = TRUE] \/ d = [procs[p] EXCEPT !.stop = TRUE],
           registry' \in [SessionIds -> Openers \cup {NoHandle}],
           UNCHANGED <<store, raced, overran>>
    PROVE  /\ Moves(p, d)
           /\ d.phase = procs[p].phase /\ d.turn = procs[p].turn /\ d.session = procs[p].session
           /\ UNCHANGED subagentVars /\ (p \in Openers \/ procs[p].phase # "idle") => Inv'
  <1>1. procs[p] \in Process /\ ProcOK(p, procs[p], overran)
    BY DEF Inv, ShapeOK, ProcsOK
  <1>2. /\ d.phase = procs[p].phase /\ d.session = procs[p].session /\ d.turn = procs[p].turn
        /\ d.next = procs[p].next /\ d.latest = procs[p].latest
    BY <1>1 DEF Process
  <1>3. d.register = procs[p].register
    BY <1>1 DEF Process
  <1>4. d \in Process
    BY <1>1 DEF Process
  <1>5. ProcOK(p, d, overran')
    BY <1>1, <1>2, <1>3, <1>4 DEF ProcOK
  <1>6. Writer(d) <=> Writer(procs[p])
    BY <1>2 DEF Writer
  <1>7. d.session \in SessionIds \ (raced' \cup overran') => Abreast(d, store'[d.session])
    BY <1>2 DEF Inv, LogsOK, Abreast
  <1>8. Silent
    BY DEF Silent
  <1>9. Moves(p, d)
    BY <1>2, <1>5, <1>6, <1>7, StayMoves
  <1>10. ASSUME UNCHANGED subagentVars, p \in Openers \/ procs[p].phase # "idle"
         PROVE  Inv'
    <2> DEFINE e == [kind |-> "none"]
    <2>1. e.kind # "Message"
      OBVIOUS
    <2> HIDE DEF e
    <2> QED BY <1>2, <1>8, <1>9, <1>10, <2>1, StayStep
  <1> QED BY <1>2, <1>9, <1>10

\* A Trigger from a client.
LEMMA SubmitStep ==
    ASSUME Inv, NEW p \in Openers, Submit(p), UNCHANGED subagentVars
    PROVE  Inv'
  <1>1. p \in Procs
    BY DEF Procs
  <1>2. procs' = [procs EXCEPT ![p] = [procs[p] EXCEPT !.inbox = TRUE]]
    BY DEF Submit
  <1>3. registry' \in [SessionIds -> Openers \cup {NoHandle}] /\ UNCHANGED <<store, raced, overran>>
    BY DEF Submit, Inv, ShapeOK
  <1> QED BY <1>1, <1>2, <1>3, FlagStep

\* A shutdown on a handle that was kept.
LEMMA ShutdownHandleStep ==
    ASSUME Inv, NEW k \in Closers, NEW p \in Openers, ShutdownHandle(k, p), UNCHANGED subagentVars
    PROVE  Inv'
  <1>1. p \in Procs
    BY DEF Procs
  <1>2. procs' = [procs EXCEPT ![p] = [procs[p] EXCEPT !.stop = TRUE]]
    BY DEF ShutdownHandle
  <1>3. registry' \in [SessionIds -> Openers \cup {NoHandle}] /\ UNCHANGED <<store, raced, overran>>
    BY DEF ShutdownHandle, Inv, ShapeOK
  <1> QED BY <1>1, <1>2, <1>3, FlagStep

\* A step that leaves logs, processes and calls alone.
LEMMA IdleStep ==
    ASSUME Inv, registry' \in [SessionIds -> Openers \cup {NoHandle}],
           UNCHANGED <<store, procs, raced, overran>>, UNCHANGED subagentVars
    PROVE  Inv'
  <1>1. /\ store' = store /\ procs' = procs /\ raced' = raced /\ overran' = overran
        /\ calls' = calls /\ feed' = feed
    BY DEF subagentVars
  <1>2. ShapeOK'
    BY <1>1 DEF Inv, ShapeOK
  <1>3. ProcsOK' /\ Unminted' /\ Unique'
    BY <1>1 DEF Inv, ProcsOK, Unminted, Unique
  <1>4. LogsOK' /\ CallsOK'
    BY <1>1 DEF Inv, LogsOK, CallsOK
  <1> QED BY <1>2, <1>3, <1>4 DEF Inv

\* close_session: the slot is emptied, the registered actor told.
LEMMA CloseStep ==
    ASSUME Inv, NEW k \in Closers, NEW s \in Nameable, Close(k, s), UNCHANGED subagentVars
    PROVE  Inv'
  <1>0. s \in SessionIds /\ registry \in [SessionIds -> Openers \cup {NoHandle}]
    BY IdsAssumption DEF Nameable, SessionIds, Inv, ShapeOK
  <1>1. CASE registry[s] = NoHandle
    <2>1. registry' \in [SessionIds -> Openers \cup {NoHandle}] /\ UNCHANGED <<store, procs, raced, overran>>
      BY <1>0, <1>1 DEF Close
    <2> QED BY <2>1, IdleStep
  <1>2. CASE registry[s] # NoHandle
    <2> DEFINE p == registry[s]
    <2>1. p \in Openers /\ p \in Procs
      BY <1>0, <1>2 DEF Procs
    <2>2. /\ procs' = [procs EXCEPT ![p] = [procs[p] EXCEPT !.stop = TRUE]]
          /\ registry' = [registry EXCEPT ![s] = NoHandle]
          /\ UNCHANGED <<store, raced, overran>>
      BY <1>2 DEF Close
    <2> HIDE DEF p
    <2>3. registry' \in [SessionIds -> Openers \cup {NoHandle}]
      BY <1>0, <2>2
    <2> QED BY <2>1, <2>2, <2>3, FlagStep
  <1> QED BY <1>1, <1>2

\* A process that writes nothing moves on within its session.
LEMMA QuietStep ==
    ASSUME Inv, NEW p \in Procs, NEW d, procs' = [procs EXCEPT ![p] = d],
           procs[p].phase \in Alive, Writer(procs[p]), d \in Process,
           d.session = procs[p].session, d.register = procs[p].register, d.turn = procs[p].turn,
           d.phase \in Alive \cup {"gone"}, d.turn # "none" => d.phase \in {"up", "draining", "gone"},
           d.phase = "gone" /\ d.turn \in Working => d.session \in overran',
           d.session \in SessionIds \ (raced' \cup overran') => Abreast(d, store[d.session]),
           overran \subseteq overran', UNCHANGED <<store, registry, raced>>, UNCHANGED subagentVars
    PROVE  Inv'
  <1>1. ProcOK(p, procs[p], overran)
    BY DEF Inv, ProcsOK
  <1>2. procs[p].phase \notin {"idle", "refused", "gone"}
    BY DEF Alive, Opening
  <1>3. ProcOK(p, d, overran')
    <2>1. d.session \in SessionIds /\ (p \in Calls => d.session = p)
      BY <1>1 DEF ProcOK
    <2>2. p \in Calls => ~d.register
      BY <1>1 DEF ProcOK
    <2>3. d.phase \notin {"idle", "refused"}
      BY DEF Alive, Opening
    <2> QED BY <2>1, <2>2, <2>3 DEF ProcOK
  <1>4. d.session \in SessionIds \ (raced' \cup overran') => Abreast(d, store'[d.session])
    OBVIOUS
  <1>5. Moves(p, d)
    BY <1>3, <1>4, StayMoves
  <1>6. Silent
    BY DEF Silent
  <1>7. registry' \in [SessionIds -> Openers \cup {NoHandle}]
    BY DEF Inv, ShapeOK
  <1> DEFINE e == [kind |-> "none"]
  <1>8. e.kind # "Message"
    OBVIOUS
  <1> HIDE DEF e
  <1> QED BY <1>2, <1>5, <1>6, <1>7, <1>8, StayStep

\* The actor's exit, in its steps.
LEMMA ExitKeeps ==
    ASSUME Inv, NEW p \in Procs, ExitStep(p)
    PROVE  Inv'
  <1>0. /\ procs \in [Procs -> Process] /\ procs[p] \in Process
        /\ ProcOK(p, procs[p], overran) /\ UNCHANGED subagentVars
        /\ procs[p].session \in SessionIds \ (raced \cup overran) =>
               Abreast(procs[p], store[procs[p].session])
    BY DEF Inv, ShapeOK, ProcsOK, LogsOK, ExitStep
  <1>1. ASSUME NEW ph \in {"draining", "gone"}, NEW d, d = [procs[p] EXCEPT !.phase = ph]
        PROVE  /\ d \in Process /\ d.phase = ph /\ d.session = procs[p].session
               /\ d.turn = procs[p].turn /\ d.register = procs[p].register
               /\ d.next = procs[p].next
    <2>1. d \in Process
      BY <1>0, <1>1 DEF Process, Alive
    <2>2. d.phase = ph /\ d.session = procs[p].session /\ d.turn = procs[p].turn /\ d.next = procs[p].next
      BY <1>0, <1>1 DEF Process
    <2>3. d.register = procs[p].register
      BY <1>0, <1>1 DEF Process
    <2> QED BY <2>1, <2>2, <2>3
  <1>2. CASE BeginDrain(p)
    <2> DEFINE d == [procs[p] EXCEPT !.phase = "draining"]
    <2>1. /\ procs' = [procs EXCEPT ![p] = d] /\ procs[p].phase = "up"
          /\ UNCHANGED <<store, registry, raced>> /\ overran' = overran /\ raced' = raced
      BY <1>2 DEF BeginDrain
    <2>2. /\ d \in Process /\ d.phase = "draining" /\ d.session = procs[p].session
          /\ d.turn = procs[p].turn /\ d.register = procs[p].register
          /\ d.next = procs[p].next
      BY <1>1
    <2> HIDE DEF d
    <2>3. d.session \in SessionIds \ (raced' \cup overran') => Abreast(d, store[d.session])
      BY <1>0, <2>1, <2>2 DEF Abreast
    <2>4. procs[p].phase \in Alive /\ Writer(procs[p]) /\ d.phase \in Alive \cup {"gone"}
      BY <2>1, <2>2 DEF Alive, Writer
    <2> QED BY <1>0, <2>1, <2>2, <2>3, <2>4, QuietStep
  <1>3. ASSUME procs[p].phase = "draining", procs' = [procs EXCEPT ![p].phase = "gone"],
               procs[p].turn \in Working => procs[p].session \in overran',
               overran \subseteq overran', UNCHANGED <<store, registry, raced>>
        PROVE  Inv'
    <2> DEFINE d == [procs[p] EXCEPT !.phase = "gone"]
    <2>1. procs' = [procs EXCEPT ![p] = d]
      BY <1>3
    <2>2. /\ d \in Process /\ d.phase = "gone" /\ d.session = procs[p].session
          /\ d.turn = procs[p].turn /\ d.register = procs[p].register
      BY <1>1
    <2> HIDE DEF d
    <2>3. d.session \in SessionIds \ (raced' \cup overran') => Abreast(d, store[d.session])
      BY <1>3, <2>2 DEF Abreast
    <2>4. procs[p].phase \in Alive /\ Writer(procs[p]) /\ d.phase \in Alive \cup {"gone"}
      BY <1>3, <2>2 DEF Alive, Writer
    <2> QED BY <1>0, <1>3, <2>1, <2>2, <2>3, <2>4, QuietStep
  <1>4. CASE ExitDrained(p)
    BY <1>3, <1>4 DEF ExitDrained
  <1>5. CASE ExitAtDeadline(p)
    BY <1>3, <1>5 DEF ExitAtDeadline
  <1> QED BY <1>2, <1>4, <1>5 DEF ExitStep

\* What a process about to open a session is.
LEMMA EnteringProc ==
    ASSUME NEW p \in Procs, NEW s \in SessionIds, NEW mode \in OpenModes, NEW register \in BOOLEAN,
           NEW depth \in Nat, NEW over,
           p \in Calls => s = p /\ ~register
    PROVE  /\ ProcOK(p, Proc("measuring", s, mode, register, depth), over)
           /\ Writer(Proc("measuring", s, mode, register, depth))
           /\ \A lg : Abreast(Proc("measuring", s, mode, register, depth), lg)
           /\ Proc("measuring", s, mode, register, depth).session = s
           /\ Proc("measuring", s, mode, register, depth).phase = "measuring"
  <1> DEFINE d == Proc("measuring", s, mode, register, depth)
  <1>1. d \in Process
    BY ProcType DEF Alive, Opening
  <1>2. d.phase = "measuring" /\ d.session = s /\ d.turn = "none"
    BY DEF Proc
  <1>3. d.register = register
    BY DEF Proc
  <1> HIDE DEF d
  <1>4. ProcOK(p, d, over)
    BY <1>1, <1>2, <1>3 DEF ProcOK
  <1>5. Writer(d) /\ \A lg : Abreast(d, lg)
    BY <1>2 DEF Writer, Abreast, Alive, Opening, Working
  <1> QED BY <1>2, <1>4, <1>5 DEF d

\* open_inner: whoever enters while another process of the session lives is noted.
LEMMA OpenKeeps ==
    ASSUME Inv, NEW o \in Openers, NEW s \in Nameable, NEW mode \in OpenModes, Open(o, s, mode),
           UNCHANGED subagentVars
    PROVE  Inv'
  <1>0. /\ o \in Procs /\ s \in SessionIds /\ o \notin Calls
        /\ s \in Calls => calls[s].pc # "idle"
        /\ ProcOK(o, procs[o], overran)
    BY IdsAssumption DEF Procs, SessionIds, Nameable, Inv, ProcsOK
  <1> DEFINE e == [kind |-> "none"]
  <1>e. e.kind # "Message"
    OBVIOUS
  <1> HIDE DEF e
  <1>1. CASE registry[s] # NoHandle
    <2>1. Refused(o) /\ procs[o].phase = "idle" /\ Silent /\ UNCHANGED <<registry, raced, overran>>
      BY <1>1 DEF Open, Silent
    <2> QED BY <1>0, <1>e, <2>1, RefusedStep
  <1>2. CASE registry[s] = NoHandle
    <2> DEFINE reg == TRUE
               d == Proc("measuring", s, mode, reg, 0)
    <2>1. /\ procs[o].phase = "idle" /\ procs' = [procs EXCEPT ![o] = d]
          /\ raced' = IF \E q \in Of(s) : procs[q].phase \in Alive THEN raced \cup {s} ELSE raced
          /\ UNCHANGED <<store, registry, overran>>
      BY <1>2 DEF Open
    <2>2. /\ ProcOK(o, d, overran') /\ Writer(d) /\ d.session = s /\ d.phase = "measuring"
          /\ \A lg : Abreast(d, lg)
      <3>1. reg \in BOOLEAN
        OBVIOUS
      <3> HIDE DEF reg
      <3> QED BY <1>0, <3>1, EnteringProc
    <2> HIDE DEF d
    <2>3. ASSUME NEW q \in Procs \ {o}, Writer(procs[q]), procs[q].session = s
          PROVE  s \in raced' \cup overran'
      <3>1. ProcOK(q, procs[q], overran)
        BY DEF Inv, ProcsOK
      <3>2. CASE procs[q].phase \in Alive
        <4>1. q \in Of(s)
          BY <2>3 DEF Of
        <4> QED BY <2>1, <3>2, <4>1
      <3>3. CASE procs[q].phase \notin Alive
        <4>1. procs[q].turn \in Working /\ procs[q].phase = "gone"
          BY <2>3, <3>1, <3>3 DEF Writer, ProcOK, Working, Alive
        <4> QED BY <2>1, <2>3, <3>1, <4>1 DEF ProcOK
      <3> QED BY <3>2, <3>3
    <2>4. raced \subseteq raced'
      BY <2>1
    <2>5. Moves(o, d)
      BY <2>1, <2>2, <2>3, <2>4 DEF Moves
    <2>6. \A c \in Calls : calls[c].pc = "idle" => c # o /\ d.session # c
      BY <1>0, <2>2
    <2>7. registry' \in [SessionIds -> Openers \cup {NoHandle}] /\ Silent
      BY <2>1 DEF Inv, ShapeOK, Silent
    <2>8. procs[o].turn = "none"
      BY <1>0, <2>1 DEF ProcOK
    <2> QED BY <1>0, <1>e, <2>5, <2>6, <2>7, <2>8, PlainMove
  <1> QED BY <1>1, <1>2

\* latest_seq: the number of the last event is one less than the length of the log.
LEMMA MeasureKeeps ==
    ASSUME Inv, NEW p \in Procs, Measure(p), UNCHANGED subagentVars
    PROVE  Inv'
  <1>0. /\ procs \in [Procs -> Process] /\ procs[p] \in Process
        /\ ProcOK(p, procs[p], overran) /\ procs[p].phase = "measuring"
        /\ store \in [SessionIds -> Seq(LogEntry)]
        /\ procs[p].session \in SessionIds
        /\ UNCHANGED <<store, registry, raced, overran>>
    BY DEF Inv, ShapeOK, ProcsOK, Measure, ProcOK, Alive, Opening
  <1> DEFINE e == [kind |-> "none"]
  <1>e. e.kind # "Message"
    OBVIOUS
  <1> HIDE DEF e
  <1>1. CASE Refused(p)
    <2>1. Silent /\ procs[p].phase \in Opening
      BY <1>0 DEF Silent, Opening
    <2> QED BY <1>0, <1>1, <1>e, <2>1, RefusedStep
  <1>2. CASE ~Refused(p)
    <2> DEFINE lg == store[procs[p].session]
               v == IF lg = <<>> THEN -1 ELSE lg[Len(lg)].seq
               d == [procs[p] EXCEPT !.phase = "collecting", !.latest = v]
    <2>1. procs' = [procs EXCEPT ![p] = d]
      BY <1>0, <1>2 DEF Measure
    <2>2. lg \in Seq(LogEntry)
      BY <1>0
    <2>3. v \in Int
      <3>1. CASE lg # <<>>
        <4>1. Len(lg) \in 1 .. Len(lg)
          BY <2>2, <3>1
        <4>2. lg[Len(lg)] \in LogEntry
          BY <2>2, <4>1
        <4> QED BY <3>1, <4>2 DEF LogEntry
      <3>2. CASE lg = <<>>
        BY <3>2
      <3> QED BY <3>1, <3>2
    <2>4. procs[p].session \notin raced \cup overran => v = Len(lg) - 1
      <3>1. CASE lg = <<>>
        BY <3>1
      <3>2. CASE lg # <<>>
        <4>1. Len(lg) \in DOMAIN lg
          BY <2>2, <3>2
        <4>2. procs[p].session \notin raced \cup overran => Numbered(lg)
          BY <1>0 DEF Inv, LogsOK
        <4> QED BY <3>2, <4>1, <4>2 DEF Numbered
      <3> QED BY <3>1, <3>2
    <2> HIDE DEF v
    <2>5. d \in Process
      BY <1>0, <2>3 DEF Process, Alive, Opening
    <2>6. /\ d.phase = "collecting" /\ d.session = procs[p].session /\ d.turn = procs[p].turn
          /\ d.latest = v
      BY <1>0 DEF Process
    <2>7. d.register = procs[p].register
      BY <1>0 DEF Process
    <2> HIDE DEF d
    <2>8. d.turn = "none"
      BY <1>0, <2>6 DEF ProcOK, Process
    <2>9. d.session \in SessionIds \ (raced' \cup overran') => Abreast(d, store[d.session])
      BY <1>0, <2>4, <2>6, <2>8 DEF Abreast, Working
    <2>10. procs[p].phase \in Alive /\ Writer(procs[p]) /\ d.phase \in Alive \cup {"gone"}
      BY <1>0, <2>6 DEF Alive, Opening, Writer
    <2> QED BY <1>0, <2>1, <2>5, <2>6, <2>7, <2>8, <2>9, <2>10, QuietStep
  <1> QED BY <1>1, <1>2

\* replay: the second read finds the log the first one measured.
LEMMA CollectKeeps ==
    ASSUME Inv, NEW p \in Procs, Collect(p), UNCHANGED subagentVars
    PROVE  Inv'
  <1>0. /\ procs \in [Procs -> Process] /\ procs[p] \in Process
        /\ ProcOK(p, procs[p], overran) /\ procs[p].phase = "collecting"
        /\ procs[p].session \in SessionIds \ (raced \cup overran) =>
               Abreast(procs[p], store[procs[p].session])
        /\ UNCHANGED <<store, registry, raced, overran>>
    BY DEF Inv, ShapeOK, ProcsOK, Collect, LogsOK
  <1> DEFINE e == [kind |-> "none"]
  <1>e. e.kind # "Message"
    OBVIOUS
  <1> HIDE DEF e
  <1>1. CASE Refused(p)
    <2>1. Silent /\ procs[p].phase \in Opening
      BY <1>0 DEF Silent, Opening
    <2> QED BY <1>0, <1>1, <1>e, <2>1, RefusedStep
  <1>2. CASE ~Refused(p)
    <2> DEFINE v == Unfinished(store[procs[p].session])
               d == [procs[p] EXCEPT !.phase = "starting", !.cut = v]
    <2>1. procs' = [procs EXCEPT ![p] = d]
      BY <1>0, <1>2 DEF Collect
    <2>2. v \in BOOLEAN
      BY DEF Unfinished
    <2> HIDE DEF v
    <2>5. d \in Process
      BY <1>0, <2>2 DEF Process, Alive, Opening
    <2>6. /\ d.phase = "starting" /\ d.session = procs[p].session /\ d.turn = procs[p].turn
          /\ d.latest = procs[p].latest
      BY <1>0 DEF Process
    <2>7. d.register = procs[p].register
      BY <1>0 DEF Process
    <2> HIDE DEF d
    <2>8. d.turn = "none"
      BY <1>0, <2>6 DEF ProcOK, Process
    <2>9. d.session \in SessionIds \ (raced' \cup overran') => Abreast(d, store[d.session])
      BY <1>0, <2>6, <2>8 DEF Abreast, Working
    <2>10. procs[p].phase \in Alive /\ Writer(procs[p]) /\ d.phase \in Alive \cup {"gone"}
      BY <1>0, <2>6 DEF Alive, Opening, Writer
    <2> QED BY <1>0, <2>1, <2>5, <2>6, <2>7, <2>8, <2>9, <2>10, QuietStep
  <1> QED BY <1>1, <1>2

\* The append of SessionStarted, two awaits after the log was measured: it is the first
\* event if there was none, and the counter continues the log.
LEMMA StartKeeps ==
    ASSUME Inv, NEW p \in Procs, Start(p), UNCHANGED subagentVars
    PROVE  Inv'
  <1> DEFINE s == procs[p].session
             lg == store[s]
             next == procs[p].latest + 1
             e == Written(p, "SessionStarted", next)
             n == IF procs[p].latest = -1 THEN next + 1 ELSE next
             clean == s \notin raced' \cup overran'
  <1>0. /\ procs \in [Procs -> Process] /\ procs[p] \in Process /\ procs[p].latest \in Int
        /\ ProcOK(p, procs[p], overran) /\ procs[p].phase = "starting"
        /\ store \in [SessionIds -> Seq(LogEntry)]
        /\ registry \in [SessionIds -> Openers \cup {NoHandle}]
        /\ raced' = raced /\ overran' = overran
    BY DEF Inv, ShapeOK, ProcsOK, Start, Process
  <1>1. s \in SessionIds /\ lg \in Seq(LogEntry) /\ procs[p].turn = "none" /\ Writer(procs[p])
    BY <1>0 DEF ProcOK, Alive, Opening, Process, Writer
  <1>2. clean => procs[p].latest = Len(lg) - 1
    BY <1>0, <1>1 DEF Inv, LogsOK, Abreast
  <1>3. e \in LogEntry /\ e.seq = next /\ e.kind = "SessionStarted"
    BY <1>0 DEF Written, LogEntry, Kinds, Process
  <1>4. clean => (procs[p].latest = -1 <=> lg = <<>>)
    BY <1>0, <1>1, <1>2
  <1>5. /\ procs[p].latest = -1 => Writes(p, e) /\ store'[s] = Append(lg, e)
        /\ procs[p].latest # -1 => Silent
    <2>1. CASE procs[p].latest = -1
      <3>1. store' = [store EXCEPT ![s] = Append(@, e)]
        BY <2>1 DEF Start
      <3>2. clean => e.seq = Len(lg) /\ (e.kind = "SessionStarted" <=> lg = <<>>)
        BY <1>0, <1>1, <1>2, <1>3, <1>4, <2>1
      <3>3. Writes(p, e)
        BY <1>1, <1>3, <3>1, <3>2 DEF Writes
      <3> QED BY <1>0, <1>1, <2>1, <3>1, <3>3
    <2>2. CASE procs[p].latest # -1
      BY <2>2 DEF Start, Silent
    <2> QED BY <2>1, <2>2
  <1> HIDE DEF e
  <1>6. n \in Int
    BY <1>0
  <1>7. ASSUME clean
        PROVE  n = Len(store'[s]) /\ store'[s] # <<>>
    <2>0. procs[p].latest = Len(lg) - 1 /\ Len(lg) \in Nat
      BY <1>1, <1>2, <1>7
    <2>1. CASE procs[p].latest = -1
      <3>1. Len(Append(lg, e)) = Len(lg) + 1 /\ Append(lg, e) # <<>>
        BY <1>1, <1>3, AppendGrows
      <3>2. n = 1 /\ Len(lg) + 1 = 1
        BY <2>0, <2>1
      <3>3. store'[s] = Append(lg, e)
        BY <1>5, <2>1
      <3> QED BY <3>1, <3>2, <3>3
    <2>2. CASE procs[p].latest # -1
      <3>1. n = Len(lg) /\ lg # <<>>
        BY <1>4, <1>7, <2>0, <2>2
      <3>2. store' = store
        BY <1>5, <2>2 DEF Silent
      <3> QED BY <3>1, <3>2
    <2> QED BY <2>1, <2>2
  <1>8. CASE Refused(p) /\ UNCHANGED registry
    <2>1. procs[p].phase \in Opening /\ e.kind # "Message"
      BY <1>0, <1>3 DEF Opening
    <2> QED BY <1>0, <1>5, <1>8, <2>1, RefusedStep
  <1>9. CASE ~(Refused(p) /\ UNCHANGED registry)
    <2> DEFINE no == FALSE
    <2>1. PICK turn \in {"running", "none"} :
             procs' = [procs EXCEPT ![p] =
                          [procs[p] EXCEPT !.phase = "up", !.turn = turn, !.mode = "New",
                                           !.latest = -1, !.cut = no, !.next = n]]
      BY <1>9 DEF Start
    <2>2. registry' = [registry EXCEPT ![s] = IF procs[p].register THEN p ELSE @]
      BY <1>9 DEF Start
    <2> DEFINE d == [procs[p] EXCEPT !.phase = "up", !.turn = turn, !.mode = "New",
                                     !.latest = -1, !.cut = no, !.next = n]
    <2>4. no \in BOOLEAN
      OBVIOUS
    <2> HIDE DEF no, n
    <2>3. procs' = [procs EXCEPT ![p] = d]
      BY <2>1
    <2>5. d \in Process
      <3> DEFINE d1 == [procs[p] EXCEPT !.phase = "up", !.turn = turn, !.mode = "New"]
      <3>1. d1 \in Process
        BY <1>0 DEF Process, Alive, OpenModes, Working
      <3> DEFINE d2 == [d1 EXCEPT !.latest = -1]
      <3>2. d = [d2 EXCEPT !.cut = no, !.next = n]
        OBVIOUS
      <3> HIDE DEF d, d1
      <3>3. d2 \in Process
        BY <3>1 DEF Process
      <3> HIDE DEF d2
      <3> QED BY <1>6, <2>4, <3>2, <3>3 DEF Process
    <2>6. d.phase = "up" /\ d.session = s /\ d.turn = turn /\ d.next = n
      BY <1>0 DEF Process
    <2>7. d.register = procs[p].register
      BY <1>0 DEF Process
    <2> HIDE DEF d
    <2>8. ProcOK(p, d, overran')
      BY <1>0, <1>1, <2>5, <2>6, <2>7 DEF ProcOK, Alive, Opening
    <2>9. d.session \in SessionIds \ (raced' \cup overran') => Abreast(d, store'[d.session])
      BY <1>7, <2>6 DEF Abreast
    <2>10. Moves(p, d)
      BY <1>0, <1>1, <2>3, <2>6, <2>8, <2>9, StayMoves
    <2>11. registry' \in [SessionIds -> Openers \cup {NoHandle}]
      <3>1. procs[p].register => p \in Openers
        BY <1>0 DEF ProcOK, Procs
      <3> QED BY <1>0, <1>1, <2>2, <3>1
    <2> QED BY <1>0, <1>1, <1>3, <1>5, <2>6, <2>10, <2>11, StayStep
  <1> QED BY <1>8, <1>9

-----------------------------------------------------------------------------
(* The turns *)

\* A turn records an event at the counter of its recorder; it publishes it, unless
\* that is done.
LEMMA TurnWrites ==
    ASSUME Inv, NEW p \in Procs, NEW d, procs' = [procs EXCEPT ![p] = d],
           NEW kind \in Kinds \ {"SessionStarted"}, Record(p, kind),
           procs[p].phase = "up" \/ procs[p].turn \in Working, procs[p].turn # "ended",
           d \in Process, d.phase = procs[p].phase, d.session = procs[p].session,
           d.register = procs[p].register, d.next = procs[p].next + 1, d.turn \in {"running", "ended"},
           kind = "Message" => p \in Calls /\ procs[p].turn = "running",
           procs[p].turn = "TurnCompleted" => d.turn = "ended" /\ kind = "TurnCompleted",
           NEW ev \in Published \ {"TurnCompleted"}, Publish(p, ev) \/ feed' = feed,
           UNCHANGED <<registry, raced, overran, calls>>
    PROVE  Inv'
  <1> DEFINE s == procs[p].session
             lg == store[s]
             e == Written(p, kind, procs[p].next)
  <1>0. /\ procs \in [Procs -> Process] /\ procs[p] \in Process /\ procs[p].next \in Int
        /\ ProcOK(p, procs[p], overran) /\ store \in [SessionIds -> Seq(LogEntry)]
        /\ raced' = raced /\ overran' = overran /\ calls' = calls /\ registry' = registry
    BY DEF Inv, ShapeOK, ProcsOK, Process
  <1>1. /\ Writer(procs[p]) /\ procs[p].phase \in {"up", "draining", "gone"} /\ s \in SessionIds
        /\ p \in Calls => s = p
    BY <1>0 DEF ProcOK, Alive, Writer, Working
  <1>2. lg \in Seq(LogEntry)
    BY <1>0, <1>1
  <1>3. e \in LogEntry /\ e.seq = procs[p].next /\ e.kind = kind
    BY <1>0 DEF Written, LogEntry, Process
  <1>4. store' = [store EXCEPT ![s] = Append(@, e)] /\ store'[s] = Append(lg, e)
    BY <1>0, <1>1 DEF Record
  <1>5. s \notin raced' \cup overran' => procs[p].next = Len(lg) /\ lg # <<>>
    BY <1>0, <1>1 DEF Inv, LogsOK, Abreast
  <1>6. Writes(p, e)
    BY <1>1, <1>3, <1>4, <1>5 DEF Writes
  <1>7. Len(store'[s]) = Len(lg) + 1 /\ store'[s] # <<>>
    BY <1>2, <1>3, <1>4, AppendGrows
  <1> HIDE DEF e
  <1>8. ProcOK(p, d, overran')
    BY <1>0, <1>1 DEF ProcOK, Alive, Opening
  <1>9. d.session \in SessionIds \ (raced' \cup overran') => Abreast(d, store'[d.session])
    <2> SUFFICES ASSUME s \notin raced' \cup overran'
                 PROVE  Abreast(d, store'[s])
      OBVIOUS
    <2>1. d.next = Len(store'[s])
      BY <1>5, <1>7
    <2> QED BY <1>1, <1>7, <2>1 DEF Abreast
  <1>10. Moves(p, d)
    BY <1>0, <1>1, <1>8, <1>9, StayMoves
  <1>11. /\ store' \in [SessionIds -> Seq(LogEntry)] /\ procs' \in [Procs -> Process]
         /\ ProcsOK' /\ Unique' /\ LogsOK'
    BY <1>6, <1>10, MoveKeeps
  <1>12. \A c \in Calls : CallOK(calls[c], procs'[c], store'[c], feed[c].queue)
    BY <1>3, <1>6, <1>10, MoveKeepsCalls
  <1>14. /\ feed' \in [Calls -> Feed] /\ CallsOK'
         /\ \A c \in Calls : calls[c].pc = "idle" => feed'[c] = feed[c]
    <2>1. CASE Publish(p, ev)
      BY <1>0, <1>12, <2>1, PublishKeeps
    <2>2. CASE feed' = feed
      BY <1>0, <1>12, <2>2 DEF CallsOK, Inv, ShapeOK
    <2> QED BY <2>1, <2>2
  <1>15. \A c \in Calls : calls[c].pc = "idle" => c # p /\ d.session # c
    BY <1>1, MintedStays
  <1>16. Unminted'
    <2>1. \A c \in Calls : calls'[c].pc = "idle" =>
             calls'[c] = calls[c] /\ feed'[c] = feed[c] /\ c # p /\ d.session # c
      BY <1>0, <1>14, <1>15
    <2> QED BY <1>10, <2>1, MoveKeepsUnminted
  <1>17. ShapeOK'
    BY <1>0, <1>11, <1>14 DEF Inv, ShapeOK
  <1> QED BY <1>11, <1>14, <1>16, <1>17 DEF Inv

\* The end of a turn is told before it is written: what a call may rely on then is that
\* the turn says no more.
LEMMA AnnounceKeeps ==
    ASSUME Inv, NEW p \in Procs, NEW kind \in Endings(p), Announce(p, kind), Publish(p, kind),
           calls' = calls
    PROVE  Inv'
  <1> DEFINE d == [procs[p] EXCEPT !.turn = kind]
  <1>0. /\ procs \in [Procs -> Process] /\ procs[p] \in Process /\ ProcOK(p, procs[p], overran)
        /\ procs' = [procs EXCEPT ![p] = d] /\ procs[p].turn = "running"
        /\ kind \in Working /\ kind \in Published /\ "running" \in Working
        /\ store' = store /\ registry' = registry /\ raced' = raced /\ overran' = overran
    BY DEF Inv, ShapeOK, ProcsOK, Announce, Endings, Working, Published
  <1>1. d \in Process /\ d.turn = kind
    BY <1>0 DEF Process
  <1>2. d.phase = procs[p].phase /\ d.session = procs[p].session /\ d.next = procs[p].next
    BY <1>0 DEF Process
  <1>3. d.latest = procs[p].latest /\ d.register = procs[p].register
    BY <1>0 DEF Process
  <1>4. procs'[p] = d
    BY <1>0
  <1> HIDE DEF d
  <1>5. ProcOK(p, d, overran')
    BY <1>0, <1>1, <1>2, <1>3 DEF ProcOK
  <1>6. Writer(procs[p])
    BY <1>0 DEF Writer
  <1>7. d.session \in SessionIds \ (raced' \cup overran') => Abreast(d, store'[d.session])
    BY <1>0, <1>1, <1>2, <1>3 DEF Inv, LogsOK, Abreast
  <1>8. Moves(p, d) /\ Silent
    BY <1>0, <1>2, <1>5, <1>6, <1>7, StayMoves DEF Silent
  <1> DEFINE e == [kind |-> "none"]
  <1>9. e.kind # "Message"
    OBVIOUS
  <1> HIDE DEF e
  <1>10. /\ store' \in [SessionIds -> Seq(LogEntry)] /\ procs' \in [Procs -> Process]
         /\ ProcsOK' /\ Unique' /\ LogsOK'
    BY <1>8, MoveKeeps
  <1>11. /\ procs[p].phase \in {"up", "draining", "gone"}
         /\ p \in Openers \/ procs[p].phase # "idle"
    BY <1>0 DEF ProcOK
  <1>12. \A c \in Calls : CallOK(calls[c], procs'[c], store'[c], feed[c].queue)
    BY <1>0, <1>2, <1>8, <1>9, MoveKeepsCalls
  <1>13. kind = "TurnCompleted" => Promised(procs'[p], store'[p])
    BY <1>1, <1>4 DEF Promised
  <1>14. /\ feed' \in [Calls -> Feed] /\ CallsOK'
         /\ \A c \in Calls : calls[c].pc = "idle" => feed'[c] = feed[c]
    BY <1>0, <1>12, <1>13, PublishKeeps
  <1>15. \A c \in Calls : calls[c].pc = "idle" => c # p /\ d.session # c
    BY <1>2, <1>11, MintedStays
  <1>16. Unminted'
    <2>1. \A c \in Calls : calls'[c].pc = "idle" =>
             calls'[c] = calls[c] /\ feed'[c] = feed[c] /\ c # p /\ d.session # c
      BY <1>14, <1>15
    <2> QED BY <1>8, <2>1, MoveKeepsUnminted
  <1>17. ShapeOK'
    BY <1>0, <1>10, <1>14 DEF Inv, ShapeOK
  <1> QED BY <1>10, <1>14, <1>16, <1>17 DEF Inv

\* The turn's first event, what it says, and its end.
LEMMA TurnKeeps ==
    ASSUME Inv, NEW p \in Procs, TurnStep(p)
    PROVE  Inv'
  <1>0. /\ procs[p] \in Process /\ procs[p].next \in Int /\ ProcOK(p, procs[p], overran)
    BY DEF Inv, ShapeOK, Process, ProcsOK
  <1>1. CASE StartTurn(p) /\ Publish(p, "TurnStarted") /\ UNCHANGED calls
    <2> DEFINE no == FALSE
               d == [procs[p] EXCEPT !.inbox = no, !.turn = "running", !.next = procs[p].next + 1]
    <2>1. /\ procs' = [procs EXCEPT ![p] = d] /\ Record(p, "TurnStarted")
          /\ procs[p].phase = "up" /\ procs[p].turn = "none"
          /\ UNCHANGED <<registry, raced, overran, calls>>
      BY <1>1 DEF StartTurn
    <2>2. no \in BOOLEAN
      OBVIOUS
    <2> HIDE DEF no
    <2>3. d \in Process
      <3> DEFINE d1 == [procs[p] EXCEPT !.inbox = no]
                 d2 == [d1 EXCEPT !.turn = "running"]
      <3>1. d1 \in Process
        BY <1>0, <2>2 DEF Process
      <3> HIDE DEF d1
      <3>2. d2 \in Process
        BY <3>1 DEF Process, Working
      <3>3. d = [d2 EXCEPT !.next = procs[p].next + 1]
        BY DEF d1
      <3> HIDE DEF d, d2
      <3> QED BY <1>0, <3>2, <3>3 DEF Process
    <2>4. /\ d.phase = procs[p].phase /\ d.session = procs[p].session
          /\ d.next = procs[p].next + 1 /\ d.turn = "running"
      BY <1>0 DEF Process
    <2>5. d.register = procs[p].register
      BY <1>0 DEF Process
    <2> HIDE DEF d
    <2>6. "TurnStarted" \in Kinds \ {"SessionStarted"} /\ "TurnStarted" \in Published \ {"TurnCompleted"}
      BY DEF Kinds, Published
    <2> QED BY <1>1, <2>1, <2>3, <2>4, <2>5, <2>6, TurnWrites
  <1>2. CASE Say(p) /\ Publish(p, "TextDelta") /\ UNCHANGED calls
    <2> DEFINE d == [procs[p] EXCEPT !.next = procs[p].next + 1]
    <2>1. /\ procs' = [procs EXCEPT ![p] = d] /\ Record(p, "Message")
          /\ procs[p].turn = "running" /\ p \in Calls
          /\ UNCHANGED <<registry, raced, overran, calls>>
      BY <1>2 DEF Say
    <2>3. d \in Process
      BY <1>0 DEF Process
    <2>4. /\ d.phase = procs[p].phase /\ d.session = procs[p].session
          /\ d.next = procs[p].next + 1 /\ d.turn = procs[p].turn
      BY <1>0 DEF Process
    <2>5. d.register = procs[p].register
      BY <1>0 DEF Process
    <2> HIDE DEF d
    <2>6. /\ "Message" \in Kinds \ {"SessionStarted"} /\ "TextDelta" \in Published \ {"TurnCompleted"}
          /\ "running" \in Working
      BY DEF Kinds, Published, Working
    <2> QED BY <1>2, <2>1, <2>3, <2>4, <2>5, <2>6, TurnWrites
  <1>3. CASE Finish(p) /\ UNCHANGED subagentVars
    <2> DEFINE kind == procs[p].turn
               d == [procs[p] EXCEPT !.turn = "ended", !.next = procs[p].next + 1]
    <2>1. /\ procs' = [procs EXCEPT ![p] = d] /\ Record(p, kind) /\ kind \in Endings(p)
          /\ UNCHANGED <<registry, raced, overran, calls>> /\ feed' = feed
      BY <1>3 DEF Finish, subagentVars
    <2>3. d \in Process
      <3> DEFINE d1 == [procs[p] EXCEPT !.turn = "ended"]
      <3>1. d1 \in Process
        BY <1>0 DEF Process
      <3>2. d = [d1 EXCEPT !.next = procs[p].next + 1]
        OBVIOUS
      <3> HIDE DEF d, d1
      <3> QED BY <1>0, <3>1, <3>2 DEF Process
    <2>4. /\ d.phase = procs[p].phase /\ d.session = procs[p].session
          /\ d.next = procs[p].next + 1 /\ d.turn = "ended"
      BY <1>0 DEF Process
    <2>5. d.register = procs[p].register
      BY <1>0 DEF Process
    <2> HIDE DEF d
    <2>6. /\ kind \in Kinds \ {"SessionStarted"} /\ kind # "Message" /\ kind \in Working
          /\ kind # "ended" /\ "TurnStarted" \in Published \ {"TurnCompleted"}
      BY <2>1 DEF Kinds, Published, Endings, Working
    <2> QED BY <2>1, <2>3, <2>4, <2>5, <2>6, TurnWrites
  <1>4. ASSUME NEW kind \in Endings(p), Announce(p, kind), Publish(p, kind), UNCHANGED calls
        PROVE  Inv'
    BY <1>4, AnnounceKeeps
  <1> QED BY <1>1, <1>2, <1>3, <1>4 DEF TurnStep

-----------------------------------------------------------------------------
(* The delegate calls *)

\* A call moves on by itself: its own record changes, and what it says holds.
LEMMA CallAlone ==
    ASSUME Inv, NEW c \in Calls, NEW k \in DelegateCall, k.pc # "idle",
           calls' = [calls EXCEPT ![c] = k], CallOK(k, procs[c], store[c], feed[c].queue),
           UNCHANGED runtimeVars, UNCHANGED feed
    PROVE  Inv'
  <1>0. /\ store' = store /\ registry' = registry /\ procs' = procs /\ raced' = raced
        /\ overran' = overran /\ feed' = feed
    BY DEF runtimeVars
  <1>1. /\ calls \in [Calls -> DelegateCall] /\ calls'[c] = k
        /\ \A x \in Calls \ {c} : calls'[x] = calls[x]
        /\ calls' \in [Calls -> DelegateCall]
    <2>1. calls \in [Calls -> DelegateCall]
      BY DEF Inv, ShapeOK
    <2> QED BY <2>1
  <1>2. ShapeOK'
    BY <1>0, <1>1 DEF Inv, ShapeOK
  <1>3. ProcsOK' /\ Unique'
    BY <1>0 DEF Inv, ProcsOK, Unique
  <1>4. LogsOK'
    BY <1>0 DEF Inv, LogsOK
  <1>5. Unminted'
    BY <1>0, <1>1 DEF Inv, Unminted
  <1>6. CallsOK'
    BY <1>0, <1>1 DEF Inv, CallsOK
  <1> QED BY <1>2, <1>3, <1>4, <1>5, <1>6 DEF Inv

\* A call sends its child something and moves on; its receiver is kept or dropped.
LEMMA CallSends ==
    ASSUME Inv, NEW c \in Calls, NEW k \in DelegateCall, NEW d,
           calls[c].pc # "idle", k.pc \notin {"idle", "done"},
           calls' = [calls EXCEPT ![c] = k], procs' = [procs EXCEPT ![c] = d],
           d = [procs[c] EXCEPT !.inbox = TRUE] \/ d = [procs[c] EXCEPT !.stop = TRUE],
           feed' = feed \/ feed' = [feed EXCEPT ![c] = NoFeed],
           k.ending = "completed" => Promised(procs[c], store[c]),
           UNCHANGED <<store, registry, raced, overran>>
    PROVE  Inv'
  <1>0. /\ store' = store /\ registry' = registry /\ raced' = raced /\ overran' = overran
        /\ c \in Procs /\ procs \in [Procs -> Process] /\ calls \in [Calls -> DelegateCall]
        /\ feed \in [Calls -> Feed] /\ registry' \in [SessionIds -> Openers \cup {NoHandle}]
    BY DEF Inv, ShapeOK, Procs
  <1>1. /\ calls'[c] = k /\ calls' \in [Calls -> DelegateCall]
        /\ \A x \in Calls \ {c} : calls'[x] = calls[x]
    BY <1>0
  <1>2. /\ feed' \in [Calls -> Feed] /\ (feed'[c] = feed[c] \/ feed'[c] = NoFeed)
        /\ \A x \in Calls \ {c} : feed'[x] = feed[x]
    <2>1. NoFeed \in Feed
      <3>1. <<>> \in Seq(Published)
        OBVIOUS
      <3> QED BY <3>1 DEF NoFeed, Feed
    <2> HIDE DEF NoFeed
    <2> QED BY <1>0, <2>1
  <1>3. /\ Moves(c, d) /\ d.phase = procs[c].phase /\ d.turn = procs[c].turn
        /\ d.session = procs[c].session
    BY <1>0, FlagStep
  <1>4. Silent
    BY <1>0 DEF Silent
  <1>5. /\ store' \in [SessionIds -> Seq(LogEntry)] /\ procs' \in [Procs -> Process]
        /\ ProcsOK' /\ Unique' /\ LogsOK'
    BY <1>0, <1>3, <1>4, MoveKeeps
  <1>6. Unminted'
    <2>1. \A x \in Calls : calls'[x].pc = "idle" =>
             calls'[x] = calls[x] /\ feed'[x] = feed[x] /\ x # c /\ d.session # x
      BY <1>0, <1>1, <1>2, <1>3 DEF Inv, Unminted
    <2> QED BY <1>0, <1>3, <2>1, MoveKeepsUnminted
  <1>7. ShapeOK'
    BY <1>0, <1>1, <1>2, <1>5 DEF Inv, ShapeOK
  <1>8. \A x \in Calls \ {c} : procs'[x] = procs[x]
    BY <1>0 DEF Procs
  <1>9. \A x \in Calls \ {c} : CallOK(calls'[x], procs'[x], store'[x], feed'[x].queue)
    BY <1>0, <1>1, <1>2, <1>8 DEF Inv, CallsOK
  <1>10. CallOK(k, d, store[c], feed'[c].queue)
    <2>1. CallOK(calls[c], procs[c], store[c], feed[c].queue)
      BY DEF Inv, CallsOK
    <2>2. Promised(procs[c], store[c]) => Promised(d, store[c])
      BY <1>3 DEF Promised, Completed
    <2>3. \A i \in DOMAIN feed'[c].queue : feed'[c].queue[i] = "TurnCompleted" =>
                                               Promised(procs[c], store[c])
      <3>1. CASE feed'[c] = feed[c]
        BY <2>1, <3>1 DEF CallOK
      <3>2. CASE feed'[c] = NoFeed
        <4>1. feed'[c].queue = <<>>
          BY <3>2 DEF NoFeed
        <4> QED BY <4>1
      <3> QED BY <1>2, <3>1, <3>2
    <2> QED BY <2>2, <2>3 DEF CallOK
  <1>11. CallsOK'
    <2>1. procs'[c] = d
      BY <1>0
    <2> QED BY <1>0, <1>1, <1>9, <1>10, <2>1 DEF CallsOK
  <1> QED BY <1>5, <1>6, <1>7, <1>11 DEF Inv

\* run_to_completion opens the child under an id that nobody has.
LEMMA DelegateKeeps ==
    ASSUME Inv, NEW p \in Procs, NEW c \in Calls, Delegate(p, c)
    PROVE  Inv'
  <1> DEFINE no == FALSE
             dp == procs[p].depth + 1
             d == Proc("measuring", c, "New", no, dp)
             k == [calls[c] EXCEPT !.pc = "opening", !.parent = p]
  <1>0. /\ c \in Procs /\ c \in SessionIds /\ procs \in [Procs -> Process]
        /\ calls \in [Calls -> DelegateCall] /\ procs[p] \in Process /\ calls[c] \in DelegateCall
        /\ calls[c].pc = "idle" /\ procs[c].phase = "idle" /\ calls[c].ending = "-"
        /\ procs[c].turn = "none"
        /\ \A q \in Procs : procs[q].session # c
    <2>1. calls[c].pc = "idle"
      BY DEF Delegate, Fresh
    <2>2. calls[c] = NoCall /\ procs[c].phase = "idle" /\ \A q \in Procs : procs[q].session # c
      BY <2>1 DEF Inv, Unminted
    <2>3. ProcOK(c, procs[c], overran)
      BY DEF Inv, ProcsOK, Procs
    <2>4. procs[c].turn = "none"
      BY <2>2, <2>3 DEF ProcOK
    <2> QED BY <2>1, <2>2, <2>4 DEF Inv, ShapeOK, Procs, SessionIds, NoCall
  <1>1. /\ procs' = [procs EXCEPT ![c] = d] /\ calls' = [calls EXCEPT ![c] = k]
        /\ store' = store /\ registry' = registry /\ raced' = raced /\ overran' = overran /\ feed' = feed
    BY DEF Delegate
  <1>2. no \in BOOLEAN /\ ~no /\ dp \in Nat
    BY <1>0 DEF Process
  <1> HIDE DEF no, dp
  <1>3. /\ ProcOK(c, d, overran') /\ Writer(d) /\ d.session = c /\ \A lg : Abreast(d, lg)
    BY <1>0, <1>2, EnteringProc DEF OpenModes
  <1> HIDE DEF d
  <1>4. Moves(c, d) /\ Silent
    <2>1. raced \subseteq raced' /\ overran \subseteq overran' /\ Silent
      BY <1>1 DEF Silent
    <2> QED BY <1>0, <1>1, <1>3, <2>1 DEF Moves
  <1>5. /\ store' \in [SessionIds -> Seq(LogEntry)] /\ procs' \in [Procs -> Process]
        /\ ProcsOK' /\ Unique' /\ LogsOK'
    BY <1>0, <1>4, MoveKeeps
  <1>6. k \in DelegateCall /\ k.pc = "opening" /\ k.ending = "-"
    BY <1>0 DEF DelegateCall, Waiting
  <1> HIDE DEF k
  <1>7. calls' \in [Calls -> DelegateCall] /\ calls'[c] = k /\ \A x \in Calls \ {c} : calls'[x] = calls[x]
    BY <1>0, <1>1, <1>6
  <1>8. Unminted'
    <2>1. \A x \in Calls : calls'[x].pc = "idle" =>
             calls'[x] = calls[x] /\ feed'[x] = feed[x] /\ x # c /\ d.session # x
      BY <1>1, <1>3, <1>6, <1>7
    <2> QED BY <1>0, <1>4, <2>1, MoveKeepsUnminted
  <1>9. \A x \in Calls : CallOK(calls[x], procs'[x], store'[x], feed[x].queue)
    <2> DEFINE e == [kind |-> "none"]
    <2>1. e.kind # "Message"
      OBVIOUS
    <2> HIDE DEF e
    <2> QED BY <1>0, <1>4, <2>1, MoveKeepsCalls
  <1>10. CallOK(k, procs'[c], store'[c], feed[c].queue)
    BY <1>6, <1>9 DEF CallOK
  <1>11. CallsOK'
    BY <1>1, <1>7, <1>9, <1>10 DEF CallsOK
  <1>12. ShapeOK'
    BY <1>1, <1>5, <1>7 DEF Inv, ShapeOK
  <1> QED BY <1>5, <1>8, <1>11, <1>12 DEF Inv

\* No child is registered, so nothing that goes over the bridge reaches another call.
LEMMA BridgeIsSilent ==
    ASSUME Inv, NEW c \in Calls, NEW ev
    PROVE  Bridged(c, ev) = feed
  <1>1. \A x \in Calls : registry[x] # x
    BY IdsAssumption DEF Inv, ShapeOK, SessionIds
  <1> QED BY <1>1 DEF Bridged

\* The steps of a call.
LEMMA CallKeeps ==
    ASSUME Inv, NEW c \in Calls, CallStep(c)
    PROVE  Inv'
  <1>0. /\ calls[c] \in DelegateCall /\ calls \in [Calls -> DelegateCall]
        /\ CallOK(calls[c], procs[c], store[c], feed[c].queue)
        /\ feed \in [Calls -> Feed] /\ feed[c] \in Feed /\ feed[c].queue \in Seq(Published)
        /\ store \in [SessionIds -> Seq(LogEntry)] /\ c \in SessionIds
    BY DEF Inv, ShapeOK, CallsOK, Feed, SessionIds
  <1>1. ASSUME OpenFailed(c)
        PROVE  Inv'
    <2> DEFINE k == [calls[c] EXCEPT !.pc = "done", !.outcome = "open_failed"]
    <2>1. /\ calls' = [calls EXCEPT ![c] = k] /\ UNCHANGED runtimeVars /\ UNCHANGED feed
          /\ procs[c].phase = "refused"
      BY <1>1 DEF OpenFailed
    <2>2. k \in DelegateCall /\ k.pc = "done" /\ k.outcome = "open_failed" /\ k.ending = calls[c].ending
      BY <1>0 DEF DelegateCall
    <2> HIDE DEF k
    <2>3. CallOK(k, procs[c], store[c], feed[c].queue)
      BY <1>0, <2>1, <2>2 DEF CallOK
    <2> QED BY <2>1, <2>2, <2>3, CallAlone
  <1>2. ASSUME Drive(c)
        PROVE  Inv'
    <2> DEFINE k == [calls[c] EXCEPT !.pc = "driving"]
    <2>1. /\ calls' = [calls EXCEPT ![c] = k] /\ calls[c].pc # "idle"
          /\ procs' = [procs EXCEPT ![c] = [procs[c] EXCEPT !.inbox = TRUE]]
          /\ UNCHANGED <<store, registry, raced, overran>> /\ feed' = feed
      BY <1>2 DEF Drive
    <2>2. k \in DelegateCall /\ k.pc = "driving" /\ k.ending = calls[c].ending
      BY <1>0 DEF DelegateCall, Waiting
    <2> HIDE DEF k
    <2>3. k.ending = "completed" => Promised(procs[c], store[c])
      BY <1>0, <2>2 DEF CallOK
    <2> QED BY <2>1, <2>2, <2>3, CallSends
  <1>3. ASSUME NEW ending \in {"completed", "failed", "lagged", "timeout"}, TearDown(c, ending, feed),
               calls[c].pc = "driving",
               ending = "completed" => Promised(procs[c], store[c])
        PROVE  Inv'
    <2> DEFINE k == [calls[c] EXCEPT !.pc = "tearing", !.ending = ending]
    <2>1. /\ calls' = [calls EXCEPT ![c] = k] /\ calls[c].pc # "idle"
          /\ procs' = [procs EXCEPT ![c] = [procs[c] EXCEPT !.stop = TRUE]]
          /\ UNCHANGED <<store, registry, raced, overran>> /\ feed' = [feed EXCEPT ![c] = NoFeed]
      BY <1>3 DEF TearDown
    <2>2. k \in DelegateCall /\ k.pc = "tearing" /\ k.ending = ending
      BY <1>0 DEF DelegateCall, Waiting
    <2> HIDE DEF k
    <2> QED BY <1>3, <2>1, <2>2, CallSends
  <1>4. ASSUME Receive(c)
        PROVE  Inv'
    <2> DEFINE ev == Head(feed[c].queue)
               q == feed[c].queue
    <2>1. calls[c].pc = "driving" /\ q # <<>> /\ Bridged(c, ev) = feed
      BY <1>4, BridgeIsSilent DEF Receive
    <2>2. 1 \in DOMAIN q /\ ev = q[1]
      BY <1>0, <2>1
    <2>3. CASE ev = "TurnFailed" /\ TearDown(c, "failed", Bridged(c, ev))
      BY <1>3, <2>1, <2>3
    <2>4. CASE ev = "TurnCompleted" /\ TearDown(c, "completed", Bridged(c, ev))
      <3>1. Promised(procs[c], store[c])
        BY <1>0, <2>2, <2>4 DEF CallOK
      <3> QED BY <1>3, <2>1, <2>4, <3>1
    <2>5. CASE feed' = [Bridged(c, ev) EXCEPT ![c].queue = Tail(@)] /\ UNCHANGED <<calls, runtimeVars>>
      <3> DEFINE f == [feed[c] EXCEPT !.queue = Tail(q)]
                 t == Tail(q)
      <3>1. feed' = [feed EXCEPT ![c] = f]
        BY <2>1, <2>5
      <3>2. /\ t \in Seq(Published)
            /\ \A i \in DOMAIN t : i + 1 \in DOMAIN q /\ t[i] = q[i + 1]
        BY <1>0, <2>1
      <3> HIDE DEF t
      <3>3. f \in Feed /\ f.queue = t
        BY <1>0, <3>2 DEF Feed, t
      <3> HIDE DEF f
      <3>4. /\ feed' \in [Calls -> Feed] /\ feed'[c] = f /\ \A x \in Calls \ {c} : feed'[x] = feed[x]
        BY <1>0, <3>1, <3>3
      <3>5. /\ store' = store /\ registry' = registry /\ procs' = procs /\ raced' = raced
            /\ overran' = overran /\ calls' = calls
        BY <2>5 DEF runtimeVars
      <3>6. CallOK(calls[c], procs[c], store[c], f.queue)
        BY <1>0, <3>2, <3>3 DEF CallOK
      <3>7. CallsOK'
        BY <3>4, <3>5, <3>6 DEF Inv, CallsOK
      <3>8. Unminted'
        BY <2>1, <3>4, <3>5 DEF Inv, Unminted
      <3>9. ShapeOK' /\ ProcsOK' /\ Unique'
        BY <3>4, <3>5 DEF Inv, ShapeOK, ProcsOK, Unique
      <3>10. LogsOK'
        BY <3>5 DEF Inv, LogsOK
      <3> QED BY <3>7, <3>8, <3>9, <3>10 DEF Inv
    <2> QED BY <1>4, <2>3, <2>4, <2>5 DEF Receive
  <1>5. ASSUME ReceiveLagged(c) \/ Timeout(c)
        PROVE  Inv'
    BY <1>3, <1>5 DEF ReceiveLagged, Timeout
  <1>6. ASSUME Answer(c)
        PROVE  Inv'
    <2>1. PICK outcome \in {"timeout", "child_failed", "answer", "open_failed"} :
             calls' = [calls EXCEPT ![c].pc = "done", ![c].outcome = outcome,
                          ![c].text = IF outcome = "answer" THEN Messages(store[c]) ELSE 0]
      BY <1>6 DEF Answer
    <2> DEFINE n == IF outcome = "answer" THEN Messages(store[c]) ELSE 0
               k == [calls[c] EXCEPT !.pc = "done", !.outcome = outcome, !.text = n]
    <2>2. Messages(store[c]) \in Nat
      BY <1>0, MessagesType
    <2>3. n \in Nat /\ (outcome = "answer" => n = Messages(store[c]))
      BY <2>2
    <2>4. calls' = [calls EXCEPT ![c] = k]
      BY <1>0, <2>1 DEF DelegateCall
    <2> HIDE DEF n
    <2>5. k \in DelegateCall /\ k.pc = "done" /\ k.outcome = outcome /\ k.ending = calls[c].ending
          /\ k.text = n
      BY <1>0, <2>3 DEF DelegateCall
    <2> HIDE DEF k
    <2>6. procs[c].phase = "gone" /\ UNCHANGED runtimeVars /\ UNCHANGED feed
      BY <1>6 DEF Answer
    <2>7. CallOK(k, procs[c], store[c], feed[c].queue)
      BY <1>0, <2>3, <2>5, <2>6 DEF CallOK
    <2> QED BY <2>4, <2>5, <2>6, <2>7, CallAlone
  <1> QED BY <1>1, <1>2, <1>4, <1>5, <1>6 DEF CallStep

\* A call that is refused has no child.
LEMMA RefuseKeeps ==
    ASSUME Inv, NEW p \in Procs, NEW c \in Calls, Refuse(p, c)
    PROVE  Inv'
  <1> DEFINE k == [calls[c] EXCEPT !.pc = "done", !.parent = p, !.outcome = "refused"]
  <1>1. /\ calls' = [calls EXCEPT ![c] = k] /\ UNCHANGED runtimeVars /\ UNCHANGED feed
        /\ calls[c].pc = "idle"
    BY DEF Refuse, Fresh
  <1>2. /\ calls[c] \in DelegateCall /\ procs[c].phase = "idle"
        /\ CallOK(calls[c], procs[c], store[c], feed[c].queue)
    BY <1>1 DEF Inv, ShapeOK, Unminted, CallsOK
  <1>3. k \in DelegateCall /\ k.pc = "done" /\ k.outcome = "refused" /\ k.ending = calls[c].ending
    BY <1>2 DEF DelegateCall
  <1> HIDE DEF k
  <1>4. CallOK(k, procs[c], store[c], feed[c].queue)
    BY <1>2, <1>3 DEF CallOK
  <1> QED BY <1>1, <1>3, <1>4, CallAlone

-----------------------------------------------------------------------------
(* The theorems *)

\* Nothing is open, asked or written at first.
LEMMA InvInit == Init => Inv
  <1> SUFFICES ASSUME Init
               PROVE  Inv
    OBVIOUS
  <1>0. /\ store = [s \in SessionIds |-> <<>>] /\ registry = [s \in SessionIds |-> NoHandle]
        /\ procs = [p \in Procs |-> NoProc] /\ raced = {} /\ overran = {}
        /\ calls = [c \in Calls |-> NoCall] /\ feed = [c \in Calls |-> NoFeed]
    BY DEF Init, RuntimeInit
  <1>1. NoProc \in Process
    <2> DEFINE no == FALSE
    <2>1. NoProc = Proc("idle", NoHandle, "New", no, 0) /\ no \in BOOLEAN
      BY DEF NoProc
    <2> HIDE DEF no
    <2> QED BY <2>1, ProcType DEF OpenModes
  <1>2. NoProc.phase = "idle" /\ NoProc.session = NoHandle /\ NoProc.turn = "none"
    BY DEF NoProc, Proc
  <1>3. ~NoProc.register
    BY DEF NoProc, Proc
  <1>4. NoCall \in DelegateCall /\ NoCall.pc = "idle" /\ NoCall.ending = "-"
    BY DEF NoCall, DelegateCall
  <1>5. <<>> \in Seq(Published) /\ <<>> \in Seq(LogEntry)
    OBVIOUS
  <1>6. NoFeed \in Feed /\ NoFeed.queue = <<>>
    BY <1>5 DEF NoFeed, Feed
  <1> HIDE DEF NoProc, NoCall, NoFeed
  <1>7. ShapeOK
    BY <1>0, <1>1, <1>4, <1>5, <1>6 DEF ShapeOK
  <1>8. \A p \in Procs : procs[p] = NoProc
    BY <1>0
  <1>10. ProcsOK
    BY <1>1, <1>2, <1>3, <1>8 DEF ProcsOK, ProcOK, Alive, Opening
  <1>11. Unminted
    BY <1>0, <1>2, <1>8, IdsAssumption DEF Unminted, Procs
  <1>12. Unique /\ \A p \in Procs : ~Writer(procs[p])
    BY <1>2, <1>8 DEF Unique, Writer, Alive, Opening, Working
  <1>13. LogsOK
    <2>1. \A s \in SessionIds : store[s] = <<>>
      BY <1>0
    <2>2. Numbered(<<>>) /\ \A lg : Abreast(NoProc, lg)
      BY <1>2 DEF Numbered, Abreast, Working
    <2> QED BY <1>8, <2>1, <2>2 DEF LogsOK
  <1>14. CallsOK
    <2> SUFFICES ASSUME NEW c \in Calls
                 PROVE  CallOK(calls[c], procs[c], store[c], feed[c].queue)
      BY DEF CallsOK
    <2>1. calls[c] = NoCall /\ feed[c].queue = <<>>
      BY <1>0, <1>6
    <2> QED BY <1>4, <2>1 DEF CallOK
  <1> QED BY <1>7, <1>10, <1>11, <1>12, <1>13, <1>14 DEF Inv

\* Every step keeps it.
LEMMA InvNext == Inv /\ [Next]_vars => Inv'
  <1> SUFFICES ASSUME Inv, [Next]_vars
               PROVE  Inv'
    OBVIOUS
  <1>1. CASE UNCHANGED vars
    <2>1. /\ UNCHANGED <<store, procs, raced, overran>> /\ UNCHANGED subagentVars
          /\ registry' \in [SessionIds -> Openers \cup {NoHandle}]
      BY <1>1 DEF vars, runtimeVars, Inv, ShapeOK
    <2> QED BY <2>1, IdleStep
  <1>2. CASE Client
    <2>1. UNCHANGED subagentVars
      BY <1>2 DEF Client
    <2>2. CASE \E o \in Openers, s \in Nameable, mode \in OpenModes : Open(o, s, mode)
      BY <2>1, <2>2, OpenKeeps
    <2>3. CASE \E k \in Closers, s \in Nameable : Close(k, s)
      BY <2>1, <2>3, CloseStep
    <2>4. CASE \E k \in Closers, o \in Openers : ShutdownHandle(k, o)
      BY <2>1, <2>4, ShutdownHandleStep
    <2>5. CASE \E o \in Openers : Submit(o)
      BY <2>1, <2>5, SubmitStep
    <2> QED BY <1>2, <2>2, <2>3, <2>4, <2>5 DEF Client
  <1>3. ASSUME NEW p \in Procs, OpenStep(p), UNCHANGED subagentVars
        PROVE  Inv'
    BY <1>3, MeasureKeeps, CollectKeeps, StartKeeps DEF OpenStep
  <1>4. ASSUME NEW p \in Procs, TurnStep(p) \/ ExitStep(p)
        PROVE  Inv'
    BY <1>4, TurnKeeps, ExitKeeps
  <1>5. ASSUME NEW p \in Procs, NEW c \in Calls, Refuse(p, c) \/ Delegate(p, c)
        PROVE  Inv'
    BY <1>5, RefuseKeeps, DelegateKeeps
  <1>6. ASSUME NEW c \in Calls, CallStep(c)
        PROVE  Inv'
    BY <1>6, CallKeeps
  <1>7. ASSUME NEW k \in Closers, CloseReturns(k), UNCHANGED subagentVars
        PROVE  Inv'
    <2>1. /\ UNCHANGED <<store, procs, raced, overran>>
          /\ registry' \in [SessionIds -> Openers \cup {NoHandle}]
      BY <1>7 DEF CloseReturns, Inv, ShapeOK
    <2> QED BY <1>7, <2>1, IdleStep
  <1> QED BY <1>1, <1>2, <1>3, <1>4, <1>5, <1>6, <1>7 DEF Next

\* What Runtime and Subagents keep: the shape of their state, one writer per session, logs
\* the recorders agree with, and calls that only their own child answers.
THEOREM SubagentsInvariant == Spec => []Inv
  BY InvInit, InvNext, PTL DEF Spec

\* open_inner checks the registry, awaits three times and only then inserts; close_session
\* and a drain deadline may leave a process behind.  Whatever the number of clients: a
\* session that no client raced and no deadline overran has one process that opens, serves
\* or writes it, and a log numbered from 0 that begins with its only SessionStarted.
THEOREM SubagentsOneWriter == Spec => []OneWriter
  <1>1. Inv => OneWriter
    <2> SUFFICES ASSUME Inv
                 PROVE  OneWriter
      OBVIOUS
    <2>1. ASSUME NEW p \in Procs, procs[p].phase \in Alive, procs[p].session \notin raced \cup overran
          PROVE  Rivals(p) = {}
      <3>1. ASSUME NEW q \in Rivals(p)
            PROVE  FALSE
        <4>1. /\ q \in Procs /\ q # p /\ Writer(procs[q]) /\ Writer(procs[p])
              /\ procs[q].session = procs[p].session
          BY <2>1, <3>1 DEF Rivals, Of, Writer
        <4> QED BY <2>1, <4>1 DEF Inv, Unique
      <3> QED BY <3>1
    <2>2. \A s \in SessionIds \ (raced \cup overran) : Numbered(store[s])
      BY DEF Inv, LogsOK
    <2> QED BY <2>1, <2>2 DEF OneWriter, Numbered
  <1> QED BY <1>1, SubagentsInvariant, PTL

\* A delegate call subscribes, submits, waits and tears the child down; the child's log is
\* read last.  Whatever the nesting: a call that has returned leaves no child actor, and
\* the text of a completed child is the last message of its own turn, whose end, told
\* before it is written, is in the log unless the drain deadline passed first.
THEOREM SubagentsAnswerIsFinal == Spec => []AnswerIsFinal
  <1>1. Inv => AnswerIsFinal
    <2> SUFFICES ASSUME Inv, NEW c \in Calls, calls[c].pc = "done"
                 PROVE  /\ procs[c].phase \in {"idle", "refused", "gone"}
                        /\ calls[c].outcome = "answer" /\ calls[c].ending = "completed" =>
                              /\ c \notin overran =>
                                    \E i \in DOMAIN store[c] : store[c][i].kind = "TurnCompleted"
                              /\ calls[c].text = Messages(store[c])
      BY DEF AnswerIsFinal
    <2>1. CallOK(calls[c], procs[c], store[c], feed[c].queue) /\ ProcOK(c, procs[c], overran)
      BY DEF Inv, CallsOK, ProcsOK, Procs
    <2>2. procs[c].turn = "TurnCompleted" => c \in overran
      BY <2>1 DEF CallOK, ProcOK, Working
    <2> QED BY <2>1, <2>2 DEF CallOK, Promised, Completed
  <1> QED BY <1>1, SubagentsInvariant, PTL
=============================================================================
