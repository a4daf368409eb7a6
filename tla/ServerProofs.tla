---------------------------- MODULE ServerProofs ----------------------------
(***************************************************************************)
(* The connection limit, the count of dropped records and the account at   *)
(* exit, for any number of connections, slots, records and any capacity of *)
(* the channel.                                                            *)
(***************************************************************************)
EXTENDS Server, FiniteSetTheorems, SequenceTheorems, TLAPS

Serving == {"head", "body", "calling", "recorded", "streaming", "leaving"}

\* Who holds a slot, and who still has a dropped record to count.
SlotInv ==
  /\ phase \in [Conns -> Phases]
  /\ loop \in {"looking", "accepting", "admitting", "draining", "flushing", "stopped",
               "failed"}
  /\ SlotsAreThreads
  /\ loop = "admitting" =>
       live < MaxConns /\ \E c \in Conns : admitted = {c} /\ phase[c] = "knocking"
  /\ counting = {c \in Conns : phase[c] = "recorded"}
  /\ loop \in {"flushing", "stopped"} /\ ~expired => Threads = {}

DropInv ==
  /\ handed \in Nat /\ dropped \in Nat /\ missed \in Nat /\ noted \in Nat
  /\ refused \subseteq 1..handed
  /\ DropsAccounted

\* Where a record may be.
Whereabouts(n) ==
  \/ n \in refused \/ n \in lost \/ n \in glued \/ n = hand
  \/ \E i \in 1..Len(queue) : queue[i] = n
  \/ \E i \in 1..Len(log) : log[i].id = n

RecordInv ==
  /\ queue \in Seq(Nat) /\ \A i \in 1..Len(queue) : queue[i] <= handed
  /\ writer \in {"waiting", "taken", "swapped"}
  /\ hand \in 0..handed /\ (writer = "waiting" <=> hand = 0)
  /\ log \in Seq(Line) /\ \A i \in 1..Len(log) : log[i].id \in 1..handed
  /\ lost \subseteq 1..handed
  /\ lost = {} => ~torn /\ glued = {}
  /\ \A n \in 1..handed : Whereabouts(n)

BeforeFlush == {"looking", "accepting", "admitting", "draining", "failed"}

\* Nothing is handed over behind a flush that waited for every connection.
FlushInv ==
  /\ flush \in {"none", "sent", "done", "failed"}
  /\ flush = "none" <=> loop \in BeforeFlush
  /\ flush = "none" => \A i \in 1..Len(queue) : queue[i] # Flush
  /\ ~expired => \A i \in 1..Len(queue) : queue[i] = Flush => i = Len(queue)
  /\ ~expired /\ flush = "done" => queue = <<>> /\ hand = 0

ServerInv == SlotInv /\ DropInv /\ RecordInv /\ FlushInv

-----------------------------------------------------------------------------

LEMMA ThreadsFinite == IsFiniteSet(Threads)
<1>1. Threads \subseteq Conns
  BY DEF Threads
<1> QED BY <1>1, FS_Subset, ServerAssumption DEF ServerAssumption

LEMMA ServerInitInv == ServerInit => ServerInv
<1> SUFFICES ASSUME ServerInit PROVE ServerInv
  OBVIOUS
<1> USE DEF ServerInit, Init
<1>1. SlotInv
  <2>1. Threads = {} /\ Cardinality(Threads) = 0
    <3>1. Threads = {}
      BY DEF Threads
    <3> QED BY <3>1, FS_EmptySet
  <2>2. phase \in [Conns -> Phases]
    BY DEF Phases
  <2>3. SlotsAreThreads
    BY <2>1, ServerAssumption DEF SlotsAreThreads, ServerAssumption
  <2>4. counting = {c \in Conns : phase[c] = "recorded"}
    OBVIOUS
  <2> QED BY <2>1, <2>2, <2>3, <2>4 DEF SlotInv
<1>2. DropInv
  BY FS_EmptySet DEF DropInv, DropsAccounted
<1>3. RecordInv
  BY DEF RecordInv
<1>4. FlushInv
  BY DEF FlushInv, BeforeFlush
<1> QED BY <1>1, <1>2, <1>3, <1>4 DEF ServerInv

\* A connection that moves while it is served, or is turned away.
LEMMA MoveWithin ==
  ASSUME phase \in [Conns -> Phases], NEW c \in Conns, NEW from, NEW to,
         Move(c, from, to),
         \/ from \in Serving /\ to \in Serving
         \/ from = "knocking" /\ to = "gone"
  PROVE  phase' \in [Conns -> Phases] /\ Threads' = Threads
<1>1. to \in Phases
  BY DEF Serving, Phases
<1>2. phase' \in [Conns -> Phases]
  BY <1>1 DEF Move
<1>3. ASSUME NEW d \in Conns PROVE d \in Threads' <=> d \in Threads
  BY DEF Move, Threads, Serving
<1> QED BY <1>2, <1>3 DEF Threads

\* What a step that changes no slot and drops nothing leaves as it is.
LEMMA QuietMove ==
  ASSUME SlotInv, NEW c \in Conns, NEW from, NEW to, Move(c, from, to),
         \/ from \in Serving \ {"recorded"} /\ to \in Serving \ {"recorded"}
         \/ loop = "accepting" /\ from = "knocking" /\ to = "gone",
         UNCHANGED <<admitted, expired, live, counting>>,
         loop' = loop \/ loop' = "looking"
  PROVE  SlotInv'
<1>1. phase' \in [Conns -> Phases] /\ Threads' = Threads
  BY MoveWithin DEF SlotInv
<1>2. SlotsAreThreads'
  BY <1>1 DEF SlotInv, SlotsAreThreads
<1>3. counting' = {d \in Conns : phase'[d] = "recorded"}
  BY DEF SlotInv, Move, Serving
<1>4. loop' = "admitting" =>
        live' < MaxConns /\ \E d \in Conns : admitted' = {d} /\ phase'[d] = "knocking"
  BY DEF SlotInv, Move, Serving
<1> QED BY <1>1, <1>2, <1>3, <1>4 DEF SlotInv

LEMMA SlotStep == SlotInv /\ [ServerNext]_serverVars => SlotInv'
<1> SUFFICES ASSUME SlotInv, [ServerNext]_serverVars PROVE SlotInv'
  OBVIOUS
<1>1. CASE \/ \E c \in Conns : HangUp(c)
           \/ Signal \/ Stop \/ StartDrain \/ Deadline \/ GiveUpFlush \/ WriteLog
           \/ Look \/ Wait \/ AcceptFails
           \/ UNCHANGED serverVars
  <2>1. UNCHANGED <<phase, live, counting, admitted>>
    BY <1>1 DEF HangUp, Look, Wait, AcceptFails, Signal, Stop, StartDrain, Deadline, GiveUpFlush, WriteLog,
                FlushTimeout, Writer, TakeRecord, TakeFlush, SwapCount, WriteLine,
                LoseLine, serverVars, auditVars, writerVars, fileVars, loopVars
  <2>2. \/ UNCHANGED <<loop, expired>>
        \/ loop = "flushing" /\ loop' = "stopped" /\ UNCHANGED expired
        \/ loop' \in {"looking", "accepting", "draining", "failed"}
    BY <1>1 DEF HangUp, Look, Wait, AcceptFails, Signal, Stop, StartDrain, Deadline, GiveUpFlush, WriteLog,
                serverVars, auditVars, loopVars
  <2> QED BY <2>1, <2>2 DEF SlotInv, SlotsAreThreads, Threads
<1>2. ASSUME NEW c \in Conns, ReadHead(c) PROVE SlotInv'
  <2>1. PICK next \in Asks[c] : Move(c, "head", next)
    BY <1>2 DEF ReadHead
  <2>2. next \in {"body", "streaming", "leaving"}
    BY <2>1, ServerAssumption DEF ServerAssumption
  <2> QED BY <1>2, <2>1, <2>2, QuietMove DEF ReadHead, auditVars, loopVars, Serving
<1>3. ASSUME NEW c \in Conns, ReadBody(c) PROVE SlotInv'
  BY <1>3, QuietMove DEF ReadBody, auditVars, loopVars, Serving
<1>4. ASSUME NEW c \in Conns, HeadCut(c) PROVE SlotInv'
  BY <1>4, QuietMove DEF HeadCut, auditVars, loopVars, Serving
<1>5. ASSUME NEW c \in Conns, BodyCut(c) PROVE SlotInv'
  BY <1>5, QuietMove DEF BodyCut, auditVars, loopVars, Serving
<1>6. ASSUME NEW c \in Conns, Call(c) PROVE SlotInv'
  <2>1. CASE Accept(c) /\ Move(c, "calling", "leaving")
    BY <1>6, <2>1, QuietMove DEF Call, Accept, loopVars, Serving
  <2>2. CASE Refuse(c) /\ Move(c, "calling", "recorded")
    <3>1. phase' \in [Conns -> Phases] /\ Threads' = Threads
      BY <2>2, MoveWithin DEF SlotInv, Serving
    <3>2. counting' = {d \in Conns : phase'[d] = "recorded"}
      BY <2>2 DEF SlotInv, Refuse, Move
    <3>3. UNCHANGED <<loop, admitted, expired, live>>
      BY <1>6 DEF Call, loopVars
    <3>4. loop' = "admitting" =>
            live' < MaxConns /\ \E d \in Conns : admitted' = {d} /\ phase'[d] = "knocking"
      BY <2>2, <3>3 DEF SlotInv, Move
    <3> QED BY <3>1, <3>2, <3>3, <3>4 DEF SlotInv, SlotsAreThreads
  <2> QED BY <1>6, <2>1, <2>2 DEF Call
<1>7. ASSUME NEW c \in Conns, Panic(c) PROVE SlotInv'
  BY <1>7, QuietMove DEF Panic, auditVars, loopVars, Serving
<1>8. ASSUME NEW c \in Conns, Recorded(c) PROVE SlotInv'
  <2>1. phase' \in [Conns -> Phases] /\ Threads' = Threads
    BY <1>8, MoveWithin DEF SlotInv, Recorded, Serving
  <2>2. counting' = {d \in Conns : phase'[d] = "recorded"}
    BY <1>8 DEF SlotInv, Recorded, CountDrop, Move
  <2>3. UNCHANGED <<loop, admitted, expired, live>>
    BY <1>8 DEF Recorded, loopVars
  <2>4. loop' = "admitting" =>
          live' < MaxConns /\ \E d \in Conns : admitted' = {d} /\ phase'[d] = "knocking"
    BY <1>8, <2>3 DEF SlotInv, Recorded, Move
  <2> QED BY <2>1, <2>2, <2>3, <2>4 DEF SlotInv, SlotsAreThreads
<1>9. ASSUME NEW c \in Conns, StreamCut(c) PROVE SlotInv'
  BY <1>9, QuietMove DEF StreamCut, auditVars, loopVars, Serving
<1>10. ASSUME NEW c \in Conns, Leave(c) PROVE SlotInv'
  <2>1. phase' \in [Conns -> Phases]
    BY <1>10 DEF SlotInv, Leave, Move, Phases
  <2>2. c \in Threads /\ Threads' = Threads \ {c}
    BY <1>10 DEF SlotInv, Leave, Move, Threads
  <2>3. Cardinality(Threads') = Cardinality(Threads) - 1
    BY <2>2, ThreadsFinite, FS_RemoveElement
  <2>4. UNCHANGED <<loop, admitted, expired, counting>> /\ live' = live - 1
    BY <1>10 DEF Leave, loopVars, auditVars
  <2>5. Cardinality(Threads) \in Nat
    BY ThreadsFinite, FS_CardinalityType
  <2>6. SlotsAreThreads' /\ live' < live
    BY <2>3, <2>4, <2>5, ServerAssumption DEF SlotInv, SlotsAreThreads, ServerAssumption
  <2>7. counting' = {d \in Conns : phase'[d] = "recorded"}
    BY <1>10, <2>4 DEF SlotInv, Leave, Move
  <2>8. loop' = "admitting" =>
          live' < MaxConns /\ \E d \in Conns : admitted' = {d} /\ phase'[d] = "knocking"
    <3>1. loop' = "admitting" =>
            \E d \in Conns : admitted' = {d} /\ phase'[d] = "knocking"
      BY <1>10, <2>4 DEF SlotInv, Leave, Move
    <3> QED BY <3>1, <2>3, <2>4, <2>5, <2>6, ServerAssumption
            DEF SlotInv, SlotsAreThreads, ServerAssumption
  <2> QED BY <2>1, <2>2, <2>4, <2>6, <2>7, <2>8 DEF SlotInv
<1>11. ASSUME NEW c \in Conns, TurnAway(c) PROVE SlotInv'
  BY <1>11, QuietMove DEF TurnAway, auditVars
<1>12. ASSUME NEW c \in Conns, Check(c) PROVE SlotInv'
  BY <1>12 DEF Check, HasSlot, SlotInv, SlotsAreThreads, Threads, auditVars
<1>13. CASE Admit
  <2>1. PICK c \in Conns : admitted = {c} /\ phase[c] = "knocking"
    BY <1>13 DEF Admit, SlotInv
  <2>2. Move(c, "knocking", "head")
    BY <1>13, <2>1 DEF Admit
  <2>3. phase' \in [Conns -> Phases]
    BY <2>2 DEF SlotInv, Move, Phases
  <2>4. c \notin Threads /\ Threads' = Threads \cup {c}
    BY <2>2 DEF SlotInv, Move, Threads
  <2>5. Cardinality(Threads') = Cardinality(Threads) + 1
    BY <2>4, ThreadsFinite, FS_AddElement
  <2>6. loop = "admitting" /\ loop' = "looking" /\ live' = live + 1 /\ UNCHANGED counting
    BY <1>13 DEF Admit, auditVars
  <2>7. SlotsAreThreads'
    BY <2>5, <2>6, ThreadsFinite, FS_CardinalityType, ServerAssumption
       DEF SlotInv, SlotsAreThreads, ServerAssumption
  <2>8. counting' = {d \in Conns : phase'[d] = "recorded"}
    BY <2>2, <2>6 DEF SlotInv, Move
  <2> QED BY <2>3, <2>6, <2>7, <2>8 DEF SlotInv
<1>14. CASE EndDrain
  <2>1. UNCHANGED <<phase, live, counting, expired>> /\ loop' = "flushing"
    BY <1>14 DEF EndDrain, StartFlush
  <2>2. ~expired => Threads = {}
    <3>1. ~expired => Cardinality(Threads) = 0
      BY <1>14 DEF EndDrain, Drained, SlotInv, SlotsAreThreads
    <3> QED BY <3>1, ThreadsFinite, FS_EmptySet
  <2> QED BY <2>1, <2>2 DEF SlotInv, SlotsAreThreads, Threads
<1> QED
  BY <1>1, <1>2, <1>3, <1>4, <1>5, <1>6, <1>7, <1>8, <1>9, <1>10, <1>11, <1>12,
     <1>13, <1>14 DEF ServerNext, Accepting, Client, Handle, Shutdown

LEMMA DropStep == SlotInv /\ DropInv /\ [ServerNext]_serverVars => DropInv'
<1> SUFFICES ASSUME SlotInv, DropInv, [ServerNext]_serverVars PROVE DropInv'
  OBVIOUS
<1>0. /\ IsFiniteSet(refused) /\ Cardinality(refused) \in Nat
      /\ IsFiniteSet(counting) /\ Cardinality(counting) \in Nat
  <2>1. IsFiniteSet(1..handed)
    BY FS_Interval DEF DropInv
  <2>2. counting \subseteq Conns
    BY DEF SlotInv
  <2> QED BY <2>1, <2>2, FS_Subset, FS_CardinalityType, ServerAssumption
          DEF DropInv, ServerAssumption
<1>1. ASSUME NEW c \in Conns, Accept(c) PROVE DropInv'
  <2>1. handed' = handed + 1 /\ UNCHANGED <<counting, refused, dropped, missed, noted>>
    BY <1>1 DEF Accept, writerVars, fileVars
  <2> QED BY <2>1 DEF DropInv, DropsAccounted
<1>2. ASSUME NEW c \in Conns, Refuse(c) PROVE DropInv'
  <2>1. /\ handed' = handed + 1 /\ UNCHANGED <<dropped, missed, noted>>
        /\ refused' = refused \cup {handed + 1} /\ counting' = counting \cup {c}
        /\ c \notin counting /\ handed + 1 \notin refused
    BY <1>2 DEF Refuse, writerVars, fileVars, DropInv
  <2>2. /\ Cardinality(refused') = Cardinality(refused) + 1
        /\ Cardinality(counting') = Cardinality(counting) + 1
    BY <1>0, <2>1, FS_AddElement
  <2> QED BY <1>0, <2>1, <2>2 DEF DropInv, DropsAccounted
<1>3. ASSUME NEW c \in Conns, CountDrop(c) PROVE DropInv'
  <2>1. /\ UNCHANGED <<handed, refused, missed, noted>> /\ dropped' = dropped + 1
        /\ c \in counting /\ counting' = counting \ {c}
    BY <1>3 DEF CountDrop, fileVars
  <2>2. Cardinality(counting') = Cardinality(counting) - 1
    BY <1>0, <2>1, FS_RemoveElement
  <2> QED BY <1>0, <2>1, <2>2 DEF DropInv, DropsAccounted
<1>4. CASE SwapCount
  BY <1>0, <1>4 DEF SwapCount, fileVars, DropInv, DropsAccounted
<1>5. CASE WriteLine
  BY <1>0, <1>5 DEF WriteLine, DropInv, DropsAccounted
<1>6. CASE LoseLine \/ TakeRecord \/ TakeFlush
  <2>1. UNCHANGED <<handed, refused, missed, noted, dropped, counting>>
    BY <1>6 DEF LoseLine, TakeRecord, TakeFlush, writerVars, fileVars
  <2> QED BY <2>1 DEF DropInv, DropsAccounted
<1>7. CASE UNCHANGED <<handed, refused, missed, noted, dropped, counting>>
  BY <1>7 DEF DropInv, DropsAccounted
<1>8. \/ \E c \in Conns : Accept(c) \/ Refuse(c) \/ CountDrop(c)
      \/ Writer
      \/ UNCHANGED <<handed, refused, missed, noted, dropped, counting>>
  BY DEF ServerNext, Accepting, Client, Handle, Shutdown, HangUp, ReadHead, ReadBody, HeadCut,
         BodyCut, Call, Panic, Recorded, StreamCut, Leave, TurnAway, Check, Look, Wait,
         AcceptFails, Signal,
         Admit, StartDrain, EndDrain, GiveUpFlush, Stop, Deadline, WriteLog,
         StartFlush, FlushTimeout, serverVars, auditVars, writerVars, fileVars
<1> QED BY <1>1, <1>2, <1>3, <1>4, <1>5, <1>6, <1>7, <1>8 DEF Writer

LEMMA RecordStep ==
  SlotInv /\ DropInv /\ RecordInv /\ [ServerNext]_serverVars => RecordInv'
<1> SUFFICES ASSUME SlotInv, DropInv, RecordInv, [ServerNext]_serverVars
             PROVE  RecordInv'
  OBVIOUS
<1>0. handed \in Nat
  BY DEF DropInv
<1>1. ASSUME NEW c \in Conns, Accept(c) PROVE RecordInv'
  <2>1. /\ handed' = handed + 1 /\ queue' = Append(queue, handed + 1)
        /\ UNCHANGED <<refused, lost, torn, glued, hand, log, writer>>
    BY <1>1 DEF Accept, writerVars, fileVars
  <2>2. /\ queue' \in Seq(Nat) /\ Len(queue') = Len(queue) + 1
        /\ \A i \in 1..Len(queue) : queue'[i] = queue[i]
        /\ queue'[Len(queue')] = handed + 1
    BY <1>0, <2>1 DEF RecordInv
  <2>3. \A i \in 1..Len(queue') : queue'[i] <= handed'
    BY <1>0, <2>1, <2>2 DEF RecordInv
  <2>4. \A n \in 1..handed' : Whereabouts(n)'
    <3> SUFFICES ASSUME NEW n \in 1..handed' PROVE Whereabouts(n)'
      OBVIOUS
    <3>0. Len(queue) \in Nat /\ Len(queue') \in 1..Len(queue')
      <4>1. Len(queue) \in Nat
        BY DEF RecordInv
      <4> QED BY <4>1, <2>2
    <3>1. CASE n = handed + 1
      <4>1. \E i \in 1..Len(queue') : queue'[i] = n
        BY <3>0, <3>1, <2>2
      <4> QED BY <4>1 DEF Whereabouts
    <3>2. CASE n \in 1..handed
      <4>1. Whereabouts(n)
        BY <3>2 DEF RecordInv
      <4>2. ASSUME NEW i \in 1..Len(queue) PROVE i \in 1..Len(queue')
        BY <3>0, <2>2
      <4> QED BY <4>1, <4>2, <2>1, <2>2 DEF Whereabouts
    <3> QED BY <3>1, <3>2, <2>1, <1>0
  <2>5. /\ hand' \in 0..handed' /\ (writer' = "waiting" <=> hand' = 0)
        /\ lost' \subseteq 1..handed'
        /\ \A i \in 1..Len(log') : log'[i].id \in 1..handed'
    BY <1>0, <2>1 DEF RecordInv
  <2> QED BY <2>1, <2>2, <2>3, <2>4, <2>5 DEF RecordInv
<1>2. ASSUME NEW c \in Conns, Refuse(c) PROVE RecordInv'
  <2>1. /\ handed' = handed + 1 /\ refused' = refused \cup {handed + 1}
        /\ UNCHANGED <<queue, lost, torn, glued, hand, log, writer>>
    BY <1>2 DEF Refuse, writerVars, fileVars
  <2>2. \A n \in 1..handed' : Whereabouts(n)'
    <3> SUFFICES ASSUME NEW n \in 1..handed' PROVE Whereabouts(n)'
      OBVIOUS
    <3>1. CASE n = handed + 1
      BY <3>1, <2>1 DEF Whereabouts
    <3>2. CASE n \in 1..handed
      <4>1. Whereabouts(n)
        BY <3>2 DEF RecordInv
      <4> QED BY <4>1, <2>1 DEF Whereabouts
    <3> QED BY <3>1, <3>2, <2>1, <1>0
  <2>3. /\ hand' \in 0..handed' /\ lost' \subseteq 1..handed'
        /\ \A i \in 1..Len(queue') : queue'[i] <= handed'
        /\ \A i \in 1..Len(log') : log'[i].id \in 1..handed'
    BY <1>0, <2>1 DEF RecordInv
  <2> QED BY <2>1, <2>2, <2>3 DEF RecordInv
<1>3. CASE StartFlush
  <2>1. CASE UNCHANGED queue
    BY <1>3, <2>1 DEF StartFlush, RecordInv, Whereabouts, writerVars, fileVars
  <2>2. CASE queue' = Append(queue, Flush)
    <3>1. UNCHANGED <<handed, refused, lost, torn, glued, hand, log, writer>>
      BY <1>3 DEF StartFlush, writerVars, fileVars
    <3>2. /\ queue' \in Seq(Nat) /\ Len(queue') = Len(queue) + 1
          /\ \A i \in 1..Len(queue) : queue'[i] = queue[i]
          /\ queue'[Len(queue')] = 0
      BY <2>2 DEF RecordInv, Flush
    <3>3. \A i \in 1..Len(queue') : queue'[i] <= handed'
      <4> SUFFICES ASSUME NEW i \in 1..Len(queue') PROVE queue'[i] <= handed
        BY <3>1
      <4>1. Len(queue) \in Nat
        BY DEF RecordInv
      <4>2. i \in 1..Len(queue) \/ i = Len(queue')
        BY <4>1, <3>2
      <4>3. i \in 1..Len(queue) => queue[i] <= handed
        BY DEF RecordInv
      <4> QED BY <1>0, <4>2, <4>3, <3>2
    <3>4. \A n \in 1..handed' : Whereabouts(n)'
      <4> SUFFICES ASSUME NEW n \in 1..handed PROVE Whereabouts(n)'
        BY <3>1
      <4>1. Whereabouts(n) /\ Len(queue) \in Nat
        BY DEF RecordInv
      <4>2. ASSUME NEW i \in 1..Len(queue) PROVE i \in 1..Len(queue')
        BY <4>1, <3>2
      <4> QED BY <4>1, <4>2, <3>1, <3>2 DEF Whereabouts
    <3> QED BY <3>1, <3>2, <3>3, <3>4 DEF RecordInv
  <2> QED BY <1>3, <2>1, <2>2 DEF StartFlush
<1>4. CASE TakeRecord \/ TakeFlush
  <2>0. queue # <<>> /\ hand = 0 /\ queue' = Tail(queue)
    BY <1>4 DEF TakeRecord, TakeFlush, RecordInv
  <2>1. /\ queue' \in Seq(Nat) /\ Len(queue') = Len(queue) - 1 /\ Len(queue) \in Nat
        /\ \A i \in 1..Len(queue') : queue'[i] = queue[i + 1]
        /\ Head(queue) = queue[1] /\ 1 \in 1..Len(queue)
    BY <2>0 DEF RecordInv
  <2>2. \A i \in 2..Len(queue) : i - 1 \in 1..Len(queue') /\ queue'[i - 1] = queue[i]
    <3> SUFFICES ASSUME NEW i \in 2..Len(queue)
                 PROVE  i - 1 \in 1..Len(queue') /\ queue'[i - 1] = queue[i]
      OBVIOUS
    <3>1. i - 1 \in 1..Len(queue') /\ (i - 1) + 1 = i
      BY <2>1
    <3> QED BY <2>1, <3>1
  <2>3. UNCHANGED <<handed, refused, lost, torn, glued, log>>
    BY <1>4 DEF TakeRecord, TakeFlush, writerVars, fileVars
  <2>4. \A i \in 1..Len(queue') : queue'[i] <= handed'
    <3> SUFFICES ASSUME NEW i \in 1..Len(queue') PROVE queue'[i] <= handed
      BY <2>3
    <3>1. queue'[i] = queue[i + 1] /\ i + 1 \in 1..Len(queue)
      BY <2>1
    <3> QED BY <3>1 DEF RecordInv
  <2>5. /\ hand' = Head(queue) /\ hand' \in 0..handed'
        /\ (writer' = "waiting" <=> hand' = 0) /\ writer' \in {"waiting", "taken", "swapped"}
    <3>1. Head(queue) \in 0..handed
      BY <2>1, <1>0 DEF RecordInv
    <3> QED BY <3>1, <1>4, <2>0, <2>3 DEF TakeRecord, TakeFlush, Flush, writerVars, fileVars
  <2>6. \A n \in 1..handed' : Whereabouts(n)'
    <3> SUFFICES ASSUME NEW n \in 1..handed PROVE Whereabouts(n)'
      BY <2>3
    <3>1. Whereabouts(n) /\ n # 0
      BY <1>0 DEF RecordInv
    <3>2. CASE \E i \in 1..Len(queue) : queue[i] = n
      <4>1. PICK i \in 1..Len(queue) : queue[i] = n
        BY <3>2
      <4>2. CASE i = 1
        BY <4>1, <4>2, <2>1, <2>5 DEF Whereabouts
      <4>3. CASE i \in 2..Len(queue)
        BY <4>1, <4>3, <2>2 DEF Whereabouts
      <4> QED BY <4>2, <4>3, <2>1
    <3>3. CASE \/ n \in refused \/ n \in lost \/ n \in glued
                \/ \E i \in 1..Len(log) : log[i].id = n
      BY <3>3, <2>3 DEF Whereabouts
    <3> QED BY <3>1, <3>2, <3>3, <2>0 DEF Whereabouts
  <2> QED BY <2>1, <2>3, <2>4, <2>5, <2>6 DEF RecordInv
<1>5. CASE SwapCount
  <2>1. UNCHANGED <<handed, refused, lost, torn, glued, log, hand, queue>> /\ writer' = "swapped"
        /\ writer = "taken"
    BY <1>5 DEF SwapCount, fileVars
  <2> QED BY <2>1 DEF RecordInv, Whereabouts
<1>6. CASE WriteLine /\ ~torn
  <2>1. /\ UNCHANGED <<handed, refused, lost, glued, queue>> /\ hand # 0 /\ torn' = FALSE
        /\ log' = Append(log, [id |-> hand, before |-> missed])
        /\ hand' = 0 /\ writer' = "waiting"
    BY <1>6 DEF WriteLine, RecordInv
  <2>2. [id |-> hand, before |-> missed] \in Line
    BY <2>1, <1>0 DEF Line, RecordInv, DropInv
  <2>3. /\ log' \in Seq(Line) /\ Len(log') = Len(log) + 1
        /\ \A i \in 1..Len(log) : log'[i] = log[i]
        /\ log'[Len(log')].id = hand
    BY <2>1, <2>2 DEF RecordInv
  <2>4. \A i \in 1..Len(log') : log'[i].id \in 1..handed'
    BY <2>1, <2>3, <1>0 DEF RecordInv
  <2>5. \A n \in 1..handed' : Whereabouts(n)'
    <3> SUFFICES ASSUME NEW n \in 1..handed PROVE Whereabouts(n)'
      BY <2>1
    <3>1. Whereabouts(n) /\ Len(log) \in Nat
      BY DEF RecordInv
    <3>2. CASE n = hand
      <4>1. Len(log') \in 1..Len(log') /\ log'[Len(log')].id = n
        BY <3>1, <3>2, <2>3
      <4> QED BY <4>1 DEF Whereabouts
    <3>3. CASE \E i \in 1..Len(log) : log[i].id = n
      <4>1. \E i \in 1..Len(log') : log'[i].id = n
        BY <3>1, <3>3, <2>3
      <4> QED BY <4>1 DEF Whereabouts
    <3> QED BY <3>1, <3>2, <3>3, <2>1 DEF Whereabouts
  <2>6. 0 \in 0..handed'
    BY <1>0, <2>1
  <2> QED BY <2>1, <2>3, <2>4, <2>5, <2>6 DEF RecordInv
<1>10. CASE WriteLine /\ torn
  <2>1. /\ UNCHANGED <<handed, refused, lost, log, queue>> /\ hand # 0 /\ torn' = FALSE
        /\ glued' = glued \cup {hand} /\ hand' = 0 /\ writer' = "waiting"
    BY <1>10 DEF WriteLine, RecordInv
  <2>2. \A n \in 1..handed' : Whereabouts(n)'
    BY <2>1 DEF Whereabouts, RecordInv
  <2>3. 0 \in 0..handed' /\ lost # {}
    BY <1>0, <1>10, <2>1 DEF RecordInv
  <2> QED BY <2>1, <2>2, <2>3 DEF RecordInv
<1>7. CASE LoseLine
  <2>1. /\ UNCHANGED <<handed, refused, log, glued, queue>> /\ hand # 0
        /\ lost' = lost \cup {hand} /\ hand' = 0 /\ writer' = "waiting"
    BY <1>7 DEF LoseLine, RecordInv
  <2>2. \A n \in 1..handed' : Whereabouts(n)'
    BY <2>1 DEF Whereabouts, RecordInv
  <2>3. 0 \in 0..handed' /\ lost' \subseteq 1..handed'
    BY <1>0, <2>1 DEF RecordInv
  <2> QED BY <2>1, <2>2, <2>3 DEF RecordInv
<1>8. CASE UNCHANGED <<handed, refused, lost, torn, glued, log, hand, queue, writer>>
  BY <1>8 DEF RecordInv, Whereabouts
<1>9. \/ \E c \in Conns : Accept(c) \/ Refuse(c)
      \/ Writer \/ StartFlush
      \/ UNCHANGED <<handed, refused, lost, torn, glued, log, hand, queue, writer>>
  BY DEF ServerNext, Accepting, Client, Handle, Shutdown, HangUp, ReadHead, ReadBody, HeadCut,
         BodyCut, Call, Panic, Recorded, StreamCut, Leave, TurnAway, Check, Look, Wait,
         AcceptFails, Signal,
         Admit, StartDrain, EndDrain, GiveUpFlush, Stop, Deadline, WriteLog,
         CountDrop, FlushTimeout, serverVars, auditVars, writerVars, fileVars
<1> QED BY <1>1, <1>2, <1>3, <1>4, <1>5, <1>6, <1>7, <1>8, <1>9, <1>10 DEF Writer

LEMMA FlushStep == ServerInv /\ [ServerNext]_serverVars => FlushInv'
<1> SUFFICES ASSUME ServerInv, [ServerNext]_serverVars PROVE FlushInv'
  OBVIOUS
<1>0. /\ SlotInv /\ DropInv /\ RecordInv /\ FlushInv
      /\ handed \in Nat /\ queue \in Seq(Nat) /\ Len(queue) \in Nat
  BY DEF ServerInv, DropInv, RecordInv
<1>1. ASSUME NEW c \in Conns, Call(c) PROVE FlushInv'
  <2>1. c \in Threads
    BY <1>1, <1>0 DEF Call, Move, Threads
  <2>2. flush = "none" \/ expired
    BY <2>1, <1>0 DEF SlotInv, FlushInv, BeforeFlush
  <2>3. UNCHANGED <<flush, loop, expired>>
    BY <1>1 DEF Call, Accept, Refuse, loopVars
  <2>4. queue' = queue \/ queue' = Append(queue, handed + 1)
    BY <1>1 DEF Call, Accept, Refuse
  <2>5. flush = "none" => \A i \in 1..Len(queue') : queue'[i] # Flush
    <3>1. CASE queue' = queue
      BY <3>1, <1>0 DEF FlushInv
    <3>2. CASE queue' = Append(queue, handed + 1)
      <4>1. /\ Len(queue') = Len(queue) + 1
            /\ \A i \in 1..Len(queue) : queue'[i] = queue[i]
            /\ queue'[Len(queue')] = handed + 1
        BY <3>2, <1>0
      <4>2. handed + 1 # Flush
        BY <1>0 DEF Flush
      <4> QED BY <4>1, <4>2, <1>0 DEF FlushInv
    <3> QED BY <2>4, <3>1, <3>2
  <2> QED BY <1>0, <2>2, <2>3, <2>5 DEF FlushInv
<1>2. CASE EndDrain
  <2>1. /\ flush = "none" /\ loop' = "flushing" /\ UNCHANGED expired
        /\ \/ queue' = Append(queue, Flush) /\ flush' = "sent"
           \/ queue' = queue /\ flush' = "failed"
    BY <1>2 DEF EndDrain, StartFlush
  <2>2. \A i \in 1..Len(queue') : queue'[i] = Flush => i = Len(queue')
    <3>1. CASE queue' = queue
      BY <3>1, <2>1, <1>0 DEF FlushInv
    <3>2. CASE queue' = Append(queue, Flush)
      <4>1. /\ Len(queue') = Len(queue) + 1
            /\ \A i \in 1..Len(queue) : queue'[i] = queue[i]
        BY <3>2, <1>0 DEF Flush
      <4> QED BY <4>1, <2>1, <1>0 DEF FlushInv
    <3> QED BY <2>1, <3>1, <3>2
  <2> QED BY <2>1, <2>2 DEF FlushInv, BeforeFlush
<1>3. CASE TakeRecord /\ UNCHANGED loopVars
  <2>1. /\ queue # <<>> /\ queue' = Tail(queue) /\ Head(queue) # Flush
        /\ writer = "waiting" /\ hand = 0
        /\ UNCHANGED <<flush, loop, expired>>
    BY <1>3, <1>0 DEF TakeRecord, RecordInv, loopVars
  <2>2. /\ Len(queue') = Len(queue) - 1
        /\ \A i \in 1..Len(queue') : i + 1 \in 1..Len(queue) /\ queue'[i] = queue[i + 1]
    BY <2>1, <1>0
  <2>3. ~expired => flush # "done"
    BY <2>1, <1>0 DEF FlushInv
  <2>4. ~expired => \A i \in 1..Len(queue') : queue'[i] = Flush => i = Len(queue')
    BY <2>2, <1>0 DEF FlushInv
  <2>5. flush = "none" => \A i \in 1..Len(queue') : queue'[i] # Flush
    BY <2>2, <1>0 DEF FlushInv
  <2> QED BY <1>0, <2>1, <2>3, <2>4, <2>5 DEF FlushInv
<1>4. CASE TakeFlush /\ UNCHANGED loopVars
  <2>1. /\ queue # <<>> /\ queue' = Tail(queue) /\ Head(queue) = Flush
        /\ hand' = 0 /\ UNCHANGED <<loop, expired>>
        /\ flush' = IF flush = "sent" THEN "done" ELSE flush
    BY <1>4, <1>0 DEF TakeFlush, RecordInv, writerVars, fileVars, loopVars
  <2>2. /\ Len(queue') = Len(queue) - 1 /\ queue' \in Seq(Nat)
        /\ \A i \in 1..Len(queue') : i + 1 \in 1..Len(queue) /\ queue'[i] = queue[i + 1]
        /\ queue[1] = Flush /\ 1 \in 1..Len(queue)
    BY <2>1, <1>0
  <2>3. flush # "none"
    BY <2>2, <1>0 DEF FlushInv
  <2>4. ~expired => Len(queue) = 1
    BY <2>2, <1>0 DEF FlushInv
  <2>5. ~expired => queue' = <<>>
    <3> SUFFICES ASSUME ~expired PROVE queue' = <<>>
      OBVIOUS
    <3>1. Len(queue') = 0 /\ queue' \in Seq(Nat)
      <4>1. Len(queue') = Len(queue) - 1 /\ Len(queue) = 1
        BY <2>2, <2>4
      <4> QED BY <4>1, <2>2
    <3> QED BY <3>1, EmptySeq
  <2>6. flush' \in {"sent", "done", "failed"}
    BY <2>1, <2>3, <1>0 DEF FlushInv
  <2>7. ~expired => \A i \in 1..Len(queue') : queue'[i] = Flush => i = Len(queue')
    BY <2>5
  <2> QED BY <1>0, <2>1, <2>3, <2>5, <2>6, <2>7 DEF FlushInv
<1>5. CASE WriteLog /\ (SwapCount \/ WriteLine \/ LoseLine)
  <2>1. UNCHANGED <<queue, flush, loop, expired>>
        /\ (SwapCount => UNCHANGED hand) /\ (~SwapCount => hand' = 0)
    BY <1>5 DEF WriteLog, SwapCount, WriteLine, LoseLine, loopVars
  <2> QED BY <1>0, <2>1 DEF FlushInv
<1>6. CASE GiveUpFlush
  <2>1. flush = "sent" /\ flush' = "failed" /\ UNCHANGED <<queue, hand, loop, expired>>
    BY <1>6 DEF GiveUpFlush, FlushTimeout, writerVars, fileVars, loopVars
  <2> QED BY <1>0, <2>1 DEF FlushInv
<1>7. CASE UNCHANGED <<queue, hand, flush>> /\
           \/ UNCHANGED <<loop, expired>>
           \/ /\ loop \in {"looking", "accepting", "admitting"} /\ UNCHANGED expired
              /\ loop' \in BeforeFlush
           \/ loop = "draining" /\ loop' = loop /\ expired'
           \/ loop = "flushing" /\ loop' = "stopped" /\ UNCHANGED expired
  BY <1>0, <1>7 DEF FlushInv, BeforeFlush
<1>8. \/ \E c \in Conns : Call(c)
      \/ EndDrain \/ GiveUpFlush \/ WriteLog
      \/ UNCHANGED <<queue, hand, flush>> /\
           \/ UNCHANGED <<loop, expired>>
           \/ /\ loop \in {"looking", "accepting", "admitting"} /\ UNCHANGED expired
              /\ loop' \in BeforeFlush
           \/ loop = "draining" /\ loop' = loop /\ expired'
           \/ loop = "flushing" /\ loop' = "stopped" /\ UNCHANGED expired
  BY DEF ServerNext, Accepting, Client, Handle, Shutdown, HangUp, ReadHead, ReadBody, HeadCut,
         BodyCut, Panic, Recorded, StreamCut, Leave, TurnAway, Check, Look, Wait,
         AcceptFails, Signal,
         Admit, StartDrain, Stop, Deadline,
         CountDrop, BeforeFlush, serverVars, auditVars, writerVars, fileVars, loopVars
<1> QED BY <1>1, <1>2, <1>3, <1>4, <1>5, <1>6, <1>7, <1>8 DEF WriteLog, Writer

LEMMA ServerInvariant == ServerSpec => []ServerInv
<1>1. ServerInv /\ [ServerNext]_serverVars => ServerInv'
  BY SlotStep, DropStep, RecordStep, FlushStep DEF ServerInv
<1> QED BY ServerInitInv, <1>1, PTL DEF ServerSpec

-----------------------------------------------------------------------------

\* The count serve_on checks its limit against is the number of connections it
\* serves, and never more than MAX_CONNECTIONS.
THEOREM SlotsKept == ServerSpec => []SlotsAreThreads
<1>1. ServerInv => SlotsAreThreads
  BY DEF ServerInv, SlotInv
<1> QED BY ServerInvariant, <1>1, PTL

\* Every record the channel did not take is accounted for once, however the
\* callers' additions and the writer's swap interleave (Audit::record,
\* write_line).
THEOREM DropsKept == ServerSpec => []DropsAccounted
<1>1. ServerInv => DropsAccounted
  BY DEF ServerInv, DropInv
<1> QED BY ServerInvariant, <1>1, PTL

\* A drain that ended because every connection was done, and a flush that was
\* answered in time, leave no record unaccounted for, if no write of the log
\* failed (serve_on).
THEOREM AccountedAtExit == ServerSpec => []CallsAccountedAtExit
<1>1. ServerInv => CallsAccountedAtExit
  <2> SUFFICES ASSUME ServerInv, loop = "stopped", flush = "done", ~expired, lost = {}
               PROVE  /\ {log[i].id : i \in DOMAIN log} \cup refused = 1..handed
                      /\ Cardinality(refused) = noted + missed + dropped
    BY DEF CallsAccountedAtExit
  <2>1. queue = <<>> /\ hand = 0 /\ counting = {}
    BY DEF ServerInv, SlotInv, FlushInv, Threads
  <2>2. Cardinality(refused) = noted + missed + dropped
    BY <2>1, FS_EmptySet DEF ServerInv, DropInv, DropsAccounted
  <2>3. DOMAIN log = 1..Len(log)
    BY DEF ServerInv, RecordInv
  <2>4. \A i \in DOMAIN log : log[i].id \in 1..handed
    BY <2>3 DEF ServerInv, RecordInv
  <2>5. glued = {} /\ refused \subseteq 1..handed
    BY DEF ServerInv, RecordInv, DropInv
  <2>6. \A n \in 1..handed : n \in refused \/ \E i \in DOMAIN log : log[i].id = n
    BY <2>1, <2>3, <2>5 DEF ServerInv, RecordInv, DropInv, Whereabouts
  <2> QED BY <2>2, <2>4, <2>5, <2>6
<1> QED BY ServerInvariant, <1>1, PTL

-----------------------------------------------------------------------------
(* The channel without its flush.                                          *)

OneFlush(q) == \A i, j \in 1..Len(q) : q[i] = Flush /\ q[j] = Flush => i = j

LEMMA RemovedAt ==
  ASSUME NEW q \in Seq(Nat), NEW k \in 1..Len(q)
  PROVE  /\ RemoveAt(q, k) \in Seq(Nat) /\ Len(RemoveAt(q, k)) = Len(q) - 1
         /\ \A i \in 1..(Len(q)-1) : RemoveAt(q, k)[i] = IF i < k THEN q[i] ELSE q[i+1]
<1>1. PICK n \in Nat : n = Len(q) /\ k \in 1..n /\ k \in Nat
  OBVIOUS
<1>2. \A i \in 1..n : q[i] \in Nat
  BY <1>1
<1>3. PICK s : s = SubSeq(q, 1, k-1)
  OBVIOUS
<1>4. PICK t : t = SubSeq(q, k+1, n)
  OBVIOUS
<1>5. s \in Seq(Nat) /\ Len(s) = k - 1 /\ \A i \in 1..(k-1) : s[i] = q[i]
  <2>1. \A i \in 1..(k-1) : q[i] \in Nat
    BY <1>1, <1>2
  <2>2. /\ SubSeq(q, 1, k-1) \in Seq(Nat)
        /\ Len(SubSeq(q, 1, k-1)) = IF 1 <= k-1 THEN (k-1)-1+1 ELSE 0
        /\ \A i \in 1..((k-1)-1+1) : SubSeq(q, 1, k-1)[i] = q[1+i-1]
    BY <1>1, <2>1, SubSeqProperties
  <2>3. (k-1)-1+1 = k - 1 /\ \A i \in 1..(k-1) : 1 + i - 1 = i
    BY <1>1
  <2> QED BY <1>1, <1>3, <2>2, <2>3
<1>6. t \in Seq(Nat) /\ Len(t) = n - k /\ \A i \in 1..(n-k) : t[i] = q[k+i]
  <2>1. \A i \in (k+1)..n : q[i] \in Nat
    BY <1>1, <1>2
  <2>2. /\ SubSeq(q, k+1, n) \in Seq(Nat)
        /\ Len(SubSeq(q, k+1, n)) = IF k+1 <= n THEN n-(k+1)+1 ELSE 0
        /\ \A i \in 1..(n-(k+1)+1) : SubSeq(q, k+1, n)[i] = q[(k+1)+i-1]
    BY <1>1, <2>1, SubSeqProperties
  <2>3. n-(k+1)+1 = n - k /\ \A i \in 1..(n-k) : (k+1)+i-1 = k + i
    BY <1>1
  <2> QED BY <1>1, <1>4, <2>2, <2>3
<1>7. RemoveAt(q, k) = s \o t
  BY <1>1, <1>3, <1>4 DEF RemoveAt
<1>8. /\ s \o t \in Seq(Nat) /\ Len(s \o t) = Len(s) + Len(t)
      /\ \A i \in 1..(Len(s)+Len(t)) :
           (s \o t)[i] = IF i <= Len(s) THEN s[i] ELSE t[i - Len(s)]
  BY <1>5, <1>6, ConcatProperties
<1>9. Len(s) + Len(t) = n - 1
  BY <1>1, <1>5, <1>6
<1>10. ASSUME NEW i \in 1..(n-1) PROVE (s \o t)[i] = IF i < k THEN q[i] ELSE q[i+1]
  <2>1. CASE i < k
    BY <1>1, <1>5, <1>8, <1>9, <2>1
  <2>2. CASE ~(i < k)
    <3>1. i - (k - 1) \in 1..(n-k) /\ k + (i - (k - 1)) = i + 1 /\ ~(i <= k - 1)
      BY <1>1, <2>2
    <3> QED BY <1>5, <1>6, <1>8, <1>9, <2>2, <3>1
  <2> QED BY <2>1, <2>2
<1> QED BY <1>1, <1>7, <1>8, <1>9, <1>10

\* The same, of a sequence that is known to be one longer than m.
LEMMA RemovedAtOf ==
  ASSUME NEW q \in Seq(Nat), NEW m \in Nat, Len(q) = m + 1, NEW k \in 1..(m+1)
  PROVE  /\ RemoveAt(q, k) \in Seq(Nat) /\ Len(RemoveAt(q, k)) = m
         /\ \A i \in 1..m : RemoveAt(q, k)[i] = IF i < k THEN q[i] ELSE q[i+1]
<1>1. k \in 1..Len(q) /\ Len(q) - 1 = m
  OBVIOUS
<1> QED BY <1>1, RemovedAt

LEMMA FlushRemoved ==
  ASSUME NEW q \in Seq(Nat), OneFlush(q), NEW k \in 1..Len(q), q[k] = Flush
  PROVE  RemoveFirst(q, Flush) = RemoveAt(q, k)
<1>1. {i \in 1..Len(q) : q[i] = Flush} = {k}
  BY DEF OneFlush
<1>2. Min({k}) = k
  BY DEF Min
<1>3. SelectInSeq(q, LAMBDA v : v = Flush) = k
  BY <1>1, <1>2 DEF SelectInSeq
<1> QED BY <1>3 DEF RemoveFirst

LEMMA NoFlushToRemove ==
  ASSUME NEW q \in Seq(Nat), \A i \in 1..Len(q) : q[i] # Flush
  PROVE  RemoveFirst(q, Flush) = q
BY DEF RemoveFirst

LEMMA RecordsType ==
  ASSUME NEW q \in Seq(Nat), OneFlush(q)
  PROVE  /\ RemoveFirst(q, Flush) \in Seq(Nat)
         /\ \A i \in 1..Len(RemoveFirst(q, Flush)) :
              \E j \in 1..Len(q) : RemoveFirst(q, Flush)[i] = q[j]
<1>1. CASE \A i \in 1..Len(q) : q[i] # Flush
  BY <1>1, NoFlushToRemove
<1>2. CASE \E i \in 1..Len(q) : q[i] = Flush
  <2>1. PICK k \in 1..Len(q) : q[k] = Flush
    BY <1>2
  <2>2. RemoveFirst(q, Flush) = RemoveAt(q, k)
    BY <2>1, FlushRemoved
  <2>3. /\ RemoveAt(q, k) \in Seq(Nat) /\ Len(RemoveAt(q, k)) = Len(q) - 1 /\ Len(q) \in Nat
        /\ \A i \in 1..(Len(q)-1) : RemoveAt(q, k)[i] = IF i < k THEN q[i] ELSE q[i+1]
    BY RemovedAt
  <2>4. \A i \in 1..(Len(q)-1) : i \in 1..Len(q) /\ i + 1 \in 1..Len(q)
    BY <2>3
  <2> QED BY <2>2, <2>3, <2>4
<1> QED BY <1>1, <1>2

LEMMA RecordAppended ==
  ASSUME NEW q \in Seq(Nat), OneFlush(q), NEW n \in Nat \ {Flush}
  PROVE  /\ RemoveFirst(Append(q, n), Flush) = Append(RemoveFirst(q, Flush), n)
         /\ OneFlush(Append(q, n))
<1>1. PICK r \in Seq(Nat) : r = Append(q, n)
  <2>1. Append(q, n) \in Seq(Nat)
    OBVIOUS
  <2> QED BY <2>1
<1>2. PICK m \in Nat : m = Len(q)
  OBVIOUS
<1>3. Len(r) = m + 1 /\ r[m+1] = n /\ \A i \in 1..m : r[i] = q[i]
  BY <1>1, <1>2
<1>4. \A i \in 1..(m+1) : i \in 1..m \/ i = m + 1
  OBVIOUS
<1>5. OneFlush(r)
  BY <1>2, <1>3, <1>4 DEF OneFlush
<1>6. CASE \A i \in 1..m : q[i] # Flush
  <2>1. \A i \in 1..Len(r) : r[i] # Flush
    BY <1>3, <1>4, <1>6
  <2>2. RemoveFirst(r, Flush) = r /\ RemoveFirst(q, Flush) = q
    BY <1>2, <1>6, <2>1, NoFlushToRemove
  <2> QED BY <1>1, <1>5, <2>2
<1>7. CASE \E i \in 1..m : q[i] = Flush
  <2>1. PICK k \in 1..m : q[k] = Flush
    BY <1>7
  <2>2. k \in 1..Len(q) /\ k \in 1..Len(r) /\ r[k] = Flush /\ k \in Nat
    BY <1>2, <1>3, <2>1
  <2>3. RemoveFirst(r, Flush) = RemoveAt(r, k) /\ RemoveFirst(q, Flush) = RemoveAt(q, k)
    BY <1>5, <2>1, <2>2, FlushRemoved
  <2>4. /\ RemoveAt(r, k) \in Seq(Nat) /\ Len(RemoveAt(r, k)) = m
        /\ \A i \in 1..m : RemoveAt(r, k)[i] = IF i < k THEN r[i] ELSE r[i+1]
    <3>1. k \in 1..(m+1)
      BY <1>3, <2>2
    <3> QED BY <1>3, <3>1, RemovedAtOf
  <2>5. PICK u \in Seq(Nat) : u = RemoveAt(q, k)
    BY <2>2, RemovedAt
  <2>6. /\ Len(u) = m - 1
        /\ \A i \in 1..(m-1) : u[i] = IF i < k THEN q[i] ELSE q[i+1]
    BY <1>2, <2>2, <2>5, RemovedAt
  <2>7. /\ Append(u, n) \in Seq(Nat) /\ Len(Append(u, n)) = m
        /\ \A i \in 1..(m-1) : Append(u, n)[i] = u[i]
        /\ Append(u, n)[m] = n
    BY <2>5, <2>6
  <2>8. ASSUME NEW i \in 1..m PROVE RemoveAt(r, k)[i] = Append(u, n)[i]
    <3>1. CASE i = m
      BY <1>3, <2>1, <2>4, <2>7, <3>1
    <3>2. CASE i # m
      <4>1. i \in 1..(m-1) /\ i \in 1..m /\ i + 1 \in 1..m
        BY <3>2
      <4>2. RemoveAt(r, k)[i] = IF i < k THEN q[i] ELSE q[i+1]
        BY <1>3, <2>4, <4>1
      <4> QED BY <2>6, <2>7, <4>1, <4>2
    <3> QED BY <3>1, <3>2
  <2>9. RemoveAt(r, k) = Append(u, n)
    BY <2>4, <2>7, <2>8, SeqEqual
  <2> QED BY <1>1, <1>5, <2>3, <2>5, <2>9
<1> QED BY <1>6, <1>7

LEMMA FlushAppended ==
  ASSUME NEW q \in Seq(Nat), \A i \in 1..Len(q) : q[i] # Flush
  PROVE  /\ RemoveFirst(Append(q, Flush), Flush) = RemoveFirst(q, Flush)
         /\ OneFlush(Append(q, Flush))
<1>1. PICK r \in Seq(Nat) : r = Append(q, Flush)
  <2>1. Append(q, Flush) \in Seq(Nat)
    BY DEF Flush
  <2> QED BY <2>1
<1>2. PICK m \in Nat : m = Len(q)
  OBVIOUS
<1>3. Len(r) = m + 1 /\ r[m+1] = Flush /\ \A i \in 1..m : r[i] = q[i]
  BY <1>1, <1>2 DEF Flush
<1>4. \A i \in 1..(m+1) : i \in 1..m \/ i = m + 1
  OBVIOUS
<1>5. OneFlush(r)
  <2>1. ASSUME NEW i \in 1..(m+1), r[i] = Flush PROVE i = m + 1
    <3>1. \A j \in 1..m : r[j] # Flush
      BY <1>2, <1>3
    <3> QED BY <1>4, <2>1, <3>1
  <2>2. \A i, j \in 1..(m+1) : r[i] = Flush /\ r[j] = Flush => i = j
    BY <2>1
  <2> QED BY <1>3, <2>2 DEF OneFlush
<1>6. m + 1 \in 1..Len(r)
  BY <1>3
<1>7. RemoveFirst(r, Flush) = RemoveAt(r, m + 1)
  BY <1>3, <1>5, <1>6, FlushRemoved
<1>8. /\ RemoveAt(r, m+1) \in Seq(Nat) /\ Len(RemoveAt(r, m+1)) = m
      /\ \A i \in 1..m : RemoveAt(r, m+1)[i] = IF i < m + 1 THEN r[i] ELSE r[i+1]
  <2>1. m + 1 \in 1..(m+1) /\ Len(r) = m + 1
    BY <1>3
  <2> QED BY <2>1, RemovedAtOf
<1>9. ASSUME NEW i \in 1..m PROVE RemoveAt(r, m+1)[i] = q[i]
  <2>1. i < m + 1 /\ RemoveAt(r, m+1)[i] = IF i < m + 1 THEN r[i] ELSE r[i+1]
    BY <1>8
  <2>2. RemoveAt(r, m+1)[i] = r[i]
    BY <2>1
  <2> QED BY <1>3, <2>2
<1>10. RemoveAt(r, m+1) = q
  BY <1>2, <1>8, <1>9, SeqEqual
<1>11. RemoveFirst(q, Flush) = q
  BY NoFlushToRemove
<1> QED BY <1>1, <1>5, <1>7, <1>10, <1>11

\* What the writer finds at the head of the channel.
LEMMA HeadTaken ==
  ASSUME NEW q \in Seq(Nat), q # <<>>, OneFlush(q)
  PROVE  /\ OneFlush(Tail(q))
         /\ RemoveFirst(q, Flush) = IF Head(q) = Flush THEN RemoveFirst(Tail(q), Flush)
                                    ELSE <<Head(q)>> \o RemoveFirst(Tail(q), Flush)
<1>1. PICK m \in Nat \ {0} : m = Len(q)
  OBVIOUS
<1>2. PICK r \in Seq(Nat) : r = Tail(q)
  <2>1. Tail(q) \in Seq(Nat)
    OBVIOUS
  <2> QED BY <2>1
<1>3. Len(r) = m - 1 /\ \A i \in 1..(m-1) : r[i] = q[i+1]
  BY <1>1, <1>2
<1>4. Head(q) = q[1] /\ 1 \in 1..m /\ q[1] \in Nat
  BY <1>1
<1>5. \A i \in 1..(m-1) : i + 1 \in 1..m
  OBVIOUS
<1>6. OneFlush(r)
  <2>1. ASSUME NEW i \in 1..(m-1), NEW j \in 1..(m-1), r[i] = Flush, r[j] = Flush
        PROVE  i = j
    <3>1. i + 1 = j + 1
      BY <1>1, <1>3, <1>5, <2>1 DEF OneFlush
    <3> QED BY <3>1
  <2> QED BY <1>3, <2>1 DEF OneFlush
<1>7. \A i \in 2..m : i - 1 \in 1..(m-1) /\ (i - 1) + 1 = i
  OBVIOUS
<1>8. CASE q[1] = Flush
  <2>1. \A i \in 1..(m-1) : r[i] # Flush
    <3>1. \A i \in 1..(m-1) : i + 1 # 1
      OBVIOUS
    <3> QED BY <1>1, <1>3, <1>4, <1>5, <1>8, <3>1 DEF OneFlush
  <2>2. RemoveFirst(r, Flush) = r
    BY <1>3, <2>1, NoFlushToRemove
  <2>3. RemoveFirst(q, Flush) = RemoveAt(q, 1)
    BY <1>1, <1>4, <1>8, FlushRemoved
  <2>4. /\ RemoveAt(q, 1) \in Seq(Nat) /\ Len(RemoveAt(q, 1)) = m - 1
        /\ \A i \in 1..(m-1) : RemoveAt(q, 1)[i] = IF i < 1 THEN q[i] ELSE q[i+1]
    BY <1>1, <1>4, RemovedAt
  <2>5. \A i \in 1..(m-1) : RemoveAt(q, 1)[i] = r[i]
    BY <1>3, <2>4
  <2>6. RemoveAt(q, 1) = r
    BY <1>3, <2>4, <2>5, SeqEqual
  <2> QED BY <1>2, <1>4, <1>6, <1>8, <2>2, <2>3, <2>6
<1>9. CASE q[1] # Flush
  <2>1. PICK h \in Seq(Nat) : h = <<q[1]>>
    <3>1. <<q[1]>> \in Seq(Nat)
      BY <1>4
    <3> QED BY <3>1
  <2>2. Len(h) = 1 /\ h[1] = q[1]
    BY <2>1
  <2>3. ASSUME NEW u \in Seq(Nat)
        PROVE  /\ h \o u \in Seq(Nat) /\ Len(h \o u) = 1 + Len(u)
               /\ (h \o u)[1] = q[1]
               /\ \A i \in 2..(1 + Len(u)) : (h \o u)[i] = u[i-1]
    <3>1. /\ h \o u \in Seq(Nat) /\ Len(h \o u) = Len(h) + Len(u)
          /\ \A i \in 1..(Len(h)+Len(u)) :
               (h \o u)[i] = IF i <= Len(h) THEN h[i] ELSE u[i - Len(h)]
      BY ConcatProperties
    <3>2. Len(u) \in Nat
      OBVIOUS
    <3> QED BY <2>2, <3>1, <3>2
  <2>4. CASE \A i \in 1..m : q[i] # Flush
    <3>1. \A i \in 1..(m-1) : r[i] # Flush
      BY <1>3, <1>5, <2>4
    <3>2. RemoveFirst(r, Flush) = r /\ RemoveFirst(q, Flush) = q
      BY <1>1, <1>3, <2>4, <3>1, NoFlushToRemove
    <3>3. /\ h \o r \in Seq(Nat) /\ Len(h \o r) = m /\ (h \o r)[1] = q[1]
          /\ \A i \in 2..m : (h \o r)[i] = r[i-1]
      BY <1>3, <2>3
    <3>4. \A i \in 1..m : (h \o r)[i] = q[i]
      <4>1. \A i \in 2..m : r[i-1] = q[i]
        BY <1>3, <1>7
      <4>2. \A i \in 1..m : i = 1 \/ i \in 2..m
        OBVIOUS
      <4> QED BY <3>3, <4>1, <4>2
    <3>5. h \o r = q
      BY <1>1, <3>3, <3>4, SeqEqual
    <3> QED BY <1>2, <1>4, <1>6, <1>9, <2>1, <3>2, <3>5
  <2>5. CASE \E i \in 1..m : q[i] = Flush
    <3>1. PICK k \in 2..m : q[k] = Flush
      BY <1>9, <2>5
    <3>2. k \in 1..Len(q) /\ k - 1 \in 1..Len(r) /\ r[k-1] = Flush /\ k \in Nat /\ k - 1 \in Nat
      BY <1>1, <1>3, <1>7, <3>1
    <3>3. RemoveFirst(q, Flush) = RemoveAt(q, k) /\ RemoveFirst(r, Flush) = RemoveAt(r, k-1)
      BY <1>6, <3>1, <3>2, FlushRemoved
    <3>4. /\ RemoveAt(q, k) \in Seq(Nat) /\ Len(RemoveAt(q, k)) = m - 1
          /\ \A i \in 1..(m-1) : RemoveAt(q, k)[i] = IF i < k THEN q[i] ELSE q[i+1]
      BY <1>1, <3>2, RemovedAt
    <3>5. PICK u \in Seq(Nat) : u = RemoveAt(r, k-1)
      BY <3>2, RemovedAt
    <3>6. /\ Len(u) = m - 2
          /\ \A i \in 1..(m-2) : u[i] = IF i < k-1 THEN r[i] ELSE r[i+1]
      <4>1. m - 2 \in Nat /\ Len(r) = (m - 2) + 1 /\ k - 1 \in 1..((m-2)+1)
        BY <1>3, <3>1
      <4>2. /\ Len(RemoveAt(r, k-1)) = m - 2
            /\ \A i \in 1..(m-2) : RemoveAt(r, k-1)[i] = IF i < k-1 THEN r[i] ELSE r[i+1]
        BY <4>1, RemovedAtOf
      <4> QED BY <3>5, <4>2
    <3>7. /\ h \o u \in Seq(Nat) /\ Len(h \o u) = m - 1 /\ (h \o u)[1] = q[1]
          /\ \A i \in 2..(m-1) : (h \o u)[i] = u[i-1]
      <4>1. 1 + Len(u) = m - 1
        BY <3>6
      <4>2. /\ h \o u \in Seq(Nat) /\ Len(h \o u) = 1 + Len(u) /\ (h \o u)[1] = q[1]
            /\ \A i \in 2..(1 + Len(u)) : (h \o u)[i] = u[i-1]
        BY <2>3
      <4> QED BY <4>1, <4>2
    <3>8. ASSUME NEW i \in 1..(m-1) PROVE RemoveAt(q, k)[i] = (h \o u)[i]
      <4>1. CASE i = 1
        <5>1. 1 < k /\ RemoveAt(q, k)[i] = IF i < k THEN q[i] ELSE q[i+1]
          BY <3>1, <3>4
        <5>2. RemoveAt(q, k)[1] = q[1]
          BY <4>1, <5>1
        <5> QED BY <3>7, <4>1, <5>2
      <4>2. CASE i # 1
        <5>1. i \in 2..(m-1) /\ i - 1 \in 1..(m-2) /\ i - 1 \in 1..(m-1) /\ i \in 1..(m-1)
          BY <4>2
        <5>2. (h \o u)[i] = u[i-1]
          BY <3>7, <5>1
        <5>3. u[i-1] = IF i - 1 < k - 1 THEN r[i-1] ELSE r[(i-1)+1]
          BY <3>6, <5>1
        <5>4. r[i-1] = q[(i-1)+1] /\ r[i] = q[i+1] /\ (i - 1) + 1 = i
          BY <1>3, <5>1
        <5>5. i - 1 < k - 1 <=> i < k
          BY <3>1
        <5>6. RemoveAt(q, k)[i] = IF i < k THEN q[i] ELSE q[i+1]
          BY <3>4
        <5>7. CASE i < k
          <6>1. RemoveAt(q, k)[i] = q[i]
            BY <5>6, <5>7
          <6>2. (h \o u)[i] = q[i]
            BY <5>2, <5>3, <5>4, <5>5, <5>7
          <6> QED BY <6>1, <6>2
        <5>8. CASE ~(i < k)
          <6>1. RemoveAt(q, k)[i] = q[i+1]
            BY <5>6, <5>8
          <6>2. (h \o u)[i] = q[i+1]
            BY <5>2, <5>3, <5>4, <5>5, <5>8
          <6> QED BY <6>1, <6>2
        <5> QED BY <5>7, <5>8
      <4> QED BY <4>1, <4>2
    <3>9. RemoveAt(q, k) = h \o u
      BY <3>4, <3>7, <3>8, SeqEqual
    <3> QED BY <1>2, <1>4, <1>6, <1>9, <2>1, <3>3, <3>5, <3>9
  <2> QED BY <2>4, <2>5
<1> QED BY <1>4, <1>8, <1>9

-----------------------------------------------------------------------------
(* The audit log implements its ledger.                                    *)

LedgerInv == ServerInv /\ OneFlush(queue)

\* What the steps of the ledger need to know of its two variables.
LEMMA PendingParts ==
  ASSUME LedgerInv
  PROVE  /\ queue \in Seq(Nat) /\ RemoveFirst(queue, Flush) \in Seq(Nat)
         /\ handed \in Nat /\ hand \in Nat
         /\ hand = 0 => Pending = RemoveFirst(queue, Flush)
         /\ hand # 0 => /\ Pending # <<>> /\ Head(Pending) = hand
                        /\ Tail(Pending) = RemoveFirst(queue, Flush)
         /\ \A i \in DOMAIN Pending : Pending[i] <= handed
         /\ DOMAIN log = 1..Len(log) /\ \A i \in DOMAIN log : log[i].id <= handed
<1>1. /\ queue \in Seq(Nat) /\ handed \in Nat /\ hand \in Nat /\ hand <= handed
      /\ OneFlush(queue) /\ \A i \in 1..Len(queue) : queue[i] <= handed
      /\ DOMAIN log = 1..Len(log) /\ \A i \in DOMAIN log : log[i].id <= handed
  BY DEF LedgerInv, ServerInv, DropInv, RecordInv
<1>2. PICK r \in Seq(Nat) : r = RemoveFirst(queue, Flush)
  BY <1>1, RecordsType
<1>3. \A i \in 1..Len(r) : r[i] <= handed
  BY <1>1, <1>2, RecordsType
<1>4. CASE hand = 0
  <2>1. Pending = r
    BY <1>2, <1>4 DEF Pending
  <2> QED BY <1>1, <1>2, <1>3, <1>4, <2>1
<1>5. CASE hand # 0
  <2>1. PICK h \in Seq(Nat) : h = <<hand>>
    <3>1. <<hand>> \in Seq(Nat)
      BY <1>1
    <3> QED BY <3>1
  <2>2. Len(h) = 1 /\ h[1] = hand
    BY <2>1
  <2>3. PICK p : p = h \o r
    OBVIOUS
  <2>4. Pending = p
    BY <1>2, <1>5, <2>1, <2>3 DEF Pending
  <2>5. PICK n \in Nat : n = Len(r)
    OBVIOUS
  <2>6. /\ p \in Seq(Nat) /\ Len(p) = 1 + n
        /\ \A i \in 1..(1+n) : p[i] = IF i <= 1 THEN h[i] ELSE r[i-1]
    <3>1. /\ h \o r \in Seq(Nat) /\ Len(h \o r) = Len(h) + Len(r)
          /\ \A i \in 1..(Len(h)+Len(r)) :
               (h \o r)[i] = IF i <= Len(h) THEN h[i] ELSE r[i - Len(h)]
      BY ConcatProperties
    <3> QED BY <2>2, <2>3, <2>5, <3>1
  <2>7. p[1] = hand /\ p # <<>> /\ Head(p) = hand
    BY <2>2, <2>6
  <2>8. ASSUME NEW i \in 2..(1+n) PROVE p[i] = r[i-1] /\ i - 1 \in 1..n
    <3>1. i \in 1..(1+n) /\ ~(i <= 1) /\ i - 1 \in 1..n
      OBVIOUS
    <3>2. p[i] = IF i <= 1 THEN h[i] ELSE r[i-1]
      BY <2>6, <3>1
    <3> QED BY <3>1, <3>2
  <2>9. \A i \in 1..(1+n) : p[i] <= handed
    <3>1. \A i \in 1..(1+n) : i = 1 \/ i \in 2..(1+n)
      OBVIOUS
    <3> QED BY <1>1, <1>3, <2>5, <2>7, <2>8, <3>1
  <2>10. Tail(p) = r
    <3>1. Tail(p) \in Seq(Nat) /\ Len(Tail(p)) = n /\ \A i \in 1..n : Tail(p)[i] = p[i+1]
      BY <2>6, <2>7
    <3>2. \A i \in 1..n : i + 1 \in 2..(1+n) /\ (i + 1) - 1 = i
      OBVIOUS
    <3>3. \A i \in 1..n : Tail(p)[i] = r[i]
      BY <2>8, <3>1, <3>2
    <3> QED BY <2>5, <3>1, <3>3, SeqEqual
  <2>11. DOMAIN p = 1..(1+n)
    BY <2>6
  <2> QED BY <1>1, <1>2, <1>5, <2>4, <2>7, <2>9, <2>10, <2>11
<1> QED BY <1>4, <1>5

\* The records pending, as a channel grows by a record.
LEMMA PendingGrows ==
  ASSUME LedgerInv, NEW c, Accept(c)
  PROVE  /\ Pending' = Append(Pending, handed + 1) /\ OneFlush(queue)'
         /\ handed + 1 \in 1..MaxRecords
<1>1. /\ queue \in Seq(Nat) /\ OneFlush(queue) /\ handed \in Nat /\ hand \in Nat
      /\ RemoveFirst(queue, Flush) \in Seq(Nat)
  BY PendingParts DEF LedgerInv
<1>2. /\ queue' = Append(queue, handed + 1) /\ hand' = hand
      /\ handed < MaxRecords
  BY DEF Accept, writerVars, fileVars
<1>3. handed + 1 \in Nat \ {Flush}
  BY <1>1 DEF Flush
<1>4. /\ RemoveFirst(queue', Flush) = Append(RemoveFirst(queue, Flush), handed + 1)
      /\ OneFlush(queue')
  BY <1>1, <1>2, <1>3, RecordAppended
<1>5. handed + 1 \in 1..MaxRecords
  BY <1>1, <1>2, AuditAssumption
<1>6. CASE hand = 0
  BY <1>2, <1>4, <1>5, <1>6, <1>1, PendingParts DEF Pending
<1>7. CASE hand # 0
  <2>1. PICK r \in Seq(Nat) : r = RemoveFirst(queue, Flush)
    BY <1>1
  <2>2. <<hand>> \o Append(r, handed + 1) = Append(<<hand>> \o r, handed + 1)
    BY <1>1, <1>3
  <2> QED BY <1>2, <1>4, <1>5, <1>7, <2>1, <2>2 DEF Pending
<1> QED BY <1>6, <1>7

LEMMA LedgerInvInit == ServerInit => LedgerInv /\ Ledger!LedgerInit
<1> SUFFICES ASSUME ServerInit PROVE LedgerInv /\ Ledger!LedgerInit
  OBVIOUS
<1>1. queue = <<>> /\ hand = 0 /\ log = <<>>
  BY DEF ServerInit, Init
<1>2. OneFlush(queue)
  BY <1>1 DEF OneFlush
<1>3. LedgerInv
  BY <1>2, ServerInitInv DEF LedgerInv
<1>4. queue \in Seq(Nat) /\ \A i \in 1..Len(queue) : queue[i] # Flush
  BY <1>1
<1>5. Pending = <<>>
  BY <1>1, <1>3, <1>4, PendingParts, NoFlushToRemove
<1>6. Lines = <<>>
  BY <1>1 DEF Lines
<1> QED BY <1>3, <1>5, <1>6 DEF Ledger!LedgerInit

\* Each step of the server is a step of the ledger or leaves it alone.
LEMMA LedgerStep ==
  LedgerInv /\ [ServerNext]_serverVars
    => OneFlush(queue)' /\ [Ledger!LedgerNext]_(Ledger!ledgerVars)
<1> SUFFICES ASSUME LedgerInv, [ServerNext]_serverVars
             PROVE  OneFlush(queue)' /\ [Ledger!LedgerNext]_(Ledger!ledgerVars)
  OBVIOUS
<1>0. /\ ServerInv /\ OneFlush(queue) /\ queue \in Seq(Nat) /\ handed \in Nat /\ hand \in Nat
      /\ log \in Seq(Line)
  BY PendingParts DEF LedgerInv, ServerInv, RecordInv
<1>a. ASSUME Pending' = Pending, log' = log PROVE [Ledger!LedgerNext]_(Ledger!ledgerVars)
  BY <1>a DEF Ledger!ledgerVars, Lines
<1>1. ASSUME NEW c \in Conns, Accept(c)
      PROVE  OneFlush(queue)' /\ [Ledger!LedgerNext]_(Ledger!ledgerVars)
  <2>1. /\ Pending' = Append(Pending, handed + 1) /\ OneFlush(queue)'
        /\ handed + 1 \in 1..MaxRecords
    BY <1>1, PendingGrows
  <2>2. Lines' = Lines
    BY <1>1 DEF Accept, writerVars, fileVars, Lines
  <2>3. Ledger!Newer(handed + 1)
    <3>1. \A i \in DOMAIN Pending : Pending[i] <= handed
      BY PendingParts
    <3>2. \A i \in DOMAIN Lines : Lines[i] <= handed
      BY PendingParts DEF Lines
    <3>3. \A i \in DOMAIN Pending : Pending[i] \in Nat
      <4>1. CASE hand = 0
        BY <1>0, <4>1, PendingParts
      <4>2. CASE hand # 0
        <5>1. PICK r \in Seq(Nat) : r = RemoveFirst(queue, Flush)
          BY PendingParts
        <5>2. Pending = <<hand>> \o r /\ <<hand>> \in Seq(Nat)
          BY <1>0, <4>2, <5>1 DEF Pending
        <5> QED BY <5>2
      <4> QED BY <4>1, <4>2
    <3>4. \A i \in DOMAIN Lines : Lines[i] \in Nat
      <4>1. DOMAIN Lines = DOMAIN log /\ \A i \in DOMAIN log : Lines[i] = log[i].id
        BY DEF Lines
      <4>2. \A i \in DOMAIN log : log[i] \in Line
        BY <1>0
      <4> QED BY <4>1, <4>2 DEF Line
    <3> QED BY <1>0, <3>1, <3>2, <3>3, <3>4 DEF Ledger!Newer
  <2>4. Ledger!Accepted(handed + 1)
    BY <2>1, <2>2 DEF Ledger!Accepted
  <2> QED BY <2>1, <2>3, <2>4 DEF Ledger!LedgerNext
<1>2. CASE StartFlush
  <2>1. /\ flush = "none" /\ hand' = hand /\ log' = log
        /\ queue' = queue \/ queue' = Append(queue, Flush)
    BY <1>2 DEF StartFlush, writerVars, fileVars
  <2>2. \A i \in 1..Len(queue) : queue[i] # Flush
    BY <1>0, <2>1 DEF ServerInv, FlushInv
  <2>3. RemoveFirst(queue', Flush) = RemoveFirst(queue, Flush) /\ OneFlush(queue')
    BY <1>0, <2>1, <2>2, FlushAppended
  <2>4. Pending' = Pending
    BY <2>1, <2>3 DEF Pending
  <2> QED BY <1>a, <2>1, <2>3, <2>4
<1>3. CASE TakeRecord \/ TakeFlush
  <2>1. /\ queue # <<>> /\ queue' = Tail(queue) /\ log' = log /\ hand = 0
        /\ Head(queue) # Flush => hand' = Head(queue)
        /\ Head(queue) = Flush => hand' = 0
    BY <1>0, <1>3 DEF TakeRecord, TakeFlush, writerVars, fileVars, ServerInv, RecordInv
  <2>2. /\ OneFlush(Tail(queue))
        /\ RemoveFirst(queue, Flush) =
             IF Head(queue) = Flush THEN RemoveFirst(Tail(queue), Flush)
             ELSE <<Head(queue)>> \o RemoveFirst(Tail(queue), Flush)
    BY <1>0, <2>1, HeadTaken
  <2>3. Pending = RemoveFirst(queue, Flush)
    BY <2>1, PendingParts
  <2>4. RemoveFirst(Tail(queue), Flush) \in Seq(Nat)
    <3>1. Tail(queue) \in Seq(Nat)
      BY <1>0, <2>1
    <3> QED BY <2>2, <3>1, RecordsType
  <2>5. Pending' = (IF hand' = 0 THEN <<>> ELSE <<hand'>>) \o RemoveFirst(Tail(queue), Flush)
    BY <2>1 DEF Pending
  <2>6. CASE Head(queue) = Flush
    BY <1>a, <2>1, <2>2, <2>3, <2>4, <2>5, <2>6
  <2>7. CASE Head(queue) # Flush
    <3>1. hand' # 0
      BY <2>1, <2>7 DEF Flush
    <3>2. Pending' = Pending
      BY <2>1, <2>2, <2>3, <2>5, <2>7, <3>1
    <3> QED BY <1>a, <2>1, <2>2, <3>2
  <2> QED BY <2>6, <2>7
<1>4. CASE WriteLine \/ LoseLine
  <2>1. /\ hand # 0 /\ hand' = 0 /\ queue' = queue
    BY <1>0, <1>4 DEF WriteLine, LoseLine, ServerInv, RecordInv
  <2>2. /\ Pending # <<>> /\ Head(Pending) = hand
        /\ Tail(Pending) = RemoveFirst(queue, Flush) /\ RemoveFirst(queue, Flush) \in Seq(Nat)
    BY <2>1, PendingParts
  <2>3. Pending' = Tail(Pending)
    BY <2>1, <2>2 DEF Pending
  <2>4. CASE LoseLine \/ torn
    <3>1. Lines' = Lines
      BY <1>4, <2>4 DEF WriteLine, LoseLine, Lines
    <3>2. Ledger!Lost
      BY <2>2, <2>3, <3>1 DEF Ledger!Lost
    <3> QED BY <1>0, <2>1, <3>2 DEF Ledger!LedgerNext
  <2>5. CASE WriteLine /\ ~torn
    <3>1. log' = Append(log, [id |-> hand, before |-> missed])
      BY <2>5 DEF WriteLine
    <3>2. PICK n \in Nat : n = Len(log)
      BY <1>0
    <3>3. [id |-> hand, before |-> missed] \in Line
      BY <1>0, <2>1 DEF Line, ServerInv, DropInv
    <3>4. /\ DOMAIN log = 1..n /\ DOMAIN log' = 1..(n+1)
          /\ \A i \in 1..n : log'[i] = log[i]
          /\ log'[n+1] = [id |-> hand, before |-> missed]
      BY <1>0, <3>1, <3>2, <3>3
    <3>5. /\ Lines \in Seq(Nat) /\ Len(Lines) = n /\ \A i \in 1..n : Lines[i] = log[i].id
      <4>1. Lines = [i \in 1..n |-> log[i].id]
        BY <3>4 DEF Lines
      <4>2. \A i \in 1..n : log[i].id \in Nat
        <5>1. \A i \in 1..n : log[i] \in Line
          BY <1>0, <3>2
        <5> QED BY <5>1 DEF Line
      <4> QED BY <4>1, <4>2
    <3>6. Lines' = [i \in 1..(n+1) |-> log'[i].id]
      BY <3>4 DEF Lines
    <3>7. Lines' = Append(Lines, hand)
      <4>1. \A i \in 1..(n+1) : i \in 1..n \/ i = n + 1
        OBVIOUS
      <4>2. PICK s \in Seq(Nat) : s = Append(Lines, hand)
        <5>1. Append(Lines, hand) \in Seq(Nat)
          BY <1>0, <3>5
        <5> QED BY <5>1
      <4>3. Len(s) = n + 1 /\ s[n+1] = hand /\ \A i \in 1..n : s[i] = log[i].id
        BY <1>0, <3>5, <4>2
      <4>4. \A i \in 1..(n+1) : log'[i].id = s[i]
        BY <3>4, <4>1, <4>3
      <4>5. s = [i \in 1..(n+1) |-> log'[i].id]
        BY <4>3, <4>4
      <4> QED BY <3>6, <4>2, <4>5
    <3>8. Ledger!Written
      BY <2>2, <2>3, <3>7 DEF Ledger!Written
    <3> QED BY <1>0, <2>1, <3>8 DEF Ledger!LedgerNext
  <2> QED BY <1>4, <2>4, <2>5
<1>5. CASE UNCHANGED <<log, hand, queue>>
  <2>1. Pending' = Pending
    BY <1>5 DEF Pending
  <2> QED BY <1>0, <1>5, <1>a, <2>1
<1>6. \/ \E c \in Conns : Accept(c)
      \/ StartFlush \/ TakeRecord \/ TakeFlush \/ WriteLine \/ LoseLine
      \/ UNCHANGED <<log, hand, queue>>
  BY DEF ServerNext, Accepting, Client, Handle, Shutdown, HangUp, ReadHead, ReadBody, HeadCut,
         BodyCut, Call, Panic, Recorded, StreamCut, Leave, TurnAway, Check, Look, Wait,
         AcceptFails, Signal, Refuse, Writer, SwapCount,
         Admit, StartDrain, EndDrain, GiveUpFlush, Stop, Deadline, WriteLog,
         CountDrop, FlushTimeout, serverVars, auditVars, writerVars, fileVars
<1> QED BY <1>1, <1>2, <1>3, <1>4, <1>5, <1>6

\* Whatever the number of connections and the size of the channel, each record
\* the channel accepts is settled once and in order, as a line of the log that
\* is that record and nothing else, or as lost; a write that fails in the middle
\* costs the record behind it too, but no line that was there before and no
\* second record (audit.rs:89-112, audit.rs:196).
THEOREM LedgerKept == ServerSpec => KeepsLedger
<1>1. ServerInv /\ [ServerNext]_serverVars => ServerInv'
  BY SlotStep, DropStep, RecordStep, FlushStep DEF ServerInv
<1>2. LedgerInv /\ [ServerNext]_serverVars => LedgerInv'
  BY <1>1, LedgerStep DEF LedgerInv
<1> QED BY LedgerInvInit, LedgerStep, <1>2, PTL DEF ServerSpec, KeepsLedger, Ledger!LedgerSpec
=============================================================================
