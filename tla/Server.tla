------------------------------- MODULE Server -------------------------------
(***************************************************************************)
(* The HTTP server of src/http.rs: the accept loop and its limit, one      *)
(* thread per connection, and the shutdown that drains the connections and *)
(* flushes the audit log.                                                  *)
(*                                                                         *)
(* A connection is used once, and waits to be accepted from the start.     *)
(* What it asks is one of three kinds: a tool call, an event stream, or    *)
(* anything else, which is answered or refused without a change of what    *)
(* the threads share.  What probes and streams report is in Serve.         *)
(***************************************************************************)
EXTENDS Audit

CONSTANTS Conns,     \* connections clients may open
          Untrusted, \* those that come from outside the control plane's CIDR
          MaxConns,  \* MAX_CONNECTIONS
          Asks       \* bound: what each connection may turn out to ask

ASSUME ServerAssumption ==
  /\ IsFiniteSet(Conns)
  /\ Untrusted \subseteq Conns
  /\ MaxConns \in Nat \ {0}
  /\ Asks \in [Conns -> SUBSET {"body", "streaming", "leaving"}]

VARIABLES loop,      \* the accept loop, then the shutdown
          admitted,  \* the connection the loop has room for, in a set
          shutdown,  \* SHUTDOWN_REQUESTED
          expired,   \* whether the drain's deadline has passed
          live,      \* the connection count
          phase,     \* what each connection is at
          hungup     \* connections whose client has closed its end

loopVars == <<loop, admitted, shutdown, expired>>
serverVars == <<auditVars, loopVars, live, phase, hungup>>

Phases == {"knocking", "head", "body", "calling", "recorded", "streaming",
           "leaving", "gone"}

\* The connections a thread of the server's holds a slot for.
Threads == {c \in Conns : phase[c] \notin {"knocking", "gone"}}

ServerInit ==
  /\ Init
  /\ loop = "looking" /\ admitted = {}
  /\ shutdown = FALSE /\ expired = FALSE
  /\ live = 0
  /\ phase = [c \in Conns |-> "knocking"]
  /\ hungup = {}

Move(c, from, to) ==
  /\ phase[c] = from
  /\ phase' = [phase EXCEPT ![c] = to]

-----------------------------------------------------------------------------
(* The clients and the operator.                                           *)

HangUp(c) ==
  /\ c \in Threads \ hungup
  /\ hungup' = hungup \cup {c}
  /\ UNCHANGED <<auditVars, loopVars, live, phase>>

Signal ==
  /\ ~shutdown
  /\ shutdown' = TRUE
  /\ UNCHANGED <<auditVars, loop, admitted, expired, live, phase, hungup>>

-----------------------------------------------------------------------------
(* The accept loop of serve_on.                                            *)

\* The limit is checked by a load ...
HasSlot == live < MaxConns

\* The flag is looked at between two connections: one that is accepted next
\* is served even if the signal comes now.
Look ==
  /\ loop = "looking" /\ ~shutdown
  /\ loop' = "accepting"
  /\ UNCHANGED <<auditVars, admitted, shutdown, expired, live, phase, hungup>>

\* Nobody knocks for a while.
Wait ==
  /\ loop = "accepting"
  /\ loop' = "looking"
  /\ UNCHANGED <<auditVars, admitted, shutdown, expired, live, phase, hungup>>

\* Any other error of accept ends serve_on there: no drain and no flush.
AcceptFails ==
  /\ loop = "accepting"
  /\ loop' = "failed"
  /\ UNCHANGED <<auditVars, admitted, shutdown, expired, live, phase, hungup>>

\* A peer outside the CIDR is dropped without a word, and one that finds the
\* server full is told so.
TurnAway(c) ==
  /\ loop = "accepting"
  /\ c \in Untrusted \/ ~HasSlot
  /\ Move(c, "knocking", "gone")
  /\ loop' = "looking"
  /\ UNCHANGED <<auditVars, admitted, shutdown, expired, live, hungup>>

Check(c) ==
  /\ loop = "accepting"
  /\ phase[c] = "knocking" /\ c \notin Untrusted
  /\ HasSlot
  /\ loop' = "admitting" /\ admitted' = {c}
  /\ UNCHANGED <<auditVars, shutdown, expired, live, phase, hungup>>

\* ... and the slot is taken by a later add, with the thread.
Admit ==
  /\ loop = "admitting"
  /\ \E c \in admitted : Move(c, "knocking", "head")
  /\ live' = live + 1
  /\ loop' = "looking" /\ admitted' = {}
  /\ UNCHANGED <<auditVars, shutdown, expired, hungup>>

StartDrain ==
  /\ loop = "looking" /\ shutdown
  /\ loop' = "draining"
  /\ UNCHANGED <<auditVars, admitted, shutdown, expired, live, phase, hungup>>

Deadline ==
  /\ loop = "draining" /\ ~expired
  /\ expired' = TRUE
  /\ UNCHANGED <<auditVars, loop, admitted, shutdown, live, phase, hungup>>

\* Faulty variant: the drain waits for every connection, however long.
WaitsForAll == live = 0

\* Faulty variant: the log is flushed without waiting for the requests.
WaitsForNone == TRUE

Drained == live = 0 \/ expired

EndDrain ==
  /\ loop = "draining" /\ Drained
  /\ StartFlush
  /\ loop' = "flushing"
  /\ UNCHANGED <<admitted, shutdown, expired, live, phase, hungup>>

GiveUpFlush ==
  /\ loop = "flushing"
  /\ FlushTimeout
  /\ UNCHANGED <<loopVars, live, phase, hungup>>

\* serve_on returns and the process ends, with every thread it still has.
Stop ==
  /\ loop = "flushing" /\ flush \in {"done", "failed"}
  /\ loop' = "stopped"
  /\ UNCHANGED <<auditVars, admitted, shutdown, expired, live, phase, hungup>>

Shutdown == StartDrain \/ EndDrain \/ GiveUpFlush \/ Stop

-----------------------------------------------------------------------------
(* A connection's thread: handle_connection.                               *)

\* The head arrives.  A tool call still has its body to read; a request that
\* is refused, malformed or about nothing shared is answered at once.
ReadHead(c) ==
  /\ c \notin hungup
  /\ \E next \in Asks[c] : Move(c, "head", next)
  /\ UNCHANGED <<auditVars, loopVars, live, hungup>>

\* The read finds the connection closed.  A client that stays silent instead
\* makes the read time out, and read_line_retry reads again, without end.
HeadCut(c) ==
  /\ c \in hungup
  /\ Move(c, "head", "leaving")
  /\ UNCHANGED <<auditVars, loopVars, live, hungup>>

ReadBody(c) ==
  /\ c \notin hungup
  /\ Move(c, "body", "calling")
  /\ UNCHANGED <<auditVars, loopVars, live, hungup>>

\* read_exact is not retried: the connection ends with the client or with the
\* first read that times out.
BodyCut(c) ==
  /\ Move(c, "body", "leaving")
  /\ UNCHANGED <<auditVars, loopVars, live, hungup>>

\* The call is answered and recorded; the reply is written once it is.
Call(c) ==
  /\ \/ Accept(c) /\ Move(c, "calling", "leaving")
     \/ Refuse(c) /\ Move(c, "calling", "recorded")
  /\ UNCHANGED <<loopVars, live, hungup>>

\* A panic in a tool ends the thread without a record.
Panic(c) ==
  /\ Move(c, "calling", "leaving")
  /\ UNCHANGED <<auditVars, loopVars, live, hungup>>

\* A record the channel did not take is counted before the reply is written.
Recorded(c) ==
  /\ CountDrop(c)
  /\ Move(c, "recorded", "leaving")
  /\ UNCHANGED <<loopVars, live, hungup>>

\* Faulty variant: a stream that has nothing to report writes nothing, and so
\* never learns that its client has gone.
NeverEnds(c) ==
  /\ c \in hungup \ Conns
  /\ Move(c, "streaming", "leaving")
  /\ UNCHANGED <<auditVars, loopVars, live, hungup>>

\* An event or, after a quiet while, a keep-alive that cannot be written ends
\* a stream.
StreamCut(c) ==
  /\ c \in hungup
  /\ Move(c, "streaming", "leaving")
  /\ UNCHANGED <<auditVars, loopVars, live, hungup>>

\* Faulty variant: a slot is given back only by a client that waited for it.
KeepsSlot(c) ==
  /\ Move(c, "leaving", "gone")
  /\ live' = IF c \in hungup THEN live ELSE live - 1
  /\ UNCHANGED <<auditVars, loopVars, hungup>>

\* The reply is out or has failed; LiveGuard gives the slot back.
Leave(c) ==
  /\ Move(c, "leaving", "gone")
  /\ live' = live - 1
  /\ UNCHANGED <<auditVars, loopVars, hungup>>

\* What a thread does by itself, once its client has spoken or gone.
Handle(c) == HeadCut(c) \/ BodyCut(c) \/ Call(c) \/ Panic(c) \/ Recorded(c)
               \/ StreamCut(c) \/ Leave(c)

Client(c) == HangUp(c) \/ ReadHead(c) \/ ReadBody(c)

-----------------------------------------------------------------------------

WriteLog == Writer /\ UNCHANGED <<loopVars, live, phase, hungup>>

\* The process ends with serve_on, and every thread with it.
Runs == loop \notin {"stopped", "failed"}

Accepting == Look \/ Wait \/ (\E c \in Conns : TurnAway(c) \/ Check(c)) \/ Admit

ServerNext ==
  /\ Runs
  /\ \/ \E c \in Conns : Client(c) \/ Handle(c)
     \/ Signal \/ Accepting \/ AcceptFails \/ Shutdown \/ Deadline
     \/ WriteLog

ServerSpec == ServerInit /\ [][ServerNext]_serverVars

\* Threads are scheduled and time passes; nothing is assumed of the clients,
\* of the disk, or of when an operator stops the server.
FairServerSpec ==
  /\ ServerSpec
  /\ WF_serverVars(Runs /\ (Accepting \/ Shutdown))
  /\ WF_serverVars(Runs /\ Deadline)
  /\ \A c \in Conns : WF_serverVars(Runs /\ Handle(c))

-----------------------------------------------------------------------------
(* What the server promises.                                               *)

\* The count the limit is checked against is the number of connections being
\* served, whichever way their threads end, and never exceeds the limit: the
\* load and the later add of serve_on (http.rs:340) leave no room between
\* them, and LiveGuard gives each slot back once.
SlotsAreThreads == live = Cardinality(Threads) /\ live <= MaxConns

\* When the server stops after a drain and a flush that both ended in time,
\* and no write to the log failed, every call that handed over a record is a
\* line of the log or was dropped and counted (http.rs:390-398).
CallsAccountedAtExit ==
  loop = "stopped" /\ flush = "done" /\ ~expired /\ lost = {} =>
    /\ {log[i].id : i \in DOMAIN log} \cup refused = 1..handed
    /\ Cardinality(refused) = noted + missed + dropped

\* A listener that is asked to stop "drains work already admitted before
\* returning" (http.rs:45-46): it waits for every connection or its deadline.
DrainsBeforeReturning == shutdown /\ ~Runs => Threads = {} \/ expired

\* Once asked to stop the server stops, whatever its clients and its disk do:
\* an open stream holds the drain up to its deadline only (http.rs:391).
StopsInTime == shutdown ~> ~Runs

\* A connection whose client has gone, or whose request has been read, gives
\* its slot back.
SlotsComeBack ==
  \A c \in Conns :
    (c \in Threads /\ (c \in hungup \/ phase[c] \notin {"head", "streaming"}))
      ~> (c \notin Threads \/ ~Runs)

\* "A client that stops talking must not hold the slot forever" (http.rs:354),
\* and one that has not sent its request has stopped talking.
SilentClientsLeave ==
  \A c \in Conns : phase[c] = "head" ~> (phase[c] # "head" \/ ~Runs)
=============================================================================
