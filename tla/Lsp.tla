-------------------------------- MODULE Lsp --------------------------------
(***************************************************************************)
(* The language server client of src/lsp.rs as the watch command of        *)
(* src/main.rs uses it: one server is started at the first save and kept;  *)
(* every save opens the file's text, asks for its symbols and then for the *)
(* references to each, and gives up on the file at the first refusal.      *)
(*                                                                         *)
(* The server is another program.  As the client sees it, it reads what it *)
(* is sent, works on requests at its own pace and in any order, answers    *)
(* about the text it had when the request came or refuses with an error,   *)
(* and may exit at any time.  It primes its index once; until then it      *)
(* knows no reference.  A file is opened at every save and never closed,   *)
(* which the protocol forbids: the server may keep the text it has.  It    *)
(* sends no request but the one for a progress token, the only one the     *)
(* client declares a capability for.  The pipes never fill.                *)
(***************************************************************************)
EXTENDS Naturals, Sequences

CONSTANTS MaxSaves, \* bound: saves of the watched file, each with a new text
          MaxPings, \* bound: pings until the deadline of wait_until_ready
          Symbols   \* symbols of a text

ASSUME LspAssumption == {MaxSaves, MaxPings, Symbols} \subseteq Nat

VARIABLES saves,    \* texts saved so far, which number them
          slot,     \* servers[command]
          ready,    \* LspClient::ready
          nextId,   \* LspClient::next_id
          client,   \* what the client is at, the id it waits for, pings sent
          facts,    \* replies gathered for the text at hand
          recorded, \* the facts of each text that were put into the graph
          toServer, toClient, \* the pipes
          server    \* the other program

clientVars == <<saves, slot, ready, nextId, client, facts, recorded>>
vars == <<clientVars, toServer, toClient, server>>

Idle == [at |-> "idle", id |-> 0, pings |-> 0]
NoServer == [alive |-> FALSE, phase |-> "down", text |-> 0, work |-> {}]

Init ==
  /\ saves = 0 /\ slot = "vacant" /\ ready = FALSE /\ nextId = 1
  /\ client = Idle
  /\ facts = <<>>
  /\ recorded = [text \in {} |-> <<>>]
  /\ toServer = <<>> /\ toClient = <<>>
  /\ server = NoServer

Primed == server.phase = "primed"

\* LspClient::request: the request is sent and its reply awaited; the text it is
\* sent for is told by nothing in it and kept for the properties.
Ask(kind, before) ==
  /\ toServer' = toServer \o before \o <<[kind |-> kind, id |-> nextId, text |-> saves]>>
  /\ client' = [client EXCEPT !.at = kind, !.id = nextId]
  /\ nextId' = nextId + 1

Notice(kind, text) == [kind |-> kind, id |-> 0, text |-> text]

\* A save; the first one starts the server.
Save ==
  /\ client.at = "idle" /\ saves < MaxSaves
  /\ saves' = saves + 1
  /\ facts' = <<>>
  /\ CASE slot = "vacant" ->
            /\ slot' = "running"
            /\ server' = [NoServer EXCEPT !.alive = TRUE, !.phase = "up"]
            /\ Ask("initialize", <<>>)
       [] slot = "failed" -> UNCHANGED <<slot, server, client, nextId, toServer>>
       [] slot = "running" ->
            /\ client' = [client EXCEPT !.at = "opening"]
            /\ UNCHANGED <<slot, server, nextId, toServer>>
  /\ UNCHANGED <<ready, recorded, toClient>>

\* wait_until_ready: another ping, unless priming or the deadline is over or
\* the server no longer reads.
Ping ==
  /\ client.at = "readying" /\ ~ready /\ client.pings < MaxPings /\ server.alive
  /\ toServer' = Append(toServer, [kind |-> "ping", id |-> nextId, text |-> saves])
  /\ client' = [at |-> "ping", id |-> nextId, pings |-> client.pings + 1]
  /\ nextId' = nextId + 1
  /\ UNCHANGED <<saves, slot, ready, facts, recorded, toClient, server>>

StopWaiting ==
  /\ client.at = "readying"
  /\ client' = [client EXCEPT !.at = "opening"]
  /\ ready \/ client.pings > 0 \/ ~server.alive
  /\ UNCHANGED <<saves, slot, ready, nextId, facts, recorded, toServer, toClient, server>>

GiveUp == client' = [Idle EXCEPT !.pings = client.pings]

\* file_facts: the text, and the question what it declares.
Open ==
  /\ client.at = "opening"
  /\ IF server.alive
     THEN Ask("symbols", <<Notice("open", saves)>>)
     ELSE GiveUp /\ UNCHANGED <<nextId, toServer>>
  /\ UNCHANGED <<saves, slot, ready, facts, recorded, toClient, server>>

\* references refuses while the server is not ready.
Askable == ready /\ server.alive

\* Every symbol is dealt with; an error in place of the symbols leaves none.
Listed == Len(facts) > Symbols \/ facts[1].error

\* The next symbol, or all are done and the facts go into the graph.
NextSymbol ==
  /\ client.at = "listing"
  /\ CASE Listed ->
            /\ recorded' = [text \in DOMAIN recorded \cup {saves} |->
                             IF text = saves THEN facts ELSE recorded[text]]
            /\ GiveUp /\ UNCHANGED <<nextId, toServer>>
       [] ~Listed /\ Askable ->
            Ask("references", <<>>) /\ UNCHANGED recorded
       [] OTHER -> GiveUp /\ UNCHANGED <<recorded, nextId, toServer>>
  /\ UNCHANGED <<saves, slot, ready, facts, toClient, server>>

-----------------------------------------------------------------------------
\* await_response.

Awaiting == client.at \in {"initialize", "ping", "symbols", "references"}

\* What the caller makes of no answer; start drops the client, which kills it.
Unanswered ==
  CASE client.at = "initialize" ->
         slot' = "failed" /\ server' = NoServer /\ GiveUp
    [] client.at = "ping" ->
         client' = [client EXCEPT !.at = "readying"] /\ UNCHANGED <<slot, server>>
    [] OTHER -> GiveUp /\ UNCHANGED <<slot, server>>

\* What it makes of the answer.  start still has to say that it is initialized;
\* an error is null to the client, which only references takes for no answer.
Answered(message) ==
  IF \/ client.at = "initialize" /\ ~server.alive
     \/ client.at = "references" /\ message.error
  THEN Unanswered
  ELSE /\ client' = [client EXCEPT !.at =
                      IF client.at \in {"initialize", "ping"} THEN "readying" ELSE "listing"]
       /\ UNCHANGED <<slot, server>>

\* Faulty variant: whatever reply comes is the one awaited.
IsAnyReply(message) == message.kind = "reply"

IsReply(message) == message.kind = "reply" /\ message.id = client.id

EndsPriming(message) == message.kind = "progress" /\ message.token = "cachePriming"

\* Faulty variant: the server's request is passed over like its progress.
PassesOver(message) ==
  IF IsReply(message) /\ client.at = "initialize" THEN <<Notice("initialized", 0)>> ELSE <<>>

\* What is sent because of the message: the token the server waits for.
Response(message) ==
  CASE message.kind = "create" -> <<Notice("granted", 0)>>
    [] IsReply(message) /\ client.at = "initialize" -> <<Notice("initialized", 0)>>
    [] OTHER -> <<>>

\* One turn of the loop.  The deadline is looked at between two messages only.
ReadMessage ==
  /\ Awaiting /\ toClient # <<>>
  /\ LET message == Head(toClient) IN
       /\ ready' = (ready \/ EndsPriming(message))
       /\ toServer' = IF server.alive THEN toServer \o Response(message) ELSE toServer
       /\ CASE IsReply(message) -> Answered(message)
            [] message.kind = "create" /\ ~server.alive -> Unanswered
            [] OTHER -> Unanswered \/ UNCHANGED <<client, slot, server>>
       /\ facts' = IF IsReply(message) /\ client.at \in {"symbols", "references"}
                   THEN Append(facts, message) ELSE facts
  /\ toClient' = Tail(toClient)
  /\ UNCHANGED <<saves, nextId, recorded>>

\* The server has exited and all it wrote is read.
ReadEnd ==
  /\ Awaiting /\ toClient = <<>> /\ ~server.alive
  /\ Unanswered
  /\ UNCHANGED <<saves, ready, nextId, facts, recorded, toServer, toClient>>

Client == Ping \/ StopWaiting \/ Open \/ NextSymbol \/ ReadMessage \/ ReadEnd

-----------------------------------------------------------------------------
\* The server.

Says(message) == toClient' = Append(toClient, message)

\* The text it has once a file is opened, and opened again.
Texts(opened) == IF server.text = 0 THEN {opened} ELSE {opened, server.text}

\* To the client an error is as good as another answer, but for these two.
Errors(kind) == {FALSE} \cup {kind \in {"symbols", "references"}}

\* It reads what it is sent.  A request is about the text and the index of now.
Take ==
  /\ server.alive /\ toServer # <<>>
  /\ LET message == Head(toServer) IN
     \E text \in Texts(message.text), error \in Errors(message.kind) :
       server' = CASE message.kind = "open" -> [server EXCEPT !.text = text]
                   [] message.kind = "initialized" -> [server EXCEPT !.phase = "fresh"]
                   [] message.kind = "granted" -> [server EXCEPT !.phase = "granted"]
                   [] OTHER -> [server EXCEPT !.work = @ \cup
                        {[kind |-> "reply", id |-> message.id, to |-> message.kind,
                          about |-> message.text, text |-> server.text,
                          primed |-> Primed, error |-> error]}]
  /\ toServer' = Tail(toServer)
  /\ UNCHANGED <<clientVars, toClient>>

\* It answers, in any order, but not while it waits for its token.
Answer ==
  /\ server.alive /\ server.phase # "asking"
  /\ \E reply \in server.work :
       Says(reply) /\ server' = [server EXCEPT !.work = @ \ {reply}]
  /\ UNCHANGED <<clientVars, toServer>>

\* It asks for the token it reports against, ends another task, then primes.
Report ==
  /\ server.alive
  /\ \/ /\ server.phase = "fresh"
        /\ Says([kind |-> "create"]) /\ server' = [server EXCEPT !.phase = "asking"]
     \/ /\ server.phase = "granted"
        /\ Says([kind |-> "progress", token |-> "rootsScanned"])
        /\ server' = [server EXCEPT !.phase = "scanned"]
     \/ /\ server.phase = "scanned"
        /\ Says([kind |-> "progress", token |-> "cachePriming"])
        /\ server' = [server EXCEPT !.phase = "primed"]
  /\ UNCHANGED <<clientVars, toServer>>

Exit ==
  /\ server.alive
  /\ server' = [server EXCEPT !.alive = FALSE]
  /\ UNCHANGED <<clientVars, toServer, toClient>>

Next == Save \/ Client \/ Take \/ Answer \/ Report \/ Exit

LspSpec == Init /\ [][Next]_vars

\* The client runs, and a server that has not exited gets on with its work.
ClientFairness == WF_vars(Client)

LspFairness == ClientFairness /\ WF_vars(Take) /\ WF_vars(Answer) /\ WF_vars(Report)

-----------------------------------------------------------------------------
\* The facts recorded as compiler-verified are replies to the questions asked
\* at that very save, all of them about one text that the server was given: the
\* symbols first, then a reference list for each, which is no error and comes
\* from a server that had primed its index.  A late answer to an earlier
\* question, or the empty list of an unready server, is never taken for one
\* (lsp.rs:170, 231, 303-306).
FactsAreVerified ==
  \A text \in DOMAIN recorded :
    LET replies == recorded[text] IN
      /\ Len(replies) = IF replies[1].error THEN 1 ELSE Symbols + 1
      /\ \A i \in DOMAIN replies :
           /\ replies[i].about = text
           /\ replies[i].text = replies[1].text /\ replies[i].text # 0
           /\ replies[i].to = IF i = 1 THEN "symbols" ELSE "references"
           /\ i > 1 => /\ replies[i].primed /\ ~replies[i].error
                       /\ replies[i-1].id < replies[i].id

\* With a server that gets on, every save is dealt with in the end, with facts
\* or without: neither the client nor the server waits for the other, which
\* waits for it (lsp.rs:164-168, 185-189).
SavesAreHandled == client.at # "idle" ~> client.at = "idle"

\* "Per-request ceiling once the server is up, so one wedged query cannot stall
\* the watcher" (lsp.rs:31-33), whatever the server does.
WedgedQueryEnds == client.at = "symbols" ~> client.at # "symbols"

\* "Tells the server a file's current contents" (lsp.rs:183): what is recorded
\* for a text is about that text.
FactsAreOfTheSave ==
  \A text \in DOMAIN recorded : \A i \in DOMAIN recorded[text] : recorded[text][i].text = text

\* "A refusal means the server is not ready ... so give up on the file rather than
\* record a lie" (lsp.rs:323-325): no error is recorded
\* as the facts of a file, in the place of what the graph had.
ErrorsAreNotRecorded == \A text \in DOMAIN recorded : ~recorded[text][1].error
=============================================================================
