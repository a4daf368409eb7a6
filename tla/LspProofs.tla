------------------------------ MODULE LspProofs ------------------------------
(***************************************************************************)
(* The facts the client records are replies to its own questions about the *)
(* text at hand, for any number of saves, pings and symbols.               *)
(***************************************************************************)
EXTENDS Lsp, TLAPS

Asking == {"symbols", "references"}
Listing == {"symbols", "listing", "references"}
Before == {"initialize", "readying", "ping", "opening", "symbols"}

Questions == {"initialize", "ping", "symbols", "references"}
Sent == [kind : Questions \cup {"open", "initialized", "granted"}, id : Nat, text : Nat]
Reply == [kind : {"reply"}, id : Nat, to : Questions \cup {"open", "initialized", "granted"},
          about : Nat, text : Nat, primed : BOOLEAN, error : BOOLEAN]
Received == Reply \cup [kind : {"create"}]
              \cup [kind : {"progress"}, token : {"rootsScanned", "cachePriming"}]

Clients == [at : {"idle"} \cup Before \cup Listing, id : Nat, pings : Nat]
Servers == [alive : BOOLEAN, text : Nat, work : SUBSET Reply,
            phase : {"down", "up", "fresh", "asking", "granted", "scanned", "primed"}]

TypeInv ==
  /\ saves \in Nat /\ nextId \in Nat /\ ready \in BOOLEAN
  /\ slot \in {"vacant", "running", "failed"}
  /\ client \in Clients /\ server \in Servers
  /\ facts \in Seq(Reply)
  /\ toServer \in Seq(Sent) /\ toClient \in Seq(Received)

\* A reply the client may put among its facts as the i-th.
Suits(replies, i, text) ==
  /\ replies[i].about = text
  /\ replies[i].text = replies[1].text /\ replies[i].text # 0
  /\ replies[i].to = IF i = 1 THEN "symbols" ELSE "references"
  /\ i > 1 => /\ replies[i].primed /\ ~replies[i].error
              /\ replies[i - 1].id < replies[i].id

\* What the client has gathered for the text at hand ...
FactsInv ==
  /\ client.at \in Listing =>
       /\ Len(facts) <= Symbols + 1
       /\ \A i \in 1..Len(facts) : Suits(facts, i, saves) /\ facts[i].id < nextId
       /\ Len(facts) > 1 => ~facts[1].error
  /\ client.at \in Before => Len(facts) = 0
  /\ client.at \in {"references", "listing"} => Len(facts) # 0
  /\ client.at = "references" =>
       /\ Len(facts) <= Symbols /\ ~facts[1].error
       /\ \A i \in 1..Len(facts) : facts[i].id < client.id

\* ... and what it has put into the graph.
RecordedInv ==
  \A text \in DOMAIN recorded :
    /\ Len(recorded[text]) = IF recorded[text][1].error THEN 1 ELSE Symbols + 1
    /\ DOMAIN recorded[text] = 1..Len(recorded[text])
    /\ \A i \in 1..Len(recorded[text]) : Suits(recorded[text], i, text)

\* No text is on its way to the server from there on.
NoOpen(first) == \A j \in 1..Len(toServer) : first <= j => toServer[j].kind # "open"

\* Ids are fresh: a reply with the awaited id answers the question that is
\* awaited, about the text the server has, ...
Fits(reply) ==
  /\ reply.id < nextId
  /\ client.at \in Asking /\ reply.id = client.id =>
       /\ reply.to = client.at /\ reply.about = saves
       /\ NoOpen(1) /\ reply.text = server.text
       /\ client.at = "references" => reply.primed

\* ... and a request with that id is the one that was sent last, after the text.
Asks(i) ==
  /\ toServer[i].id < nextId
  /\ client.at \in Asking /\ toServer[i].id = client.id =>
       toServer[i].kind = client.at /\ toServer[i].text = saves /\ NoOpen(i)

IdsInv ==
  /\ client.at \in Asking => client.id < nextId
  /\ \A i \in 1..Len(toServer) : toServer[i].kind \in Questions => Asks(i)
  /\ \A i \in 1..Len(toClient) : toClient[i].kind = "reply" => Fits(toClient[i])
  /\ \A reply \in server.work : Fits(reply)

\* What is gathered is about the text the server has: none is on its way then.
TextInv ==
  /\ slot # "vacant" => saves # 0
  /\ \A i \in 1..Len(toServer) : toServer[i].kind = "open" => toServer[i].text # 0
  /\ client.at \in Listing =>
       /\ NoOpen(1) => server.text # 0
       /\ Len(facts) # 0 => NoOpen(1) /\ facts[1].text = server.text

\* How far the server has primed its index is told by what is in the pipes.
PrimingInv ==
  /\ client.at = "initialize" => server.phase = "up" /\ slot = "running"
  /\ client.at = "references" => ready
  /\ slot = "vacant" => ~ready /\ client.at = "idle" /\ toServer = <<>> /\ toClient = <<>>
  /\ slot \in {"vacant", "failed"} => ~server.alive
  /\ ready /\ server.alive => Primed
  /\ \A i \in 1..Len(toServer) :
       toServer[i].kind = "initialized" =>
         /\ server.phase = "up" /\ client.at # "initialize"
         /\ \A j \in 1..Len(toServer) : toServer[j].kind = "initialized" => j = i
  /\ \A i \in 1..Len(toServer) :
       toServer[i].kind = "granted" =>
         /\ server.phase = "asking"
         /\ \A j \in 1..Len(toServer) : toServer[j].kind = "granted" => j = i
         /\ \A j \in 1..Len(toClient) : toClient[j].kind # "create"
  /\ \A i \in 1..Len(toClient) :
       toClient[i].kind = "create" =>
         /\ server.phase = "asking"
         /\ \A j \in 1..Len(toClient) : toClient[j].kind = "create" => j = i
  /\ \A i \in 1..Len(toClient) :
       EndsPriming(toClient[i]) => server.phase = "primed"

LspInv == TypeInv /\ FactsInv /\ RecordedInv /\ IdsInv /\ TextInv /\ PrimingInv

-----------------------------------------------------------------------------

\* The records the actions put together.
LEMMA NoServerTypes == /\ NoServer \in Servers
                       /\ [NoServer EXCEPT !.alive = TRUE, !.phase = "up"] \in Servers
<1>1. {} \in SUBSET Reply
  OBVIOUS
<1> QED BY <1>1 DEF NoServer, Servers

LEMMA ClientsTypes ==
  ASSUME TypeInv
  PROVE  /\ [Idle EXCEPT !.pings = client.pings] \in Clients
         /\ \A at \in {"idle"} \cup Before \cup Listing : [client EXCEPT !.at = at] \in Clients
BY DEF TypeInv, Clients, Idle

\* At the start nothing is asked, known or in a pipe.
LEMMA InitInv == Init => LspInv
<1> SUFFICES ASSUME Init PROVE LspInv
  OBVIOUS
<1>1. TypeInv
  <2>1. Idle \in Clients
    BY DEF Idle, Clients
  <2>2. client \in Clients /\ server \in Servers
    BY <2>1, NoServerTypes DEF Init
  <2>3. facts \in Seq(Reply) /\ toServer \in Seq(Sent) /\ toClient \in Seq(Received)
    BY DEF Init
  <2>4. /\ saves \in Nat /\ nextId \in Nat /\ ready \in BOOLEAN
        /\ slot \in {"vacant", "running", "failed"}
    BY DEF Init
  <2> QED BY <2>2, <2>3, <2>4 DEF TypeInv
<1>2. FactsInv /\ RecordedInv /\ TextInv
  BY DEF Init, Idle, FactsInv, RecordedInv, TextInv, Before, Listing
<1>3. IdsInv /\ PrimingInv
  BY DEF Init, Idle, NoServer, IdsInv, PrimingInv, Asking
<1> QED BY <1>1, <1>2, <1>3 DEF LspInv

\* What the client sends is well typed, and so is what it hears.
LEMMA AskTypes ==
  ASSUME TypeInv, NEW kind \in Questions, NEW before \in Seq(Sent), Ask(kind, before)
  PROVE  /\ toServer' \in Seq(Sent) /\ nextId' \in Nat
         /\ client' = [at |-> kind, id |-> nextId, pings |-> client.pings]
<1>1. [kind |-> kind, id |-> nextId, text |-> saves] \in Sent
  BY DEF TypeInv, Sent
<1>2. toServer' = toServer \o before \o <<[kind |-> kind, id |-> nextId, text |-> saves]>>
  BY DEF Ask
<1>3. toServer \in Seq(Sent)
  BY DEF TypeInv
<1>4. toServer' \in Seq(Sent)
  BY <1>1, <1>2, <1>3
<1>5. nextId' = nextId + 1 /\ client' = [client EXCEPT !.at = kind, !.id = nextId]
  BY DEF Ask
<1>6. client' = [at |-> kind, id |-> nextId, pings |-> client.pings]
  BY <1>5 DEF TypeInv, Clients
<1>7. nextId' \in Nat
  BY <1>5 DEF TypeInv
<1> QED BY <1>4, <1>6, <1>7

\* What a caller makes of no answer is well typed.
LEMMA UnansweredTypes ==
  ASSUME TypeInv, Unanswered
  PROVE  /\ client' \in Clients /\ slot' \in {"vacant", "running", "failed"}
         /\ server' = server \/ server' = NoServer
<1>1. GiveUp => client' \in Clients
  BY ClientsTypes DEF GiveUp
<1>2. client.at = "ping" => client' \in Clients
  BY ClientsTypes DEF Unanswered, Before
<1>3. client.at # "ping" => GiveUp
  BY DEF Unanswered
<1>4. slot' \in {"vacant", "running", "failed"} /\ (server' = server \/ server' = NoServer)
  BY DEF Unanswered, TypeInv
<1> QED BY <1>1, <1>2, <1>3, <1>4

\* Every step of the client keeps the types ...
LEMMA ClientTypes == ASSUME TypeInv, Client \/ Save PROVE TypeInv'
<1>1. CASE Save
  <2>1. CASE slot = "vacant"
    <3>1. Ask("initialize", <<>>)
      BY <1>1, <2>1 DEF Save
    <3>2. <<>> \in Seq(Sent) /\ "initialize" \in Questions
      BY DEF Questions
    <3>3. /\ toServer' \in Seq(Sent) /\ nextId' \in Nat
          /\ client' = [at |-> "initialize", id |-> nextId, pings |-> client.pings]
      BY <3>1, <3>2, AskTypes
    <3>4. server' = [NoServer EXCEPT !.alive = TRUE, !.phase = "up"] /\ slot' = "running"
      BY <1>1, <2>1 DEF Save
    <3>5. saves' = saves + 1 /\ facts' = <<>> /\ UNCHANGED <<ready, toClient>>
      BY <1>1 DEF Save
    <3>6. client' \in Clients
      BY <3>3 DEF TypeInv, Clients, Before
    <3> QED BY <3>3, <3>4, <3>5, <3>6, NoServerTypes DEF TypeInv
  <2>2. CASE slot = "failed"
    BY <1>1, <2>2 DEF Save, TypeInv
  <2>3. CASE slot = "running"
    <3>1. [client EXCEPT !.at = "opening"] \in Clients
      BY ClientsTypes DEF Before
    <3>2. client' = [client EXCEPT !.at = "opening"] /\ saves' = saves + 1 /\ facts' = <<>>
      BY <1>1, <2>3 DEF Save
    <3>3. UNCHANGED <<slot, server, nextId, toServer, ready, toClient>>
      BY <1>1, <2>3 DEF Save
    <3>4. client' \in Clients /\ facts' \in Seq(Reply) /\ saves' \in Nat
      BY <3>1, <3>2 DEF TypeInv
    <3> QED BY <3>3, <3>4 DEF TypeInv
  <2> QED BY <2>1, <2>2, <2>3 DEF TypeInv
<1>2. CASE Ping
  <2>1. [kind |-> "ping", id |-> nextId, text |-> saves] \in Sent
    BY DEF TypeInv, Sent, Questions
  <2>2. /\ toServer' = Append(toServer, [kind |-> "ping", id |-> nextId, text |-> saves])
        /\ client' = [at |-> "ping", id |-> nextId, pings |-> client.pings + 1]
        /\ nextId' = nextId + 1 /\ UNCHANGED <<saves, slot, ready, facts, toClient, server>>
    BY <1>2 DEF Ping
  <2>3. toServer' \in Seq(Sent)
    BY <2>1, <2>2 DEF TypeInv
  <2> QED BY <2>2, <2>3 DEF TypeInv, Clients, Before
<1>3. CASE StopWaiting
  BY <1>3, ClientsTypes DEF StopWaiting, TypeInv, Before
<1>4. CASE Open
  <2>1. CASE server.alive
    <3>1. Ask("symbols", <<Notice("open", saves)>>)
      BY <1>4, <2>1 DEF Open
    <3>2. <<Notice("open", saves)>> \in Seq(Sent) /\ "symbols" \in Questions
      BY DEF Questions, Notice, Sent, TypeInv
    <3>3. /\ toServer' \in Seq(Sent) /\ nextId' \in Nat
          /\ client' = [at |-> "symbols", id |-> nextId, pings |-> client.pings]
      BY <3>1, <3>2, AskTypes
    <3>4. client' \in Clients
      BY <3>3 DEF TypeInv, Clients, Before
    <3> QED BY <1>4, <3>3, <3>4 DEF Open, TypeInv
  <2>2. CASE ~server.alive
    BY <1>4, <2>2, ClientsTypes DEF Open, GiveUp, TypeInv
  <2> QED BY <2>1, <2>2
<1>5. CASE NextSymbol
  <2>1. CASE Ask("references", <<>>)
    <3>1. <<>> \in Seq(Sent) /\ "references" \in Questions
      BY DEF Questions
    <3>2. /\ toServer' \in Seq(Sent) /\ nextId' \in Nat
          /\ client' = [at |-> "references", id |-> nextId, pings |-> client.pings]
      BY <2>1, <3>1, AskTypes
    <3>3. client' \in Clients
      BY <3>2 DEF TypeInv, Clients, Listing
    <3> QED BY <1>5, <3>2, <3>3 DEF NextSymbol, TypeInv
  <2>2. CASE GiveUp /\ UNCHANGED <<nextId, toServer>>
    BY <1>5, <2>2, ClientsTypes DEF NextSymbol, GiveUp, TypeInv
  <2> QED BY <1>5, <2>1, <2>2 DEF NextSymbol, TypeInv
<1>6. CASE ReadMessage
  <2>1. PICK message : message = Head(toClient)
    OBVIOUS
  <2>2. toClient # <<>> /\ message \in Received /\ toClient' = Tail(toClient)
    BY <1>6, <2>1 DEF ReadMessage, TypeInv
  <2>3. toClient' \in Seq(Received)
    BY <2>2 DEF TypeInv
  <2>4. Response(message) \in Seq(Sent)
    <3>1. Notice("granted", 0) \in Sent /\ Notice("initialized", 0) \in Sent
      BY DEF Notice, Sent
    <3>2. \/ Response(message) = <<Notice("granted", 0)>>
          \/ Response(message) = <<Notice("initialized", 0)>>
          \/ Response(message) = <<>>
      BY DEF Response
    <3>3. <<Notice("granted", 0)>> \in Seq(Sent) /\ <<Notice("initialized", 0)>> \in Seq(Sent)
      BY <3>1
    <3>4. <<>> \in Seq(Sent)
      OBVIOUS
    <3> QED BY <3>2, <3>3, <3>4, Zenon
  <2>5. toServer' \in Seq(Sent)
    BY <1>6, <2>1, <2>4 DEF ReadMessage, TypeInv
  <2>6. facts' \in Seq(Reply)
    BY <1>6, <2>1, <2>2 DEF ReadMessage, TypeInv, IsReply, Received
  <2>7. /\ client' \in Clients /\ slot' \in {"vacant", "running", "failed"}
        /\ server' = server \/ server' = NoServer
    <3>1. CASE Unanswered
      BY <3>1, UnansweredTypes
    <3>2. CASE Answered(message)
      BY <3>2, UnansweredTypes, ClientsTypes DEF Answered, TypeInv, Before, Listing
    <3> QED BY <1>6, <2>1, <3>1, <3>2 DEF ReadMessage, TypeInv
  <2>8. UNCHANGED <<saves, nextId>> /\ ready' \in BOOLEAN
    BY <1>6, <2>1 DEF ReadMessage, TypeInv
  <2> QED BY <2>3, <2>5, <2>6, <2>7, <2>8, NoServerTypes DEF TypeInv
<1>7. CASE ReadEnd
  BY <1>7, UnansweredTypes, NoServerTypes DEF ReadEnd, TypeInv
<1> QED BY <1>1, <1>2, <1>3, <1>4, <1>5, <1>6, <1>7 DEF Client

\* ... and so does every step of the server.
LEMMA ServerTypes == ASSUME TypeInv, Take \/ Answer \/ Report \/ Exit PROVE TypeInv'
<1>0. UNCHANGED <<saves, slot, ready, nextId, client, facts>>
  BY DEF Take, Answer, Report, Exit, clientVars
<1>1. CASE Take
  <2>1. PICK message \in Sent : message = Head(toServer)
    BY <1>1 DEF Take, TypeInv
  <2>2. server' \in Servers
    <3> DEFINE new(error) ==
          [kind |-> "reply", id |-> message.id, to |-> message.kind,
           about |-> message.text, text |-> server.text, primed |-> Primed, error |-> error]
    <3>0. PICK text \in Texts(message.text), error \in Errors(message.kind) :
            \/ server' = [server EXCEPT !.text = text]
            \/ server' = [server EXCEPT !.phase = "fresh"]
            \/ server' = [server EXCEPT !.phase = "granted"]
            \/ server' = [server EXCEPT !.work = @ \cup {new(error)}]
      BY <1>1, <2>1 DEF Take
    <3>1. new(error) \in Reply
      BY <2>1 DEF Primed, Reply, Sent, TypeInv, Servers, Errors
    <3>3. text \in Nat
      BY <2>1 DEF Sent, Texts, TypeInv, Servers
    <3> HIDE DEF new
    <3> QED BY <3>0, <3>1, <3>3 DEF TypeInv, Servers
  <2>3. toServer' \in Seq(Sent) /\ toClient' = toClient
    BY <1>1 DEF Take, TypeInv
  <2> QED BY <1>0, <2>2, <2>3 DEF TypeInv
<1>2. CASE Answer
  <2>1. PICK reply \in server.work :
          /\ toClient' = Append(toClient, reply)
          /\ server' = [server EXCEPT !.work = @ \ {reply}]
    BY <1>2 DEF Answer, Says
  <2>2. reply \in Reply /\ server' \in Servers
    BY <2>1 DEF TypeInv, Servers
  <2>3. toClient' \in Seq(Received)
    BY <2>1, <2>2 DEF TypeInv, Received
  <2>4. toServer' = toServer
    BY <1>2 DEF Answer
  <2> QED BY <1>0, <2>2, <2>3, <2>4 DEF TypeInv
<1>3. CASE Report
  <2>1. \/ toClient' = Append(toClient, [kind |-> "create"])
        \/ toClient' = Append(toClient, [kind |-> "progress", token |-> "rootsScanned"])
        \/ toClient' = Append(toClient, [kind |-> "progress", token |-> "cachePriming"])
    BY <1>3 DEF Report, Says
  <2>2. /\ [kind |-> "create"] \in Received
        /\ [kind |-> "progress", token |-> "rootsScanned"] \in Received
        /\ [kind |-> "progress", token |-> "cachePriming"] \in Received
    BY DEF Received
  <2>3. \E message \in Received : toClient' = Append(toClient, message)
    BY <2>1, <2>2, Zenon
  <2>5. toClient' \in Seq(Received)
    BY <2>3 DEF TypeInv
  <2>4. server' \in Servers /\ toServer' = toServer
    BY <1>3 DEF Report, TypeInv, Servers
  <2> QED BY <1>0, <2>4, <2>5 DEF TypeInv
<1>4. CASE Exit
  BY <1>0, <1>4 DEF Exit, TypeInv, Servers
<1> QED BY <1>1, <1>2, <1>3, <1>4

\* A question is the last thing in the pipe.
LEMMA AskSends ==
  ASSUME TypeInv, NEW kind \in Questions, Ask(kind, <<>>)
  PROVE  /\ Len(toServer) \in Nat /\ Len(toServer') = Len(toServer) + 1
         /\ \A i \in 1..Len(toServer) : toServer'[i] = toServer[i]
         /\ toServer'[Len(toServer) + 1] = [kind |-> kind, id |-> nextId, text |-> saves]
         /\ client'.at = kind /\ client'.id = nextId /\ nextId' = nextId + 1
<1>1. toServer' = toServer \o <<>> \o <<[kind |-> kind, id |-> nextId, text |-> saves]>>
  BY DEF Ask
<1>2. toServer \in Seq(Sent)
  BY DEF TypeInv
<1>3. toServer \o <<>> = toServer
  BY <1>2
<1>4. toServer' = toServer \o <<[kind |-> kind, id |-> nextId, text |-> saves]>>
  BY <1>1, <1>3
<1>5. /\ Len(toServer) \in Nat /\ Len(toServer') = Len(toServer) + 1
      /\ \A i \in 1..Len(toServer) : toServer'[i] = toServer[i]
      /\ toServer'[Len(toServer) + 1] = [kind |-> kind, id |-> nextId, text |-> saves]
  BY <1>2, <1>4
<1>6. client' = [at |-> kind, id |-> nextId, pings |-> client.pings]
  <2>1. <<>> \in Seq(Sent)
    OBVIOUS
  <2> QED BY <2>1, AskTypes
<1>7. nextId' = nextId + 1
  BY DEF Ask
<1> QED BY <1>5, <1>6, <1>7

\* Whatever is under way is older than a question asked now.
LEMMA AskFresh ==
  ASSUME TypeInv, IdsInv, NEW kind \in Questions, Ask(kind, <<>>),
         UNCHANGED <<saves, toClient, server>>
  PROVE  IdsInv'
<1>1. /\ Len(toServer) \in Nat /\ Len(toServer') = Len(toServer) + 1
      /\ \A i \in 1..Len(toServer) : toServer'[i] = toServer[i]
      /\ toServer'[Len(toServer) + 1] = [kind |-> kind, id |-> nextId, text |-> saves]
      /\ client'.at = kind /\ client'.id = nextId /\ nextId' = nextId + 1
  BY AskSends
<1>2. nextId \in Nat
  BY DEF TypeInv
<1>3. ASSUME NEW reply \in Reply, Fits(reply) PROVE Fits(reply)'
  <2>1. reply.id \in Nat
    BY DEF Reply
  <2> QED BY <1>1, <1>2, <1>3, <2>1 DEF Fits
<1>4. \A i \in 1..Len(toServer') : toServer'[i].kind \in Questions => Asks(i)'
  <2> SUFFICES ASSUME NEW i \in 1..Len(toServer'), toServer'[i].kind \in Questions
               PROVE  Asks(i)'
    OBVIOUS
  <2>1. CASE i \in 1..Len(toServer)
    <3>1. toServer'[i] = toServer[i]
      BY <1>1, <2>1
    <3>2. toServer[i] \in Sent
      BY <2>1 DEF TypeInv
    <3>3. toServer[i].id \in Nat
      BY <3>2 DEF Sent
    <3>4. Asks(i)
      BY <2>1, <3>1 DEF IdsInv
    <3> QED BY <1>1, <1>2, <3>1, <3>3, <3>4 DEF Asks
  <2>2. CASE i = Len(toServer) + 1
    <3>1. toServer'[i] = [kind |-> kind, id |-> nextId, text |-> saves]
      BY <1>1, <2>2
    <3>2. NoOpen(i)'
      BY <1>1, <2>2, <3>1 DEF NoOpen, Questions
    <3> QED BY <1>1, <1>2, <3>1, <3>2 DEF Asks
  <2> QED BY <1>1, <2>1, <2>2
<1>5. \A i \in 1..Len(toClient) : toClient[i].kind = "reply" => toClient[i] \in Reply
  BY DEF TypeInv, Received
<1>6. server.work \in SUBSET Reply
  BY DEF TypeInv, Servers
<1>7. client'.id < nextId'
  BY <1>1, <1>2
<1> QED BY <1>3, <1>4, <1>5, <1>6, <1>7 DEF IdsInv

\* A text was saved before there was a server.
LEMMA Saved == ASSUME LspInv, slot # "vacant", UNCHANGED saves PROVE saves' # 0
BY DEF LspInv, TextInv

\* A client that stops waiting for replies owes the pipes nothing.
LEMMA Settles ==
  ASSUME LspInv, slot # "vacant", saves' # 0,
         UNCHANGED <<slot, ready, nextId, toServer, toClient, server>>,
         client'.at \in {"idle", "readying", "opening"},
         client'.at = "idle" \/ Len(facts') = 0
  PROVE  (FactsInv /\ IdsInv /\ TextInv /\ PrimingInv)'
<1>1. FactsInv'
  BY DEF FactsInv, Listing, Before
<1>2. ASSUME NEW reply, Fits(reply) PROVE Fits(reply)'
  BY <1>2 DEF Fits, Asking
<1>3. ASSUME NEW i \in 1..Len(toServer), Asks(i) PROVE Asks(i)'
  BY <1>3 DEF Asks, Asking
<1>4. IdsInv'
  BY <1>2, <1>3 DEF LspInv, IdsInv, Asking
<1>5. TextInv'
  BY DEF LspInv, TextInv, Listing
<1>6. PrimingInv'
  BY DEF LspInv, PrimingInv, Primed
<1> QED BY <1>1, <1>4, <1>5, <1>6

\* The actions of the client, one by one.
LEMMA SaveStep == ASSUME LspInv, Save PROVE LspInv'
<1>1. TypeInv' /\ TypeInv /\ PrimingInv
  BY ClientTypes DEF LspInv
<1>2. RecordedInv' /\ Len(facts') = 0
  BY DEF LspInv, Save, RecordedInv
<1>3. CASE slot = "vacant"
  <2>1. Ask("initialize", <<>>) /\ "initialize" \in Questions
    BY <1>3 DEF Save, Questions
  <2>2. toServer = <<>> /\ toClient = <<>> /\ ~ready
    BY <1>1, <1>3 DEF PrimingInv
  <2>3. /\ Len(toServer') = 1 /\ client'.at = "initialize" /\ nextId' = nextId + 1
        /\ toServer'[1].kind = "initialize" /\ toServer'[1].id = nextId
    <3>1. Len(toServer) = 0
      BY <2>2
    <3>2. /\ Len(toServer') = Len(toServer) + 1
          /\ toServer'[Len(toServer) + 1] = [kind |-> "initialize", id |-> nextId, text |-> saves]
          /\ client'.at = "initialize" /\ nextId' = nextId + 1
      BY <1>1, <2>1, AskSends
    <3> QED BY <3>1, <3>2
  <2>4. /\ server' = [NoServer EXCEPT !.alive = TRUE, !.phase = "up"] /\ slot' = "running"
        /\ UNCHANGED <<ready, toClient>>
    BY <1>3 DEF Save
  <2>5. server'.work = {} /\ server'.phase = "up"
    BY <2>4 DEF NoServer
  <2>6. FactsInv' /\ TextInv'
    <3>1. saves' # 0
      BY <1>1 DEF Save, TypeInv
    <3> QED BY <1>2, <2>3, <3>1 DEF FactsInv, TextInv, Listing, Before
  <2>7. IdsInv'
    <3>1. \A i \in 1..Len(toClient') : FALSE
      BY <2>2, <2>4
    <3>2. nextId < nextId'
      BY <1>1, <2>3 DEF TypeInv
    <3> QED BY <2>3, <2>5, <3>1, <3>2 DEF IdsInv, Asks, Asking
  <2>8. PrimingInv'
    <3>1. Len(toClient') = 0
      BY <2>2, <2>4
    <3> QED BY <2>2, <2>3, <2>4, <2>5, <3>1 DEF PrimingInv
  <2> QED BY <1>1, <1>2, <2>6, <2>7, <2>8 DEF LspInv
<1>4. CASE slot # "vacant"
  <2>1. UNCHANGED <<slot, ready, nextId, toServer, toClient, server>>
    BY <1>1, <1>4 DEF Save, TypeInv
  <2>2. client'.at \in {"idle", "opening"}
    <3>1. CASE slot = "running"
      <4>1. client' = [client EXCEPT !.at = "opening"]
        BY <3>1 DEF Save
      <4> QED BY <4>1, <1>1 DEF TypeInv, Clients
    <3>2. CASE slot = "failed"
      BY <3>2 DEF Save
    <3> QED BY <1>1, <1>4, <3>1, <3>2 DEF TypeInv
  <2>3. saves' # 0
    BY <1>1 DEF Save, TypeInv
  <2> QED BY <1>1, <1>2, <1>4, <2>1, <2>2, <2>3, Settles DEF LspInv
<1> QED BY <1>3, <1>4

LEMMA PingStep == ASSUME LspInv, Ping PROVE LspInv'
<1>1. TypeInv' /\ TypeInv /\ nextId \in Nat /\ RecordedInv'
  BY ClientTypes DEF LspInv, Client, TypeInv, RecordedInv, Ping
<1>2. /\ toServer' = Append(toServer, [kind |-> "ping", id |-> nextId, text |-> saves])
      /\ client'.at = "ping" /\ client.at = "readying" /\ nextId' = nextId + 1
      /\ UNCHANGED <<saves, slot, ready, facts, toClient, server>>
  BY DEF Ping
<1>3. /\ Len(toServer) \in Nat /\ Len(toServer') = Len(toServer) + 1
      /\ \A i \in 1..Len(toServer) : toServer'[i] = toServer[i]
      /\ toServer'[Len(toServer) + 1] = [kind |-> "ping", id |-> nextId, text |-> saves]
  BY <1>1, <1>2 DEF TypeInv
<1>4. FactsInv' /\ TextInv'
  <2>1. FactsInv'
    BY <1>2 DEF LspInv, FactsInv, Listing, Before
  <2>2. ASSUME NEW i \in 1..Len(toServer'), toServer'[i].kind = "open"
        PROVE  i \in 1..Len(toServer) /\ toServer'[i] = toServer[i]
    BY <1>3, <2>2
  <2>3. saves' # 0
    BY <1>2 DEF LspInv, TextInv, PrimingInv
  <2> QED BY <1>2, <2>1, <2>2, <2>3 DEF LspInv, TextInv, Listing
<1>5. IdsInv'
  <2>1. ASSUME NEW reply \in Reply, Fits(reply) PROVE Fits(reply)'
    <3>1. reply.id \in Nat
      BY DEF Reply
    <3> QED BY <1>1, <1>2, <2>1, <3>1 DEF Fits, Asking
  <2>2. ASSUME NEW i \in 1..Len(toServer'), toServer'[i].kind \in Questions PROVE Asks(i)'
    <3>1. CASE i \in 1..Len(toServer)
      <4>1. toServer'[i] = toServer[i] /\ toServer[i] \in Sent
        BY <1>1, <1>3, <3>1 DEF TypeInv
      <4>2. toServer[i].id \in Nat
        BY <4>1 DEF Sent
      <4>3. Asks(i)
        BY <2>2, <3>1, <4>1 DEF LspInv, IdsInv
      <4> QED BY <1>1, <1>2, <4>1, <4>2, <4>3 DEF Asks, Asking
    <3>2. CASE i = Len(toServer) + 1
      BY <1>1, <1>2, <1>3, <3>2 DEF Asks, Asking
    <3> QED BY <1>3, <3>1, <3>2
  <2>3. /\ \A i \in 1..Len(toClient) : toClient[i].kind = "reply" => toClient[i] \in Reply
        /\ server.work \in SUBSET Reply
    BY <1>1 DEF TypeInv, Received, Servers
  <2> QED BY <1>2, <2>1, <2>2, <2>3 DEF LspInv, IdsInv, Asking
<1>6. PrimingInv'
  <2>1. ASSUME NEW i \in 1..Len(toServer'), toServer'[i].kind # "ping"
        PROVE  i \in 1..Len(toServer) /\ toServer'[i] = toServer[i]
    BY <1>3, <2>1
  <2>2. slot # "vacant"
    BY <1>2 DEF LspInv, PrimingInv
  <2> QED BY <1>2, <2>1, <2>2 DEF LspInv, PrimingInv, Primed
<1> QED BY <1>1, <1>4, <1>5, <1>6 DEF LspInv

LEMMA StopWaitingStep == ASSUME LspInv, StopWaiting PROVE LspInv'
<1>1. TypeInv' /\ RecordedInv'
  BY ClientTypes DEF LspInv, Client, RecordedInv, StopWaiting
<1>2. client'.at = "opening" /\ UNCHANGED <<slot, ready, nextId, toServer, toClient, server>>
  BY DEF StopWaiting, LspInv, TypeInv, Clients
<1>3. Len(facts') = 0 /\ slot # "vacant"
  BY DEF StopWaiting, LspInv, FactsInv, PrimingInv, Before
<1>4. saves' # 0
  BY <1>3, Saved DEF StopWaiting
<1> QED BY <1>1, <1>2, <1>3, <1>4, Settles DEF LspInv

LEMMA OpenStep == ASSUME LspInv, Open PROVE LspInv'
<1>1. TypeInv' /\ TypeInv /\ RecordedInv'
  BY ClientTypes DEF LspInv, Client, RecordedInv, Open
<1>2. Len(facts') = 0 /\ slot # "vacant" /\ UNCHANGED <<saves, slot, ready, toClient, server>>
  BY DEF Open, LspInv, FactsInv, PrimingInv, Before
<1>3. CASE ~server.alive
  <2>1. client'.at = "idle" /\ UNCHANGED <<nextId, toServer>>
    BY <1>3 DEF Open, GiveUp, Idle
  <2> QED BY <1>1, <1>2, <2>1, Saved, Settles DEF LspInv
<1>4. CASE server.alive
  <2>1. Ask("symbols", <<Notice("open", saves)>>) /\ client.at = "opening"
    BY <1>4 DEF Open
  <2>2. /\ toServer' = toServer \o <<Notice("open", saves)>>
                          \o <<[kind |-> "symbols", id |-> nextId, text |-> saves]>>
        /\ client'.at = "symbols" /\ client'.id = nextId /\ nextId' = nextId + 1
        /\ nextId \in Nat
    BY <1>1, <2>1 DEF Ask, TypeInv, Clients
  <2>3. /\ Len(toServer) \in Nat /\ Len(toServer') = Len(toServer) + 2
        /\ \A i \in 1..Len(toServer) : toServer'[i] = toServer[i]
        /\ toServer'[Len(toServer) + 1] = Notice("open", saves)
        /\ toServer'[Len(toServer) + 2] = [kind |-> "symbols", id |-> nextId, text |-> saves]
    <3>1. Notice("open", saves) \in Sent /\ toServer \in Seq(Sent)
      BY <1>1 DEF Notice, Sent, TypeInv
    <3>2. [kind |-> "symbols", id |-> nextId, text |-> saves] \in Sent
      BY <1>1, <2>2 DEF Sent, Questions, TypeInv
    <3> HIDE DEF Notice
    <3> QED BY <2>2, <3>1, <3>2
  <2>4. FactsInv'
    BY <1>2, <2>2, LspAssumption DEF FactsInv, Listing, Before
  <2>5. TextInv'
    <3>1. saves' # 0
      BY <1>2, Saved
    <3>2. ~NoOpen(1)'
      BY <2>3 DEF NoOpen, Notice
    <3>3. ASSUME NEW i \in 1..Len(toServer'), toServer'[i].kind = "open"
          PROVE  toServer'[i].text # 0
      BY <1>2, <2>3, <3>1, <3>3 DEF Notice, LspInv, TextInv
    <3> QED BY <1>2, <3>1, <3>2, <3>3 DEF TextInv
  <2>6. IdsInv'
    <3>1. ASSUME NEW reply \in Reply, Fits(reply) PROVE Fits(reply)'
      <4>1. reply.id \in Nat
        BY DEF Reply
      <4> QED BY <2>2, <3>1, <4>1 DEF Fits
    <3>2. ASSUME NEW i \in 1..Len(toServer'), toServer'[i].kind \in Questions PROVE Asks(i)'
      <4>1. CASE i \in 1..Len(toServer)
        <5>1. toServer'[i] = toServer[i] /\ toServer[i] \in Sent
          BY <1>1, <2>3, <4>1 DEF TypeInv
        <5>2. toServer[i].id \in Nat
          BY <5>1 DEF Sent
        <5>3. Asks(i)
          BY <3>2, <4>1, <5>1 DEF LspInv, IdsInv
        <5> QED BY <2>2, <5>1, <5>2, <5>3 DEF Asks
      <4>2. CASE i = Len(toServer) + 1
        BY <2>3, <3>2, <4>2 DEF Notice, Questions
      <4>3. CASE i = Len(toServer) + 2
        <5>1. toServer'[i] = [kind |-> "symbols", id |-> nextId, text |-> saves]
          BY <2>3, <4>3
        <5>2. NoOpen(i)'
          BY <2>3, <4>3, <5>1 DEF NoOpen
        <5> QED BY <1>2, <2>2, <5>1, <5>2 DEF Asks
      <4> QED BY <2>3, <4>1, <4>2, <4>3
    <3>3. /\ \A i \in 1..Len(toClient) : toClient[i].kind = "reply" => toClient[i] \in Reply
          /\ server.work \in SUBSET Reply
      BY <1>1 DEF TypeInv, Received, Servers
    <3>4. /\ \A i \in 1..Len(toClient) : toClient[i].kind = "reply" => Fits(toClient[i])'
          /\ \A reply \in server.work : Fits(reply)'
      BY <1>2, <3>1, <3>3 DEF LspInv, IdsInv
    <3> QED BY <1>2, <2>2, <3>2, <3>4 DEF IdsInv
  <2>7. PrimingInv'
    <3>1. ASSUME NEW i \in 1..Len(toServer'),
                 toServer'[i].kind \in {"initialized", "granted"}
          PROVE  i \in 1..Len(toServer) /\ toServer'[i] = toServer[i]
      BY <2>3, <3>1 DEF Notice
    <3> QED BY <1>2, <2>2, <3>1 DEF LspInv, PrimingInv, Primed
  <2> QED BY <1>1, <2>4, <2>5, <2>6, <2>7 DEF LspInv
<1> QED BY <1>3, <1>4

LEMMA NextSymbolStep == ASSUME LspInv, NextSymbol PROVE LspInv'
<1>1. TypeInv' /\ TypeInv /\ slot # "vacant" /\ client.at = "listing"
  BY ClientTypes DEF LspInv, Client, NextSymbol, PrimingInv
<1>2. UNCHANGED <<saves, slot, ready, facts, toClient, server>>
  BY DEF NextSymbol
<1>3. RecordedInv'
  <2>1. CASE recorded' = recorded
    BY <2>1 DEF LspInv, RecordedInv
  <2>2. CASE Listed
    <3>1. recorded' = [text \in DOMAIN recorded \cup {saves} |->
                        IF text = saves THEN facts ELSE recorded[text]]
      BY <2>2 DEF NextSymbol
    <3>2. /\ Len(facts) = IF facts[1].error THEN 1 ELSE Symbols + 1
          /\ DOMAIN facts = 1..Len(facts)
          /\ \A i \in 1..Len(facts) : Suits(facts, i, saves)
      <4>1. /\ Len(facts) <= Symbols + 1 /\ Len(facts) # 0 /\ Len(facts) \in Nat
            /\ Len(facts) > 1 => ~facts[1].error
            /\ \A i \in 1..Len(facts) : Suits(facts, i, saves)
        BY <1>1 DEF LspInv, FactsInv, TypeInv, Listing
      <4>2. DOMAIN facts = 1..Len(facts)
        BY <1>1 DEF TypeInv
      <4> QED BY <2>2, <4>1, <4>2, LspAssumption DEF Listed
    <3>3. ASSUME NEW text \in DOMAIN recorded'
          PROVE  \/ text = saves /\ recorded'[text] = facts
                 \/ text \in DOMAIN recorded /\ recorded'[text] = recorded[text]
      BY <3>1
    <3> QED BY <3>2, <3>3 DEF LspInv, RecordedInv, Suits
  <2> QED BY <2>1, <2>2 DEF NextSymbol
<1>4. CASE GiveUp /\ UNCHANGED <<nextId, toServer>>
  <2>1. client'.at = "idle"
    BY <1>4 DEF GiveUp, Idle
  <2> QED BY <1>1, <1>2, <1>3, <1>4, <2>1, Saved, Settles DEF LspInv
<1>5. CASE Ask("references", <<>>) /\ ~Listed /\ Askable
  <2>1. "references" \in Questions
    BY DEF Questions
  <2>2. /\ Len(toServer) \in Nat /\ Len(toServer') = Len(toServer) + 1
        /\ \A i \in 1..Len(toServer) : toServer'[i] = toServer[i]
        /\ toServer'[Len(toServer) + 1] = [kind |-> "references", id |-> nextId, text |-> saves]
        /\ client'.at = "references" /\ client'.id = nextId /\ nextId' = nextId + 1
    BY <1>1, <1>5, <2>1, AskSends
  <2>3. IdsInv'
    BY <1>1, <1>2, <1>5, <2>1, AskFresh DEF LspInv
  <2>4. FactsInv'
    <3>1. /\ \A i \in 1..Len(facts) : Suits(facts, i, saves) /\ facts[i].id < nextId
          /\ \A i \in 1..Len(facts) : facts[i] \in Reply
          /\ Len(facts) # 0
      BY <1>1 DEF LspInv, FactsInv, Listing, TypeInv
    <3>2. ASSUME NEW i \in 1..Len(facts) PROVE facts[i].id < nextId + 1
      <4>1. facts[i].id \in Nat
        BY <3>1 DEF Reply
      <4>2. nextId \in Nat /\ facts[i].id < nextId
        BY <1>1, <3>1 DEF TypeInv
      <4> QED BY <4>1, <4>2
    <3>3. Len(facts) <= Symbols /\ Len(facts) <= Symbols + 1 /\ ~facts[1].error
      BY <1>5, LspAssumption, <1>1 DEF TypeInv, Listed
    <3> QED BY <1>2, <2>2, <3>1, <3>2, <3>3 DEF FactsInv, Before, Suits
  <2>5. TextInv'
    <3>1. TextInv /\ client.at \in Listing
      BY <1>1 DEF LspInv, Listing
    <3>2. toServer'[Len(toServer) + 1].kind # "open"
      BY <2>2
    <3>3. NoOpen(1)' <=> NoOpen(1)
      BY <2>2, <3>2 DEF NoOpen
    <3>4. ASSUME NEW i \in 1..Len(toServer') , toServer'[i].kind = "open"
          PROVE  i \in 1..Len(toServer) /\ toServer'[i] = toServer[i]
      BY <2>2, <3>2, <3>4
    <3> QED BY <1>2, <3>1, <3>3, <3>4 DEF TextInv
  <2>6. PrimingInv'
    <3>1. ASSUME NEW i \in 1..Len(toServer'),
                 toServer'[i].kind \in {"initialized", "granted"}
          PROVE  i \in 1..Len(toServer) /\ toServer'[i] = toServer[i]
      BY <2>2, <3>1
    <3>2. ready'
      BY <1>2, <1>5 DEF Askable
    <3> QED BY <1>1, <1>2, <2>2, <3>1, <3>2 DEF LspInv, PrimingInv, Primed
  <2> QED BY <1>1, <1>3, <2>3, <2>4, <2>5, <2>6 DEF LspInv
<1> QED BY <1>4, <1>5 DEF NextSymbol

\* What is left in the pipe after its first message.
LEMMA Heads ==
  ASSUME TypeInv, toClient # <<>>, toClient' = Tail(toClient)
  PROVE  /\ Len(toClient) \in Nat /\ Len(toClient') = Len(toClient) - 1
         /\ 1 \in 1..Len(toClient) /\ Head(toClient) = toClient[1]
         /\ \A i \in 1..Len(toClient') :
              i + 1 \in 1..Len(toClient) /\ i + 1 # 1 /\ toClient'[i] = toClient[i + 1]
<1>1. toClient \in Seq(Received)
  BY DEF TypeInv
<1>2. Len(toClient) \in Nat /\ Len(toClient) # 0 /\ Len(toClient') = Len(toClient) - 1
  BY <1>1
<1>3. \A i \in 1..Len(toClient') : toClient'[i] = toClient[i + 1]
  BY <1>1
<1> QED BY <1>1, <1>2, <1>3

\* The client gives up a server that did not say who it is.
LEMMA Drops ==
  ASSUME LspInv, client.at = "initialize", slot' = "failed", server' = NoServer,
         client'.at = "idle", UNCHANGED <<saves, nextId, toServer>>,
         toClient' = toClient \/ (toClient # <<>> /\ toClient' = Tail(toClient))
  PROVE  (FactsInv /\ IdsInv /\ TextInv /\ PrimingInv)'
<1>1. server'.work = {} /\ ~server'.alive
  BY DEF NoServer
<1>2. FactsInv' /\ TextInv'
  BY <1>1, Saved DEF LspInv, PrimingInv, FactsInv, TextInv, Listing, Before
<1>3. ASSUME NEW i \in 1..Len(toClient')
      PROVE  \E j \in 1..Len(toClient) : toClient'[i] = toClient[j]
  BY Heads DEF LspInv
<1>4. ASSUME NEW reply, Fits(reply) PROVE Fits(reply)'
  BY <1>4 DEF Fits, Asking
<1>5. ASSUME NEW i \in 1..Len(toServer), Asks(i) PROVE Asks(i)'
  BY <1>5 DEF Asks, Asking
<1>6. IdsInv'
  <2>1. ASSUME NEW i \in 1..Len(toClient'), toClient'[i].kind = "reply"
        PROVE  Fits(toClient[i])'
    <3>1. PICK j \in 1..Len(toClient) : toClient'[i] = toClient[j]
      BY <1>3
    <3>2. Fits(toClient[j])
      BY <2>1, <3>1 DEF LspInv, IdsInv
    <3> QED BY <1>4, <3>1, <3>2 DEF Fits, Asking
  <2> QED BY <1>1, <1>5, <2>1 DEF LspInv, IdsInv, Asking
<1>7. PrimingInv'
  <2>1. server.phase = "up"
    BY DEF LspInv, PrimingInv
  <2>2. ASSUME NEW i \in 1..Len(toClient')
        PROVE  toClient'[i].kind # "create" /\ ~EndsPriming(toClient'[i])
    BY <1>3, <2>1 DEF LspInv, PrimingInv, EndsPriming
  <2> QED BY <1>1, <2>1, <2>2 DEF LspInv, PrimingInv, EndsPriming
<1> QED BY <1>2, <1>6, <1>7

\* The end of what the server wrote stands for every answer still due.
LEMMA ReadEndStep == ASSUME LspInv, ReadEnd PROVE LspInv'
<1>1. TypeInv' /\ RecordedInv' /\ slot # "vacant"
  BY ClientTypes DEF LspInv, Client, RecordedInv, PrimingInv, ReadEnd, Awaiting
<1>2. Unanswered /\ UNCHANGED <<saves, ready, nextId, facts, recorded, toServer, toClient>>
  BY DEF ReadEnd
<1>3. CASE client.at = "initialize"
  <2>1. slot' = "failed" /\ server' = NoServer /\ client'.at = "idle"
    BY <1>2, <1>3 DEF Unanswered, GiveUp, Idle
  <2> QED BY <1>1, <1>2, <1>3, <2>1, Drops DEF LspInv
<1>4. CASE client.at = "ping"
  <2>1. client'.at = "readying" /\ Len(facts') = 0
    BY <1>2, <1>4 DEF Unanswered, LspInv, TypeInv, Clients, FactsInv, Before
  <2>2. UNCHANGED <<slot, server>>
    BY <1>2, <1>4 DEF Unanswered
  <2> QED BY <1>1, <1>2, <2>1, <2>2, Saved, Settles DEF LspInv
<1>5. CASE client.at \notin {"initialize", "ping"}
  <2>1. client'.at = "idle" /\ UNCHANGED <<slot, server>>
    BY <1>2, <1>5 DEF Unanswered, GiveUp, Idle
  <2> QED BY <1>1, <1>2, <2>1, Saved, Settles DEF LspInv
<1> QED BY <1>3, <1>4, <1>5

\* A message read takes nothing from what is still under way.
LEMMA Heard ==
  ASSUME LspInv, TypeInv', toClient # <<>>, toClient' = Tail(toClient),
         UNCHANGED <<saves, nextId>>,
         client' = client \/ client'.at \notin Asking,
         client'.at = "listing" => client.at \in Listing,
         client'.at = "listing" /\ Len(facts') # 0 => NoOpen(1) /\ facts'[1].text = server.text,
         client' = client => facts' = facts,
         server' = server, slot # "vacant",
         \/ toServer' = toServer
         \/ \E kind \in {"granted", "initialized"} :
              toServer' = Append(toServer, Notice(kind, 0))
  PROVE  IdsInv' /\ TextInv'
<1>1. /\ Len(toServer) \in Nat /\ Len(toServer') \in {Len(toServer), Len(toServer) + 1}
      /\ \A i \in 1..Len(toServer) : toServer'[i] = toServer[i]
      /\ \A i \in 1..Len(toServer') :
           i \in 1..Len(toServer) \/ toServer'[i].kind \in {"granted", "initialized"}
  <2>1. toServer \in Seq(Sent)
    BY DEF LspInv, TypeInv
  <2>2. CASE toServer' = toServer
    BY <2>1, <2>2
  <2>3. ASSUME NEW kind \in {"granted", "initialized"},
               toServer' = Append(toServer, Notice(kind, 0))
        PROVE  /\ Len(toServer') = Len(toServer) + 1
               /\ \A i \in 1..Len(toServer) : toServer'[i] = toServer[i]
               /\ toServer'[Len(toServer) + 1].kind = kind
    BY <2>1, <2>3 DEF Notice
  <2> QED BY <2>1, <2>2, <2>3
<1>2. ASSUME NEW i \in 1..(Len(toServer) + 1) PROVE NoOpen(i)' <=> NoOpen(i)
  BY <1>1 DEF NoOpen
<1>3. ASSUME NEW reply, Fits(reply) PROVE Fits(reply)'
  <2>1. NoOpen(1)' <=> NoOpen(1)
    BY <1>1, <1>2
  <2> QED BY <1>3, <2>1 DEF Fits
<1>4. ASSUME NEW i \in 1..Len(toServer'), toServer'[i].kind \in Questions PROVE Asks(i)'
  <2>1. i \in 1..Len(toServer) /\ toServer'[i] = toServer[i] /\ i \in 1..(Len(toServer) + 1)
    BY <1>1, <1>4 DEF Questions
  <2>2. Asks(i)
    BY <1>4, <2>1 DEF LspInv, IdsInv
  <2> QED BY <1>2, <2>1, <2>2 DEF Asks
<1>5. ASSUME NEW i \in 1..Len(toClient'), toClient'[i].kind = "reply"
      PROVE  Fits(toClient[i])'
  <2>1. PICK j \in 1..Len(toClient) : toClient'[i] = toClient[j]
    BY Heads DEF LspInv
  <2>2. Fits(toClient[j])
    BY <1>5, <2>1 DEF LspInv, IdsInv
  <2>3. NoOpen(1)' <=> NoOpen(1)
    BY <1>1, <1>2
  <2> QED BY <2>1, <2>2, <2>3 DEF Fits
<1>6. IdsInv'
  BY <1>3, <1>4, <1>5 DEF LspInv, IdsInv
<1>7. TextInv'
  <2>1. 1 \in 1..(Len(toServer) + 1)
    BY <1>1
  <2>2. ASSUME NEW i \in 1..Len(toServer'), toServer'[i].kind = "open"
        PROVE  i \in 1..Len(toServer) /\ toServer'[i] = toServer[i]
    BY <1>1, <2>2
  <2>3. NoOpen(1)' <=> NoOpen(1)
    BY <1>2, <2>1
  <2>4. client'.at \in Listing => client.at \in Listing
    BY DEF Listing, Asking
  <2>5. ASSUME client'.at \in Listing, Len(facts') # 0
        PROVE  NoOpen(1) /\ facts'[1].text = server.text
    BY <2>4, <2>5 DEF LspInv, TextInv, Listing, Asking
  <2>6. saves' # 0
    BY Saved
  <2> QED BY <2>2, <2>3, <2>4, <2>5, <2>6 DEF LspInv, TextInv
<1> QED BY <1>6, <1>7

\* A message read, and what is sent for it, keeps the order of the priming.
LEMMA PrimingHeard ==
  ASSUME LspInv, toClient # <<>>, toClient' = Tail(toClient), slot # "vacant",
         UNCHANGED <<slot, server>>,
         client'.at = "initialize" => client.at = "initialize",
         client'.at = "references" => ready',
         ready' => ready \/ EndsPriming(Head(toClient)),
         \/ toServer' = toServer
         \/ /\ Head(toClient).kind = "create"
            /\ toServer' = Append(toServer, Notice("granted", 0))
         \/ /\ client.at = "initialize" /\ client'.at # "initialize"
            /\ toServer' = Append(toServer, Notice("initialized", 0))
  PROVE  PrimingInv'
<1>1. /\ 1 \in 1..Len(toClient) /\ Head(toClient) = toClient[1]
      /\ \A i \in 1..Len(toClient') :
           i + 1 \in 1..Len(toClient) /\ i + 1 # 1 /\ toClient'[i] = toClient[i + 1]
  BY Heads DEF LspInv
<1>2. toServer \in Seq(Sent) /\ Len(toServer) \in Nat
  BY DEF LspInv, TypeInv
<1>3. ready' /\ server.alive => Primed
  BY <1>1 DEF LspInv, PrimingInv, Primed
<1>4. ASSUME NEW i \in 1..Len(toClient')
      PROVE  /\ toClient'[i].kind = "create" =>
                  /\ server.phase = "asking" /\ toClient[1].kind # "create"
                  /\ \A j \in 1..Len(toClient') : toClient'[j].kind = "create" => j = i
             /\ EndsPriming(toClient'[i]) => server.phase = "primed"
  <2>1. EndsPriming(toClient'[i]) => server.phase = "primed"
    BY <1>1 DEF LspInv, PrimingInv, EndsPriming
  <2>2. toClient'[i].kind = "create" => server.phase = "asking" /\ toClient[1].kind # "create"
    BY <1>1 DEF LspInv, PrimingInv
  <2>3. ASSUME NEW j \in 1..Len(toClient'), toClient'[i].kind = "create",
               toClient'[j].kind = "create"
        PROVE  j = i
    <3>1. i + 1 \in 1..Len(toClient) /\ j + 1 \in 1..Len(toClient)
      BY <1>1
    <3>2. toClient[i + 1].kind = "create" /\ toClient[j + 1].kind = "create"
      BY <1>1, <2>3
    <3>3. j + 1 = i + 1
      BY <3>1, <3>2 DEF LspInv, PrimingInv
    <3> QED BY <3>3
  <2> QED BY <2>1, <2>2, <2>3
<1>5. CASE toServer' = toServer
  BY <1>1, <1>3, <1>4, <1>5 DEF LspInv, PrimingInv, Primed, EndsPriming
<1>6. CASE /\ Head(toClient).kind = "create"
           /\ toServer' = Append(toServer, Notice("granted", 0))
  <2>1. /\ Len(toServer') = Len(toServer) + 1
        /\ \A i \in 1..Len(toServer) : toServer'[i] = toServer[i]
        /\ toServer'[Len(toServer) + 1].kind = "granted"
    BY <1>2, <1>6 DEF Notice
  <2>2. server.phase = "asking" /\ toClient[1].kind = "create"
    BY <1>1, <1>6 DEF LspInv, PrimingInv
  <2>3. ASSUME NEW i \in 1..Len(toServer) PROVE toServer[i].kind \notin {"granted", "initialized"}
    BY <1>1, <2>2 DEF LspInv, PrimingInv
  <2>4. ASSUME NEW i \in 1..Len(toServer'), toServer'[i].kind \in {"granted", "initialized"}
        PROVE  i = Len(toServer) + 1 /\ toServer'[i].kind = "granted"
    BY <1>2, <2>1, <2>3, <2>4
  <2>5. \A i \in 1..Len(toClient') : toClient'[i].kind # "create"
    BY <1>4, <2>2
  <2>6. client.at # "initialize"
    BY <2>2 DEF LspInv, PrimingInv
  <2> QED BY <1>3, <1>4, <2>2, <2>4, <2>5, <2>6 DEF LspInv, PrimingInv, Primed, EndsPriming
<1>7. CASE /\ client.at = "initialize" /\ client'.at # "initialize"
           /\ toServer' = Append(toServer, Notice("initialized", 0))
  <2>1. /\ Len(toServer') = Len(toServer) + 1
        /\ \A i \in 1..Len(toServer) : toServer'[i] = toServer[i]
        /\ toServer'[Len(toServer) + 1].kind = "initialized"
    BY <1>2, <1>7 DEF Notice
  <2>2. server.phase = "up"
    BY <1>7 DEF LspInv, PrimingInv
  <2>3. ASSUME NEW i \in 1..Len(toServer) PROVE toServer[i].kind \notin {"granted", "initialized"}
    BY <1>7, <2>2 DEF LspInv, PrimingInv
  <2>4. ASSUME NEW i \in 1..Len(toServer'), toServer'[i].kind \in {"granted", "initialized"}
        PROVE  i = Len(toServer) + 1 /\ toServer'[i].kind = "initialized"
    BY <1>2, <2>1, <2>3, <2>4
  <2> QED BY <1>3, <1>4, <1>7, <2>2, <2>4 DEF LspInv, PrimingInv, Primed, EndsPriming
<1> QED BY <1>5, <1>6, <1>7

\* The reply the client takes is the one its question is answered by.
LEMMA ReadMessageStep == ASSUME LspInv, ReadMessage PROVE LspInv'
<1> DEFINE m == Head(toClient)
<1>1. /\ TypeInv' /\ TypeInv /\ RecordedInv' /\ slot # "vacant"
      /\ toClient # <<>> /\ toClient' = Tail(toClient) /\ UNCHANGED <<saves, nextId>>
  BY ClientTypes DEF LspInv, Client, RecordedInv, PrimingInv, ReadMessage, Awaiting
<1>2. m = toClient[1] /\ 1 \in 1..Len(toClient) /\ m \in Received
  BY <1>1, Heads DEF TypeInv
<1>3. client.at \in Questions
  BY DEF ReadMessage, Awaiting, Questions
\* What it says makes the server, or the client, no further than it is.
<1>4. client.at = "initialize" => m.kind # "create" /\ ~EndsPriming(m)
  BY <1>2 DEF LspInv, PrimingInv
<1>5. toServer \o <<>> = toServer
  BY <1>1 DEF TypeInv
<1>6. CASE Unanswered /\ client.at = "initialize"
  <2>1. slot' = "failed" /\ server' = NoServer /\ client'.at = "idle"
    BY <1>6 DEF Unanswered, GiveUp, Idle
  <2>2. toServer' = toServer
    <3>1. CASE ~IsReply(m)
      <4>1. Response(m) = <<>>
        BY <1>4, <1>6, <3>1 DEF Response
      <4> QED BY <1>5, <4>1 DEF ReadMessage
    <3>2. CASE ~server.alive
      BY <3>2 DEF ReadMessage
    <3>3. CASE IsReply(m) /\ server.alive
      <4>1. Answered(m)
        BY <3>3 DEF ReadMessage
      <4>2. server' = server /\ server.alive
        BY <1>6, <3>3, <4>1 DEF Answered
      <4> QED BY <2>1, <4>2 DEF NoServer
    <3> QED BY <3>1, <3>2, <3>3
  <2> QED BY <1>1, <1>6, <2>1, <2>2, Drops DEF LspInv
<1>7. CASE ~(Unanswered /\ client.at = "initialize")
  <2>1. UNCHANGED <<slot, server>>
    BY <1>7 DEF ReadMessage, Answered, Unanswered
  <2>2. \/ /\ IsReply(m) /\ client.at \in Asking /\ client'.at = "listing"
           /\ client.at = "references" => ~m.error
        \/ IsReply(m) /\ client.at = "references" /\ client'.at = "idle"
        \/ IsReply(m) /\ client.at \in {"initialize", "ping"} /\ client'.at = "readying"
        \/ ~IsReply(m) /\ client' = client
        \/ ~IsReply(m) /\ client.at = "ping" /\ client'.at = "readying"
        \/ ~IsReply(m) /\ client'.at = "idle"
    <3>0. ASSUME IsReply(m) PROVE Answered(m)
      BY <3>0 DEF ReadMessage, IsReply
    <3>1. CASE IsReply(m) /\ ~(client.at = "references" /\ m.error)
      <4>1. ~(client.at = "initialize" /\ ~server.alive)
        BY <1>7, <3>0, <3>1 DEF Answered
      <4>2. client' = [client EXCEPT !.at =
                        IF client.at \in {"initialize", "ping"} THEN "readying" ELSE "listing"]
        BY <3>0, <3>1, <4>1 DEF Answered
      <4> QED BY <1>1, <1>3, <3>1, <4>2 DEF TypeInv, Clients, Questions, Asking
    <3>4. CASE IsReply(m) /\ client.at = "references" /\ m.error
      BY <3>0, <3>4 DEF Answered, Unanswered, GiveUp, Idle
    <3>2. CASE ~IsReply(m)
      <4>1. Unanswered \/ client' = client
        BY <3>2 DEF ReadMessage
      <4>2. Unanswered /\ client.at # "ping" => client'.at = "idle"
        BY <1>7 DEF Unanswered, GiveUp, Idle
      <4>3. Unanswered /\ client.at = "ping" => client'.at = "readying"
        BY <1>1 DEF Unanswered, TypeInv, Clients
      <4> QED BY <3>2, <4>1, <4>2, <4>3
    <3> QED BY <3>1, <3>2, <3>4
  <2>3. \/ toServer' = toServer
        \/ m.kind = "create" /\ toServer' = Append(toServer, Notice("granted", 0))
        \/ /\ client.at = "initialize" /\ IsReply(m)
           /\ toServer' = Append(toServer, Notice("initialized", 0))
    <3>1. toServer' = toServer \/ toServer' = toServer \o Response(m)
      BY DEF ReadMessage
    <3>2. \/ Response(m) = <<>>
          \/ m.kind = "create" /\ Response(m) = <<Notice("granted", 0)>>
          \/ /\ IsReply(m) /\ client.at = "initialize"
             /\ Response(m) = <<Notice("initialized", 0)>>
      BY DEF Response
    <3>3. ASSUME NEW notice PROVE toServer \o <<notice>> = Append(toServer, notice)
      BY <1>1 DEF TypeInv
    <3> QED BY <1>5, <3>1, <3>2, <3>3
  <2>4. ready' => ready \/ EndsPriming(m)
    BY DEF ReadMessage
  <2>9. ASSUME client'.at = "listing", IsReply(m)
        PROVE  /\ Len(facts') <= Symbols + 1 /\ Len(facts') # 0
               /\ \A i \in 1..Len(facts') : Suits(facts', i, saves) /\ facts'[i].id < nextId
               /\ Len(facts') > 1 => ~facts'[1].error
               /\ NoOpen(1) /\ facts'[1].text = server.text
    <3>1. client.at \in Asking /\ (client.at = "references" => ~m.error)
      BY <2>2, <2>9
    <3>2. facts' = Append(facts, m) /\ facts \in Seq(Reply)
      BY <1>1, <2>9, <3>1 DEF ReadMessage, Asking, TypeInv
    <3>3. /\ Len(facts) \in Nat /\ Len(facts') = Len(facts) + 1
          /\ \A i \in 1..Len(facts) : facts'[i] = facts[i]
          /\ facts'[Len(facts) + 1] = m
      BY <3>2
    <3>4. /\ m.to = client.at /\ m.about = saves /\ (client.at = "references" => m.primed)
          /\ m.id < nextId /\ m.id = client.id /\ NoOpen(1) /\ m.text = server.text
      BY <1>2, <2>9, <3>1 DEF LspInv, IdsInv, Fits, IsReply
    <3>5. server.text # 0 /\ (Len(facts) # 0 => facts[1].text = server.text)
      BY <3>1, <3>4 DEF LspInv, TextInv, Listing, Asking
    <3>6. /\ Len(facts) <= Symbols /\ (client.at = "symbols" => Len(facts) = 0)
          /\ client.at = "references" =>
               /\ Len(facts) # 0 /\ ~facts[1].error
               /\ \A i \in 1..Len(facts) : facts[i].id < client.id
      BY <3>1, <3>3, LspAssumption DEF LspInv, FactsInv, Before, Asking
    <3>7. \A i \in 1..Len(facts) : Suits(facts, i, saves) /\ facts[i].id < nextId
      BY <3>1 DEF LspInv, FactsInv, Listing, Asking
    <3>8. facts'[1].text = server.text
      <4>1. CASE Len(facts) = 0
        BY <3>3, <3>4, <4>1
      <4>2. CASE Len(facts) # 0
        <5>1. 1 \in 1..Len(facts)
          BY <3>3, <4>2
        <5> QED BY <3>3, <3>5, <4>2, <5>1
      <4> QED BY <4>1, <4>2
    <3>9. ASSUME NEW i \in 1..Len(facts) PROVE Suits(facts', i, saves) /\ facts'[i].id < nextId
      <4>1. i > 1 => i - 1 \in 1..Len(facts)
        BY <3>3
      <4>2. Len(facts) # 0 /\ Suits(facts, i, saves) /\ facts[i].id < nextId
        BY <3>3, <3>7
      <4> QED BY <3>3, <3>5, <3>8, <4>1, <4>2 DEF Suits
    <3>10. Suits(facts', Len(facts) + 1, saves)
      <4>1. CASE client.at = "symbols"
        BY <3>3, <3>4, <3>5, <3>6, <4>1 DEF Suits
      <4>2. CASE client.at = "references"
        <5>1. /\ Len(facts) + 1 # 1 /\ (Len(facts) + 1) - 1 = Len(facts)
              /\ Len(facts) \in 1..Len(facts)
          BY <3>3, <3>6, <4>2
        <5>2. facts'[Len(facts)].id < m.id
          BY <3>3, <3>4, <3>6, <4>2, <5>1
        <5> QED BY <3>1, <3>3, <3>4, <3>5, <3>8, <4>2, <5>1, <5>2 DEF Suits
      <4> QED BY <3>1, <4>1, <4>2 DEF Asking
    <3>11. ASSUME NEW i \in 1..Len(facts')
           PROVE  Suits(facts', i, saves) /\ facts'[i].id < nextId
      <4>1. i \in 1..Len(facts) \/ i = Len(facts) + 1
        BY <3>3
      <4> QED BY <3>3, <3>4, <3>9, <3>10, <4>1
    <3>12. Len(facts') > 1 => ~facts'[1].error
      <4>1. Len(facts') > 1 => client.at = "references" /\ 1 \in 1..Len(facts)
        BY <3>1, <3>3, <3>6 DEF Asking
      <4> QED BY <3>3, <3>6, <4>1
    <3> QED BY <3>3, <3>4, <3>6, <3>8, <3>11, <3>12, LspAssumption
  <2>5. IdsInv' /\ TextInv'
    <3>1. client' = client \/ client'.at \notin Asking
      BY <2>2 DEF Asking
    <3>2. client'.at = "listing" => client.at \in Listing
      BY <1>3, <2>2 DEF Listing, Questions, Asking
    <3>3. client' = client => facts' = facts
      BY <2>2 DEF ReadMessage, Asking
    <3>4. client'.at = "listing" => NoOpen(1) /\ facts'[1].text = server.text
      BY <1>3, <2>2, <2>9 DEF Questions
    <3> QED BY <1>1, <2>1, <2>3, <3>1, <3>2, <3>3, <3>4, Heard
  <2>6. PrimingInv'
    <3>1. client'.at = "initialize" => client.at = "initialize"
      BY <2>2
    <3>2. client'.at = "references" => ready'
      <4>1. client'.at = "references" => client.at = "references"
        BY <2>2
      <4>2. ready => ready'
        BY DEF ReadMessage
      <4> QED BY <4>1, <4>2 DEF LspInv, PrimingInv
    <3>3. IsReply(m) /\ client.at = "initialize" => client'.at # "initialize"
      BY <2>2
    <3> QED BY <1>1, <2>1, <2>3, <2>4, <3>1, <3>2, <3>3, PrimingHeard
  <2>7. FactsInv'
    <3>1. CASE client'.at = "listing" /\ IsReply(m)
      <4>1. FactsInv' <=> /\ Len(facts') <= Symbols + 1 /\ Len(facts') # 0
                          /\ \A i \in 1..Len(facts') :
                               Suits(facts', i, saves) /\ facts'[i].id < nextId
                          /\ Len(facts') > 1 => ~facts'[1].error
        BY <1>1, <3>1 DEF FactsInv, Listing, Before, Suits
      <4> QED BY <2>9, <3>1, <4>1
    <3>2. CASE client' = client /\ ~IsReply(m)
      <4>1. facts' = facts
        BY <3>2 DEF ReadMessage
      <4> QED BY <1>1, <3>2, <4>1 DEF LspInv, FactsInv, Suits
    <3>3. CASE client'.at = "idle"
      BY <3>3 DEF FactsInv, Listing, Before
    <3>4. CASE client'.at = "readying" /\ client.at \in {"initialize", "ping"}
      <4>1. facts' = facts
        BY <3>4 DEF ReadMessage
      <4>2. Len(facts) = 0
        BY <3>4 DEF LspInv, FactsInv, Before
      <4> QED BY <3>4, <4>1, <4>2 DEF FactsInv, Listing, Before
    <3> QED BY <2>2, <3>1, <3>2, <3>3, <3>4
  <2> QED BY <1>1, <2>5, <2>6, <2>7 DEF LspInv
<1> QED BY <1>6, <1>7

\* The request at hand is answered about the text, and the index, of now.
LEMMA TakeStep == ASSUME LspInv, Take PROVE LspInv'
<1> DEFINE m == Head(toServer)
<1>0. PICK text \in Texts(m.text), error \in Errors(m.kind) :
        server' = CASE m.kind = "open" -> [server EXCEPT !.text = text]
                    [] m.kind = "initialized" -> [server EXCEPT !.phase = "fresh"]
                    [] m.kind = "granted" -> [server EXCEPT !.phase = "granted"]
                    [] OTHER -> [server EXCEPT !.work = @ \cup
                         {[kind |-> "reply", id |-> m.id, to |-> m.kind,
                           about |-> m.text, text |-> server.text,
                           primed |-> Primed, error |-> error]}]
  BY DEF Take
<1> DEFINE new == [kind |-> "reply", id |-> m.id, to |-> m.kind,
                   about |-> m.text, text |-> server.text,
                   primed |-> Primed, error |-> error]
<1>1. /\ TypeInv' /\ TypeInv /\ UNCHANGED <<clientVars, toClient>>
      /\ server.alive /\ toServer # <<>> /\ toServer' = Tail(toServer)
  BY ServerTypes DEF LspInv, Take
<1>2. UNCHANGED <<saves, slot, ready, nextId, client, facts, recorded>>
  BY <1>1 DEF clientVars
<1>3. /\ Len(toServer) \in Nat /\ Len(toServer') = Len(toServer) - 1
      /\ 1 \in 1..Len(toServer) /\ m = toServer[1] /\ m \in Sent
      /\ \A i \in 1..Len(toServer') :
           i + 1 \in 1..Len(toServer) /\ i + 1 # 1 /\ toServer'[i] = toServer[i + 1]
  <2>1. toServer \in Seq(Sent) /\ Len(toServer) \in Nat /\ Len(toServer) # 0
    BY <1>1 DEF TypeInv
  <2>2. Len(toServer') = Len(toServer) - 1
    BY <1>1, <2>1
  <2>3. \A i \in 1..Len(toServer') : toServer'[i] = toServer[i + 1]
    BY <1>1, <2>1
  <2> QED BY <2>1, <2>2, <2>3
<1>4. FactsInv' /\ RecordedInv'
  BY <1>2 DEF LspInv, FactsInv, RecordedInv, Suits
<1>5. /\ m.kind = "open" => server' = [server EXCEPT !.text = text]
      /\ m.kind = "initialized" => server' = [server EXCEPT !.phase = "fresh"]
      /\ m.kind = "granted" => server' = [server EXCEPT !.phase = "granted"]
      /\ m.kind \in Questions => server' = [server EXCEPT !.work = @ \cup {new}]
  <2> HIDE DEF new
  <2>1. server' = CASE m.kind = "open" -> [server EXCEPT !.text = text]
                    [] m.kind = "initialized" -> [server EXCEPT !.phase = "fresh"]
                    [] m.kind = "granted" -> [server EXCEPT !.phase = "granted"]
                    [] OTHER -> [server EXCEPT !.work = @ \cup {new}]
    BY <1>0 DEF new
  <2> HIDE DEF m
  <2> QED BY <2>1 DEF Questions
<1>6. /\ m.kind = "open" \/ m.kind = "initialized" \/ m.kind = "granted" \/ m.kind \in Questions
      /\ m.id \in Nat /\ m.text \in Nat
  BY <1>3 DEF Sent
<1>7. /\ server'.alive = server.alive
      /\ server'.text = IF m.kind = "open" THEN text ELSE server.text
      /\ server'.work = IF m.kind \in Questions THEN server.work \cup {new} ELSE server.work
      /\ server'.phase = IF m.kind = "initialized" THEN "fresh"
                         ELSE IF m.kind = "granted" THEN "granted" ELSE server.phase
  <2> HIDE DEF m, new
  <2>1. server \in Servers
    BY <1>1 DEF TypeInv
  <2> QED BY <1>5, <1>6, <2>1 DEF Servers, Questions
<1>8. ASSUME NEW i \in 1..(Len(toServer') + 1), NoOpen(i)' PROVE NoOpen(i + 1)
  <2>1. ASSUME NEW j \in 1..Len(toServer), i + 1 <= j PROVE toServer[j].kind # "open"
    <3>1. j - 1 \in 1..Len(toServer') /\ i <= j - 1 /\ (j - 1) + 1 = j
      BY <1>3, <2>1
    <3> QED BY <1>3, <1>8, <3>1 DEF NoOpen
  <2> QED BY <2>1 DEF NoOpen
<1>9. ASSUME NEW i \in 1..Len(toServer'), NoOpen(i + 1) PROVE NoOpen(i)'
  <2>1. ASSUME NEW j \in 1..Len(toServer'), i <= j PROVE toServer'[j].kind # "open"
    BY <1>3, <1>9, <2>1 DEF NoOpen
  <2> QED BY <2>1 DEF NoOpen
<1>13. NoOpen(1) => m.kind # "open" /\ NoOpen(1)'
  BY <1>3 DEF NoOpen
<1>14. m.kind # "open" /\ NoOpen(1)' => NoOpen(1)
  <2>1. ASSUME NEW j \in 1..Len(toServer) PROVE j = 1 \/ 2 <= j
    BY <1>3
  <2>2. NoOpen(1)' => NoOpen(2)
    BY <1>3, <1>8
  <2> QED BY <1>3, <2>1, <2>2 DEF NoOpen
<1>10. TextInv'
  <2> HIDE DEF m, new
  <2>1. m.kind = "open" => text # 0
    <3>1. m.kind = "open" => m.text # 0
      BY <1>3 DEF LspInv, TextInv
    <3> QED BY <3>1 DEF Texts
  <2>2. ASSUME NEW i \in 1..Len(toServer'), toServer'[i].kind = "open"
        PROVE  toServer'[i].text # 0
    BY <1>3, <2>2 DEF LspInv, TextInv
  <2>3. client.at \in Listing /\ NoOpen(1)' => server'.text # 0
    BY <1>7, <1>14, <2>1 DEF LspInv, TextInv
  <2>4. client.at \in Listing /\ Len(facts) # 0 =>
          NoOpen(1)' /\ facts[1].text = server'.text
    BY <1>7, <1>13 DEF LspInv, TextInv
  <2> QED BY <1>2, <2>2, <2>3, <2>4 DEF LspInv, TextInv
<1>11. IdsInv'
  <2> HIDE DEF m, new
  <2>1. ASSUME NEW reply, Fits(reply) PROVE Fits(reply)'
    BY <1>2, <1>7, <1>13, <2>1 DEF Fits
  <2>2. ASSUME NEW i \in 1..Len(toServer'), toServer'[i].kind \in Questions PROVE Asks(i)'
    <3>1. Asks(i + 1) /\ toServer'[i] = toServer[i + 1]
      BY <1>3, <2>2 DEF LspInv, IdsInv
    <3>2. client.at \in Asking /\ toServer[i + 1].id = client.id => NoOpen(i)'
      BY <1>9, <3>1 DEF Asks
    <3> QED BY <1>2, <3>1, <3>2 DEF Asks
  <2>3. m.kind \in Questions => Fits(new)
    <3> SUFFICES ASSUME m.kind \in Questions PROVE Fits(new)
      OBVIOUS
    <3>1. Asks(1)
      BY <1>3 DEF LspInv, IdsInv
    <3>2. /\ new.id = toServer[1].id /\ new.to = toServer[1].kind
          /\ new.about = toServer[1].text /\ new.text = server.text
      BY <1>3 DEF new
    <3>3. new.primed <=> Primed
      BY DEF Primed, new
    <3>4. client.at = "references" => Primed
      BY <1>1 DEF LspInv, PrimingInv
    <3> QED BY <3>1, <3>2, <3>3, <3>4 DEF Asks, Fits
  <2>4. \A reply \in server'.work : Fits(reply)
    BY <1>7, <2>3 DEF LspInv, IdsInv
  <2>5. \A i \in 1..Len(toClient') : toClient'[i].kind = "reply" => Fits(toClient[i])'
    BY <1>1, <2>1 DEF LspInv, IdsInv
  <2> QED BY <1>2, <2>1, <2>2, <2>4, <2>5 DEF LspInv, IdsInv
<1>12. PrimingInv'
  <2> HIDE DEF new
  <2>1. ASSUME NEW i \in 1..Len(toServer')
        PROVE  /\ toServer'[i].kind = "initialized" =>
                   /\ m.kind # "initialized" /\ server.phase = "up" /\ client.at # "initialize"
                   /\ \A j \in 1..Len(toServer') : toServer'[j].kind = "initialized" => j = i
               /\ toServer'[i].kind = "granted" =>
                   /\ m.kind # "granted" /\ server.phase = "asking"
                   /\ \A j \in 1..Len(toServer') : toServer'[j].kind = "granted" => j = i
                   /\ \A j \in 1..Len(toClient) : toClient[j].kind # "create"
    <3>1. /\ i + 1 \in 1..Len(toServer) /\ i + 1 # 1 /\ toServer'[i] = toServer[i + 1]
      BY <1>3
    <3>2. ASSUME NEW j \in 1..Len(toServer'), NEW kind \in {"initialized", "granted"},
                 toServer'[i].kind = kind, toServer'[j].kind = kind
          PROVE  j = i
      <4>1. j + 1 \in 1..Len(toServer) /\ toServer'[j] = toServer[j + 1]
        BY <1>3
      <4>2. j + 1 = i + 1
        BY <3>1, <3>2, <4>1 DEF LspInv, PrimingInv
      <4> QED BY <4>2
    <3>3. toServer'[i].kind = "initialized" =>
            m.kind # "initialized" /\ server.phase = "up" /\ client.at # "initialize"
      BY <1>3, <3>1 DEF LspInv, PrimingInv
    <3>4. toServer'[i].kind = "granted" =>
            /\ m.kind # "granted" /\ server.phase = "asking"
            /\ \A j \in 1..Len(toClient) : toClient[j].kind # "create"
      BY <1>3, <3>1 DEF LspInv, PrimingInv
    <3> QED BY <3>2, <3>3, <3>4
  <2>2. m.kind = "initialized" => server.phase = "up" /\ client.at # "initialize"
    BY <1>3 DEF LspInv, PrimingInv
  <2>3. m.kind = "granted" =>
          server.phase = "asking" /\ \A j \in 1..Len(toClient) : toClient[j].kind # "create"
    BY <1>3 DEF LspInv, PrimingInv
  <2>4. slot # "vacant"
    BY <1>1 DEF LspInv, PrimingInv
  <2> HIDE DEF m
  <2>5. ~ready \/ (m.kind # "initialized" /\ m.kind # "granted")
    BY <1>1, <2>2, <2>3 DEF LspInv, PrimingInv, Primed
  <2>6. /\ client.at = "initialize" => m.kind # "initialized" /\ m.kind # "granted"
        /\ \A i \in 1..Len(toClient) : EndsPriming(toClient[i]) =>
             m.kind # "initialized" /\ m.kind # "granted"
        /\ \A i \in 1..Len(toClient) : toClient[i].kind = "create" =>
             m.kind # "initialized" /\ m.kind # "granted"
    BY <2>2, <2>3 DEF LspInv, PrimingInv
  <2>7. /\ \A i \in 1..Len(toServer') : toServer'[i].kind = "initialized" =>
             m.kind # "granted"
        /\ \A i \in 1..Len(toServer') : toServer'[i].kind = "granted" =>
             m.kind # "initialized"
    BY <2>1, <2>2, <2>3
  <2> QED BY <1>1, <1>2, <1>7, <2>1, <2>4, <2>5, <2>6, <2>7
          DEF LspInv, PrimingInv, Primed, EndsPriming
<1> QED BY <1>1, <1>4, <1>10, <1>11, <1>12 DEF LspInv

\* What the server says is the last thing in the pipe to the client.
LEMMA SaysLast ==
  ASSUME TypeInv, NEW message, message \in Received, Says(message)
  PROVE  /\ Len(toClient) \in Nat /\ Len(toClient') = Len(toClient) + 1
         /\ \A i \in 1..Len(toClient) : toClient'[i] = toClient[i]
         /\ toClient'[Len(toClient) + 1] = message
         /\ \A i \in 1..Len(toClient') : i \in 1..Len(toClient) \/ i = Len(toClient) + 1
<1>1. toClient' = Append(toClient, message) /\ toClient \in Seq(Received)
  BY DEF Says, TypeInv
<1>2. /\ Len(toClient) \in Nat /\ Len(toClient') = Len(toClient) + 1
      /\ \A i \in 1..Len(toClient) : toClient'[i] = toClient[i]
      /\ toClient'[Len(toClient) + 1] = message
  BY <1>1
<1> QED BY <1>2

LEMMA AnswerStep == ASSUME LspInv, Answer PROVE LspInv'
<1>1. /\ TypeInv' /\ TypeInv /\ UNCHANGED toServer /\ server \in Servers
      /\ UNCHANGED <<saves, slot, ready, nextId, client, facts, recorded>>
  BY ServerTypes DEF LspInv, Answer, clientVars, TypeInv
<1>2. PICK reply \in server.work :
        Says(reply) /\ server' = [server EXCEPT !.work = @ \ {reply}]
  BY DEF Answer
<1>3. /\ server'.work \subseteq server.work /\ server'.alive = server.alive
      /\ server'.phase = server.phase /\ server'.text = server.text
  BY <1>1, <1>2 DEF Servers
<1>4. reply \in Reply /\ reply \in Received /\ reply.kind = "reply" /\ Fits(reply)
  BY <1>1, <1>2 DEF Servers, Received, Reply, LspInv, IdsInv
<1>5. /\ Len(toClient) \in Nat /\ Len(toClient') = Len(toClient) + 1
      /\ \A i \in 1..Len(toClient) : toClient'[i] = toClient[i]
      /\ toClient'[Len(toClient) + 1] = reply
      /\ \A i \in 1..Len(toClient') : i \in 1..Len(toClient) \/ i = Len(toClient) + 1
  BY <1>1, <1>2, <1>4, SaysLast
<1>6. FactsInv' /\ RecordedInv' /\ TextInv'
  BY <1>1, <1>3 DEF LspInv, FactsInv, RecordedInv, TextInv, Suits, NoOpen
<1>7. IdsInv'
  <2>1. ASSUME NEW r, Fits(r) PROVE Fits(r)'
    BY <1>1, <1>3, <2>1 DEF Fits, NoOpen
  <2>2. ASSUME NEW i \in 1..Len(toClient'), toClient'[i].kind = "reply" PROVE Fits(toClient[i])'
    <3>1. Fits(toClient'[i])
      BY <1>4, <1>5, <2>2 DEF LspInv, IdsInv
    <3> QED BY <1>1, <1>3, <3>1 DEF Fits, NoOpen
  <2>3. ASSUME NEW i \in 1..Len(toServer), Asks(i) PROVE Asks(i)'
    BY <1>1, <2>3 DEF Asks, NoOpen
  <2> QED BY <1>1, <1>3, <2>1, <2>2, <2>3 DEF LspInv, IdsInv
<1>8. PrimingInv'
  <2>1. ASSUME NEW i \in 1..Len(toClient'), toClient'[i].kind # "reply"
        PROVE  i \in 1..Len(toClient) /\ toClient'[i] = toClient[i]
    BY <1>4, <1>5, <2>1
  <2>2. server.alive /\ server.work # {}
    BY <1>2 DEF Answer
  <2>3. slot # "vacant"
    BY <2>2, <1>1 DEF LspInv, PrimingInv, TypeInv
  <2> QED BY <1>1, <1>3, <2>1, <2>3 DEF LspInv, PrimingInv, Primed, EndsPriming
<1> QED BY <1>1, <1>6, <1>7, <1>8 DEF LspInv

LEMMA ReportStep == ASSUME LspInv, Report PROVE LspInv'
<1>1. /\ TypeInv' /\ TypeInv /\ UNCHANGED toServer /\ server \in Servers /\ server.alive
      /\ UNCHANGED <<saves, slot, ready, nextId, client, facts, recorded>>
  BY ServerTypes DEF LspInv, Report, clientVars, TypeInv
<1> DEFINE Reported ==
      \E message \in Received, phase \in {"asking", "scanned", "primed"} :
        /\ Says(message) /\ server' = [server EXCEPT !.phase = phase]
        /\ message.kind # "reply" /\ (message.kind = "create" <=> phase = "asking")
        /\ EndsPriming(message) => phase = "primed"
        /\ server.phase \in {"fresh", "granted", "scanned"}
<1>2. Reported
  <2>1. ASSUME NEW message \in Received, NEW phase, Says(message),
               server' = [server EXCEPT !.phase = phase],
               \/ /\ message.kind = "create" /\ phase = "asking" /\ server.phase = "fresh"
                  /\ ~EndsPriming(message)
               \/ /\ message.kind = "progress" /\ phase = "scanned" /\ server.phase = "granted"
                  /\ ~EndsPriming(message)
               \/ /\ message.kind = "progress" /\ phase = "primed" /\ server.phase = "scanned"
        PROVE  Reported
    BY <2>1
  <2>2. CASE /\ server.phase = "fresh" /\ Says([kind |-> "create"])
             /\ server' = [server EXCEPT !.phase = "asking"]
    <3>1. [kind |-> "create"] \in Received /\ ~EndsPriming([kind |-> "create"])
      BY DEF Received, EndsPriming
    <3> QED BY <2>1, <2>2, <3>1
  <2>3. CASE /\ server.phase = "granted"
             /\ Says([kind |-> "progress", token |-> "rootsScanned"])
             /\ server' = [server EXCEPT !.phase = "scanned"]
    <3>1. /\ [kind |-> "progress", token |-> "rootsScanned"] \in Received
          /\ ~EndsPriming([kind |-> "progress", token |-> "rootsScanned"])
      BY DEF Received, EndsPriming
    <3> QED BY <2>1, <2>3, <3>1
  <2>4. CASE /\ server.phase = "scanned"
             /\ Says([kind |-> "progress", token |-> "cachePriming"])
             /\ server' = [server EXCEPT !.phase = "primed"]
    <3>1. [kind |-> "progress", token |-> "cachePriming"] \in Received
      BY DEF Received
    <3> QED BY <2>1, <2>4, <3>1
  <2> QED BY <2>2, <2>3, <2>4 DEF Report
<1>3. PICK message \in Received, phase \in {"asking", "scanned", "primed"} :
        /\ Says(message) /\ server' = [server EXCEPT !.phase = phase]
        /\ message.kind # "reply" /\ (message.kind = "create" <=> phase = "asking")
        /\ EndsPriming(message) => phase = "primed"
        /\ server.phase \in {"fresh", "granted", "scanned"}
  BY <1>2
<1>4. /\ Says(message) /\ server' = [server EXCEPT !.phase = phase]
      /\ message.kind # "reply" /\ (message.kind = "create" <=> phase = "asking")
      /\ EndsPriming(message) => phase = "primed"
      /\ server.phase \in {"fresh", "granted", "scanned"}
  BY <1>3
<1>5. /\ server'.work = server.work /\ server'.alive = server.alive
      /\ server'.phase = phase /\ server'.text = server.text
  BY <1>1, <1>4 DEF Servers
<1>6. /\ Len(toClient) \in Nat /\ Len(toClient') = Len(toClient) + 1
      /\ \A i \in 1..Len(toClient) : toClient'[i] = toClient[i]
      /\ toClient'[Len(toClient) + 1] = message
      /\ \A i \in 1..Len(toClient') : i \in 1..Len(toClient) \/ i = Len(toClient) + 1
  BY <1>1, <1>4, SaysLast
<1>7. FactsInv' /\ RecordedInv' /\ TextInv'
  BY <1>1, <1>5 DEF LspInv, FactsInv, RecordedInv, TextInv, Suits, NoOpen
<1>8. IdsInv'
  <2>1. ASSUME NEW r, Fits(r) PROVE Fits(r)'
    BY <1>1, <1>5, <2>1 DEF Fits, NoOpen
  <2>2. ASSUME NEW i \in 1..Len(toClient'), toClient'[i].kind = "reply" PROVE Fits(toClient[i])'
    <3>1. Fits(toClient'[i])
      BY <1>4, <1>6, <2>2 DEF LspInv, IdsInv
    <3> QED BY <1>1, <1>5, <3>1 DEF Fits, NoOpen
  <2>3. ASSUME NEW i \in 1..Len(toServer), Asks(i) PROVE Asks(i)'
    BY <1>1, <2>3 DEF Asks, NoOpen
  <2> QED BY <1>1, <1>5, <2>1, <2>2, <2>3 DEF LspInv, IdsInv
<1>9. PrimingInv'
  <2>1. /\ ~ready /\ client.at # "initialize" /\ slot \notin {"vacant", "failed"}
        /\ \A i \in 1..Len(toServer) : toServer[i].kind \notin {"initialized", "granted"}
        /\ \A i \in 1..Len(toClient) : toClient[i].kind # "create" /\ ~EndsPriming(toClient[i])
    BY <1>1, <1>4 DEF LspInv, PrimingInv, Primed
  <2>2. ASSUME NEW i \in 1..Len(toClient')
        PROVE  /\ toClient'[i].kind = "create" => i = Len(toClient) + 1 /\ phase = "asking"
               /\ EndsPriming(toClient'[i]) => phase = "primed"
    BY <1>4, <1>6, <2>1 DEF EndsPriming
  <2>3. client.at # "references"
    BY <2>1 DEF LspInv, PrimingInv
  <2> QED BY <1>1, <1>5, <2>1, <2>2, <2>3 DEF PrimingInv, EndsPriming
<1> QED BY <1>1, <1>7, <1>8, <1>9 DEF LspInv

LEMMA ExitStep == ASSUME LspInv, Exit PROVE LspInv'
<1>1. /\ TypeInv' /\ server \in Servers /\ server.alive
      /\ server' = [server EXCEPT !.alive = FALSE] /\ UNCHANGED <<toServer, toClient>>
      /\ UNCHANGED <<saves, slot, ready, nextId, client, facts, recorded>>
  BY ServerTypes DEF LspInv, Exit, clientVars, TypeInv
<1>2. /\ server'.work = server.work /\ ~server'.alive
      /\ server'.phase = server.phase /\ server'.text = server.text
  BY <1>1 DEF Servers
<1>3. FactsInv' /\ RecordedInv' /\ TextInv'
  BY <1>1, <1>2 DEF LspInv, FactsInv, RecordedInv, TextInv, Suits, NoOpen
<1>4. IdsInv'
  BY <1>1, <1>2 DEF LspInv, IdsInv, Fits, Asks, NoOpen
<1>5. PrimingInv'
  BY <1>1, <1>2 DEF LspInv, PrimingInv, Primed, EndsPriming
<1> QED BY <1>1, <1>3, <1>4, <1>5 DEF LspInv

LEMMA StutterStep == ASSUME LspInv, UNCHANGED vars PROVE LspInv'
<1>1. /\ UNCHANGED <<saves, slot, ready, nextId, client, facts, recorded>>
      /\ UNCHANGED <<toServer, toClient, server>>
  BY DEF vars, clientVars
<1>2. TypeInv' /\ FactsInv' /\ RecordedInv' /\ TextInv'
  BY <1>1 DEF LspInv, TypeInv, FactsInv, RecordedInv, TextInv, Suits, NoOpen
<1>3. IdsInv' /\ PrimingInv'
  BY <1>1 DEF LspInv, IdsInv, Fits, Asks, NoOpen, PrimingInv, Primed, EndsPriming
<1> QED BY <1>2, <1>3 DEF LspInv

\* The facts recorded as compiler-verified are replies to the questions asked
\* about that very text, whatever the server takes its time for, in whatever
\* order it answers and whenever it exits.
THEOREM VerifiedFacts == LspSpec => []FactsAreVerified
<1>1. Init => LspInv
  BY InitInv
<1>2. LspInv /\ [Next]_vars => LspInv'
  <2> SUFFICES ASSUME LspInv, [Next]_vars PROVE LspInv'
    OBVIOUS
  <2>1. CASE Save
    BY <2>1, SaveStep
  <2>2. CASE Client
    BY <2>2, PingStep, StopWaitingStep, OpenStep, NextSymbolStep, ReadMessageStep,
       ReadEndStep DEF Client
  <2>3. CASE Take \/ Answer \/ Report \/ Exit
    BY <2>3, TakeStep, AnswerStep, ReportStep, ExitStep
  <2>4. CASE UNCHANGED vars
    BY <2>4, StutterStep
  <2> QED BY <2>1, <2>2, <2>3, <2>4 DEF Next
<1>3. LspInv => FactsAreVerified
  BY DEF LspInv, RecordedInv, Suits, FactsAreVerified
<1> QED BY <1>1, <1>2, <1>3, PTL DEF LspSpec
==============================================================================
