------------------------------ MODULE RelayProofs ------------------------------
(***************************************************************************)
(* Proofs about the relay of sessions to unix sockets over the one         *)
(* connection to the proxy, for any number of sessions, capacities and     *)
(* messages.                                                               *)
(***************************************************************************)
EXTENDS SocketRelay, BackendProofs

--------------------------------------------------------------------------------
(* The invariant, for a session k.                                          *)

RelayType ==
    /\ client \in [Sessions -> {"new", "open", "closed", "ended"}]
    /\ sent \in [Sessions -> Nat] /\ received \in [Sessions -> Seq(Nat)]
    /\ toBackend \in Seq(Messages) /\ responseChannel \in Seq(Messages)
    /\ responders \subseteq handled /\ handled \subseteq Sessions
    /\ incoming \in [Sessions -> Seq(Nat)]
    /\ reader \in [Sessions -> {"start", "read", "send", "signal", "done"}]
    /\ writer \in [Sessions -> {"none", "receive", "write", "done"}]
    /\ produced \in [Sessions -> Nat] /\ holding \in [Sessions -> Nat]
    /\ written \in [Sessions -> Seq(Nat)]

\* The websocket delivers Connect, the bodies and Close in this order, and the read
\* loop forgets a session only after its client is gone.
WebsocketOK(k) ==
    /\ Sequenced(toBackend, k) /\ Increasing(toBackend, k)
    /\ \A n \in Bodies(toBackend, k) : n <= sent[k]
    /\ client[k] = "new" =>
          /\ sent[k] = 0 /\ k \notin handled
          /\ ~Carries(toBackend, k, "Connect") /\ ~Carries(toBackend, k, "Body")
          /\ ~Carries(toBackend, k, "Close")
    /\ k \in handled => ~Carries(toBackend, k, "Connect")
    /\ client[k] = "open" =>
          ~Carries(toBackend, k, "Close") /\ (k \in handled => k \in responders)
    /\ k \in handled \ responders => ~Carries(toBackend, k, "Body")

\* The chunks sent on responseChannel.
SentUpTo(k) == IF reader[k] = "send" THEN produced[k] - 1 ELSE produced[k]

Answered(k) == Carries(responseChannel, k, "Body") \/ Carries(responseChannel, k, "Close")

\* Before Connect is read nothing has happened in the session; its handler then sends
\* the chunks in order and Close at the end.
ResponsesOK(k) ==
    /\ ~Carries(responseChannel, k, "Connect")
    /\ Increasing(responseChannel, k)
    /\ \A n \in Bodies(responseChannel, k) : n <= SentUpTo(k)
    /\ Answered(k) => client[k] # "new" /\ ~Carries(toBackend, k, "Connect")
    /\ k \notin handled =>
          /\ reader[k] = "start" /\ produced[k] = 0 /\ writer[k] = "none"
          /\ incoming[k] = <<>> /\ written[k] = <<>>
          /\ ~Carries(responseChannel, k, "Body")
    /\ k \in handled => EndsWithClose(responseChannel, k)
    /\ k \in handled /\ reader[k] # "done" => ~Carries(responseChannel, k, "Close")
    /\ reader[k] = "send" => produced[k] > 0
    /\ reader[k] = "start" => writer[k] = "none"

\* A client gets the chunks in order, and all of them before its connection is ended.
ClientOK(k) ==
    /\ received[k] = UpTo(Len(received[k]))
    /\ client[k] \in {"new", "open"} =>
          /\ Len(received[k]) <= SentUpTo(k)
          /\ Bodies(responseChannel, k) = Len(received[k]) + 1 .. SentUpTo(k)
    /\ client[k] = "ended" =>
          /\ ~Carries(toBackend, k, "Connect") /\ (k \in handled => reader[k] = "done")
          /\ Len(received[k]) = produced[k]

\* The messages the goroutine has taken from the session's channel.
Taken(k) == IF writer[k] = "write" THEN Len(written[k]) + 1 ELSE Len(written[k])

\* A client's messages pass the websocket, the channel and the goroutine in order.
SocketOK(k) ==
    /\ written[k] = UpTo(Len(written[k]))
    /\ writer[k] = "write" => holding[k] = Len(written[k]) + 1
    /\ writer[k] # "done" =>
          /\ \A i \in DOMAIN incoming[k] : incoming[k][i] = Taken(k) + i
          /\ k \in responders \/ Carries(toBackend, k, "Connect") =>
                /\ Taken(k) + Len(incoming[k]) <= sent[k]
                /\ Bodies(toBackend, k) = Taken(k) + Len(incoming[k]) + 1 .. sent[k]

SessionOK(k) == WebsocketOK(k) /\ ResponsesOK(k) /\ ClientOK(k) /\ SocketOK(k)

RelayInv == RelayType /\ \A k \in Sessions : SessionOK(k)

\* A run of numbers grows at its end and shrinks at its beginning.
LEMMA Runs ==
    ASSUME NEW a \in Nat, NEW b \in Nat, a <= b
    PROVE  /\ (a + 1 .. b) \union {b + 1} = a + 1 .. b + 1
           /\ a < b => (a + 1 .. b) \ {a + 1} = a + 2 .. b
  OBVIOUS

\* An empty run, and the first number of another.
LEMMA FirstOfRun ==
    ASSUME NEW a \in Nat, NEW b \in Nat, a <= b
    PROVE  /\ a + 1 .. b = {} => a = b
           /\ \A h \in a + 1 .. b : (\A n \in a + 1 .. b : h <= n) => h = a + 1 /\ a < b
<1>1. a < b => a + 1 \in a + 1 .. b
  OBVIOUS
<1>2. a + 1 .. b = {} => a = b
  BY <1>1
<1>3. ASSUME NEW h \in a + 1 .. b, \A n \in a + 1 .. b : h <= n PROVE h = a + 1 /\ a < b
  <2>1. h \in Nat /\ a < b /\ a + 1 <= h
    OBVIOUS
  <2>2. h <= a + 1
    BY <1>1, <1>3, <2>1, Zenon
  <2>. QED
    BY <2>1, <2>2
<1>. QED
  BY <1>2, <1>3, Zenon

\* A queue that is the same for session k.
Same(s, t, k) ==
    /\ \A type : Carries(t, k, type) <=> Carries(s, k, type)
    /\ Bodies(t, k) = Bodies(s, k)
    /\ Increasing(s, k) => Increasing(t, k)
    /\ Sequenced(s, k) => Sequenced(t, k)
    /\ EndsWithClose(s, k) => EndsWithClose(t, k)

\* What one session sends or receives changes nothing for another.
LEMMA KeptQueue ==
    ASSUME NEW s \in Seq(Messages), NEW t, NEW k, Increasing(s, k),
           \/ t = s
           \/ \E m \in Messages : m.Key # k /\ t = Append(s, m)
           \/ s # <<>> /\ Head(s).Key # k /\ t = Tail(s)
    PROVE  Same(s, t, k)
<1>1. CASE t = s
  BY <1>1, Zenon DEF Same
<1>2. ASSUME NEW m \in Messages, m.Key # k, t = Append(s, m) PROVE Same(s, t, k)
  <2>1. ASSUME NEW type PROVE Carries(t, k, type) <=> Carries(s, k, type)
    BY <1>2, SendQueue, Zenon
  <2>2. Increasing(s, k) => Increasing(t, k)
    BY <1>2, SendQueue, Zenon
  <2>3. Sequenced(s, k) => Sequenced(t, k)
    BY <1>2, SendQueue, Zenon
  <2>4. EndsWithClose(s, k) => EndsWithClose(t, k)
    BY <1>2, SendQueue, Zenon
  <2>5. Bodies(t, k) = Bodies(s, k)
    BY <1>2, AppendQueue DEF Bodies
  <2>. QED
    BY <2>1, <2>2, <2>3, <2>4, <2>5, Zenon DEF Same
<1>3. CASE s # <<>> /\ Head(s).Key # k /\ t = Tail(s)
  BY <1>3, ReceiveQueue, Zenon DEF Same
<1>. QED
  BY <1>1, <1>2, <1>3, Zenon

\* The state of session k outside the two queues.
Untouched(k) ==
    /\ client'[k] = client[k] /\ sent'[k] = sent[k] /\ received'[k] = received[k]
    /\ incoming'[k] = incoming[k] /\ reader'[k] = reader[k] /\ writer'[k] = writer[k]
    /\ produced'[k] = produced[k] /\ holding'[k] = holding[k] /\ written'[k] = written[k]
    /\ (k \in handled' <=> k \in handled) /\ (k \in responders' <=> k \in responders)

\* A session that a step does not touch, and whose messages it leaves in the queues,
\* keeps its invariant.
LEMMA Elsewhere ==
    ASSUME NEW k \in Sessions, SessionOK(k), Untouched(k),
           Same(toBackend, toBackend', k), Same(responseChannel, responseChannel', k)
    PROVE  SessionOK(k)'
<1>1. WebsocketOK(k)'
  BY Zenon DEF SessionOK, Untouched, Same, WebsocketOK
<1>2. ResponsesOK(k)'
  BY Zenon DEF SessionOK, Untouched, Same, ResponsesOK, Answered, SentUpTo
<1>3. ClientOK(k)'
  BY Zenon DEF SessionOK, Untouched, Same, ClientOK, SentUpTo
<1>4. SocketOK(k)'
  BY Zenon DEF SessionOK, Untouched, Same, SocketOK, Taken
<1>. QED
  BY <1>1, <1>2, <1>3, <1>4, Zenon DEF SessionOK

--------------------------------------------------------------------------------
(* The client's steps.                                                      *)

\* A new client: its Connect is the first message of the session.
LEMMA ClientConnectOK ==
    ASSUME RelayType, NEW k \in Sessions, SessionOK(k), ClientConnect(k), UNCHANGED handlerVars
    PROVE  SessionOK(k)'
<1>. DEFINE m == Message(k, "Connect", 0)
<1>1. m \in Messages /\ m.Key = k /\ m.Type = "Connect"
  BY Zenon DEF Message, Messages
<1>2. /\ toBackend \in Seq(Messages) /\ toBackend' = Append(toBackend, m)
      /\ client[k] = "new" /\ client'[k] = "open"
      /\ UNCHANGED <<sent, received, responders, incoming, handled, responseChannel,
                     reader, writer, produced, holding, written>>
  BY Zenon DEF RelayType, ClientConnect, routeVars, handlerVars
<1>. HIDE DEF m
<1>3. /\ \A type : Carries(toBackend', k, type) <=>
             Carries(toBackend, k, type) \/ type = "Connect"
      /\ Bodies(toBackend', k) = Bodies(toBackend, k)
      /\ Bodies(toBackend, k) = {}
      /\ Sequenced(toBackend', k) /\ Increasing(toBackend', k)
  BY <1>1, <1>2, SendCarries, SendQueue, NoBodies, ZenonT(40) DEF SessionOK, WebsocketOK
<1>4. WebsocketOK(k)'
  BY <1>2, <1>3, Zenon DEF SessionOK, WebsocketOK
<1>5. ResponsesOK(k)'
  BY <1>2, <1>3, Zenon DEF SessionOK, WebsocketOK, ResponsesOK, Answered, SentUpTo
<1>6. ClientOK(k)'
  BY <1>2, Zenon DEF SessionOK, ClientOK, SentUpTo
<1>7. SocketOK(k)'
  <2>1. /\ k \notin handled /\ incoming[k] = <<>> /\ written[k] = <<>> /\ writer[k] = "none"
        /\ sent[k] = 0 /\ Len(incoming[k]) = 0 /\ Len(written[k]) = 0 /\ DOMAIN incoming[k] = {}
    BY <1>2 DEF SessionOK, WebsocketOK, ResponsesOK
  <2>2. SocketOK(k)
    BY Zenon DEF SessionOK
  <2>. QED
    BY <1>2, <1>3, <2>1, <2>2 DEF SocketOK, Taken
<1>. QED
  BY <1>4, <1>5, <1>6, <1>7, Zenon DEF SessionOK

\* A client sends its next message while its connection is open.
LEMMA ClientSendOK ==
    ASSUME RelayType, NEW k \in Sessions, SessionOK(k), ClientSend(k), UNCHANGED handlerVars
    PROVE  SessionOK(k)'
<1>. DEFINE m == Message(k, "Body", sent[k] + 1)
<1>1. m \in Messages /\ m.Key = k /\ m.Type = "Body" /\ m.Body = sent[k] + 1 /\ sent[k] \in Nat
  BY DEF Message, Messages, RelayType
<1>2. /\ toBackend \in Seq(Messages) /\ toBackend' = Append(toBackend, m)
      /\ client[k] = "open" /\ sent'[k] = sent[k] + 1
      /\ UNCHANGED <<client, received, responders, incoming, handled, responseChannel,
                     reader, writer, produced, holding, written>>
  BY Zenon DEF RelayType, ClientSend, routeVars, handlerVars
<1>. HIDE DEF m
<1>3. /\ \A type : Carries(toBackend', k, type) <=> Carries(toBackend, k, type) \/ type = "Body"
      /\ Bodies(toBackend', k) = Bodies(toBackend, k) \union {sent[k] + 1}
      /\ Sequenced(toBackend', k)
  <2>1. \A type : Carries(toBackend', k, type) <=> Carries(toBackend, k, type) \/ type = "Body"
    BY <1>1, <1>2, SendCarries, Zenon
  <2>2. Bodies(toBackend', k) = Bodies(toBackend, k) \union {sent[k] + 1}
    BY <1>1, <1>2, SendCarries, ZenonT(40)
  <2>3. Sequenced(toBackend, k) /\ ~Carries(toBackend, k, "Close")
    BY <1>2, Zenon DEF SessionOK, WebsocketOK
  <2>4. Sequenced(toBackend', k)
    BY <1>1, <1>2, <2>3, SendQueue, Zenon
  <2>. QED
    BY <2>1, <2>2, <2>4, Zenon
<1>4. Increasing(toBackend', k)
  <2>1. \A n \in Bodies(toBackend, k) : n \in Nat /\ n <= sent[k]
    BY <1>2, NatBodies, Zenon DEF SessionOK, WebsocketOK
  <2>2. \A n \in Bodies(toBackend, k) : n < m.Body
    BY <1>1, <2>1
  <2>. QED
    BY <1>1, <1>2, <2>2, SendQueue, Zenon DEF SessionOK, WebsocketOK
<1>5. WebsocketOK(k)'
  <2>1. \A n \in Bodies(toBackend', k) : n <= sent'[k]
    <3>1. \A n \in Bodies(toBackend, k) : n \in Nat /\ n <= sent[k]
      BY <1>2, NatBodies, Zenon DEF SessionOK, WebsocketOK
    <3>. QED
      BY <1>1, <1>2, <1>3, <3>1
  <2>. QED
    BY <1>2, <1>3, <1>4, <2>1, Zenon DEF SessionOK, WebsocketOK
<1>6. ResponsesOK(k)' /\ ClientOK(k)'
  BY <1>2, <1>3, Zenon DEF SessionOK, ResponsesOK, ClientOK, Answered, SentUpTo
<1>7. SocketOK(k)'
  <2>1. Taken(k) \in Nat /\ Len(incoming[k]) \in Nat /\ Taken(k)' = Taken(k)
    BY <1>2 DEF RelayType, Taken
  <2>2. SocketOK(k)
    BY Zenon DEF SessionOK
  <2>3. ASSUME writer[k] # "done", k \in responders \/ Carries(toBackend, k, "Connect")
        PROVE  /\ Taken(k) + Len(incoming[k]) <= sent'[k]
               /\ Bodies(toBackend', k) = Taken(k) + Len(incoming[k]) + 1 .. sent'[k]
    <3>. DEFINE a == Taken(k) + Len(incoming[k])
    <3>1. a \in Nat /\ a <= sent[k] /\ Bodies(toBackend, k) = a + 1 .. sent[k]
      BY <2>1, <2>2, <2>3 DEF SocketOK
    <3>. HIDE DEF a
    <3>2. a <= sent[k] + 1 /\ Bodies(toBackend', k) = a + 1 .. sent[k] + 1
      BY <1>1, <1>3, <3>1, Runs
    <3>. QED
      BY <1>2, <3>2, Zenon DEF a
  <2>. QED
    BY <1>2, <1>3, <2>1, <2>2, <2>3, Zenon DEF SocketOK
<1>. QED
  BY <1>5, <1>6, <1>7, Zenon DEF SessionOK

\* A client leaves: its Close is the last message but for the proxy's own.
LEMMA ClientCloseOK ==
    ASSUME RelayType, NEW k \in Sessions, SessionOK(k), ClientClose(k), UNCHANGED handlerVars
    PROVE  SessionOK(k)'
<1>. DEFINE m == Message(k, "Close", 0)
<1>1. m \in Messages /\ m.Key = k /\ m.Type = "Close"
  BY Zenon DEF Message, Messages
<1>2. /\ toBackend \in Seq(Messages) /\ toBackend' = Append(toBackend, m)
      /\ client[k] = "open" /\ client'[k] = "closed"
      /\ UNCHANGED <<sent, received, responders, incoming, handled, responseChannel,
                     reader, writer, produced, holding, written>>
  BY Zenon DEF RelayType, ClientClose, routeVars, handlerVars
<1>. HIDE DEF m
<1>3. /\ \A type : Carries(toBackend', k, type) <=> Carries(toBackend, k, type) \/ type = "Close"
      /\ Bodies(toBackend', k) = Bodies(toBackend, k)
      /\ Sequenced(toBackend', k) /\ Increasing(toBackend', k)
  <2>1. \A type : Carries(toBackend', k, type) <=> Carries(toBackend, k, type) \/ type = "Close"
    BY <1>1, <1>2, SendCarries, Zenon
  <2>2. Bodies(toBackend', k) = Bodies(toBackend, k)
    BY <1>1, <1>2, SendCarries, Zenon
  <2>3. Sequenced(toBackend, k) /\ Increasing(toBackend, k)
    BY Zenon DEF SessionOK, WebsocketOK
  <2>4. Increasing(toBackend', k)
    BY <1>1, <1>2, <2>3, SendQueue, Zenon
  <2>5. Sequenced(toBackend', k)
    BY <1>1, <1>2, <2>3, SendQueue, Zenon
  <2>. QED
    BY <2>1, <2>2, <2>4, <2>5, Zenon
<1>4. WebsocketOK(k)'
  BY <1>2, <1>3, Zenon DEF SessionOK, WebsocketOK
<1>5. ResponsesOK(k)' /\ ClientOK(k)'
  BY <1>2, <1>3, Zenon DEF SessionOK, ResponsesOK, ClientOK, Answered, SentUpTo
<1>6. SocketOK(k)'
  BY <1>2, <1>3, Zenon DEF SessionOK, SocketOK, Taken
<1>. QED
  BY <1>4, <1>5, <1>6, Zenon DEF SessionOK

--------------------------------------------------------------------------------
(* The read loop's steps.                                                   *)

\* A session that no message in a queue is about.
LEMMA NoMessages ==
    ASSUME NEW s \in Seq(Messages), NEW k,
           ~Carries(s, k, "Connect"), ~Carries(s, k, "Body"), ~Carries(s, k, "Close")
    PROVE  EndsWithClose(s, k)
<1>1. \A i \in DOMAIN s : s[i] \in Messages
  BY LenProperties, Zenon
<1>. QED
  BY <1>1, Zenon DEF Carries, EndsWithClose, Messages

\* The read loop's Close for a session without handler.
LEMMA RefuseOK ==
    ASSUME RelayType, NEW k \in Sessions, SessionOK(k), k \notin handled, Respond(k, "Close", 0)
    PROVE  /\ \A type : Carries(responseChannel', k, type) <=>
                  Carries(responseChannel, k, type) \/ type = "Close"
           /\ Bodies(responseChannel', k) = Bodies(responseChannel, k)
           /\ Increasing(responseChannel', k)
<1>. DEFINE m == Message(k, "Close", 0)
<1>1. m \in Messages /\ m.Key = k /\ m.Type = "Close"
  BY Zenon DEF Message, Messages
<1>2. responseChannel \in Seq(Messages) /\ responseChannel' = Append(responseChannel, m)
  BY Zenon DEF RelayType, Respond
<1>. HIDE DEF m
<1>3. Increasing(responseChannel, k)
  BY Zenon DEF SessionOK, ResponsesOK
<1>4. \A type : Carries(responseChannel', k, type) <=>
          Carries(responseChannel, k, type) \/ type = "Close"
  BY <1>1, <1>2, SendCarries, Zenon
<1>5. Bodies(responseChannel', k) = Bodies(responseChannel, k)
  BY <1>1, <1>2, SendQueue, Zenon
<1>6. Increasing(responseChannel', k)
  BY <1>1, <1>2, <1>3, SendQueue, Zenon
<1>. QED
  BY <1>4, <1>5, <1>6, Zenon

\* Taking a message off the websocket.
LEMMA ReadMessageOK ==
    ASSUME RelayType, NEW k \in Sessions, SessionOK(k),
           NEW type \in {"Connect", "Body", "Close"}, ReadMessage(k, type)
    PROVE  /\ Carries(toBackend, k, type) /\ ~Carries(toBackend', k, "Connect")
           /\ \A u : Carries(toBackend', k, u) => Carries(toBackend, k, u)
           /\ \A u : u # type /\ Carries(toBackend, k, u) => Carries(toBackend', k, u)
           /\ type = "Close" => ~Carries(toBackend', k, "Body")
           /\ Sequenced(toBackend', k) /\ Increasing(toBackend', k)
           /\ type # "Body" => Bodies(toBackend', k) = Bodies(toBackend, k)
           /\ type = "Body" =>
                 /\ Bodies(toBackend', k) = Bodies(toBackend, k) \ {Head(toBackend).Body}
                 /\ Head(toBackend).Body \in Bodies(toBackend, k)
                 /\ \A n \in Bodies(toBackend, k) : Head(toBackend).Body <= n
<1>1. /\ toBackend \in Seq(Messages) /\ toBackend # <<>> /\ toBackend' = Tail(toBackend)
      /\ Head(toBackend).Key = k /\ Head(toBackend).Type = type
      /\ Sequenced(toBackend, k) /\ Increasing(toBackend, k)
  BY Zenon DEF RelayType, ReadMessage, SessionOK, WebsocketOK
<1>2. ASSUME NEW u PROVE Carries(toBackend, k, u) <=> Carries(toBackend', k, u) \/ u = type
  <2>1. Carries(toBackend, k, u) <=>
            \/ Carries(toBackend', k, u)
            \/ Head(toBackend).Key = k /\ Head(toBackend).Type = u
    BY <1>1, ReceiveCarries, Zenon
  <2>. QED
    BY <1>1, <2>1, Zenon
<1>3. /\ Sequenced(toBackend', k) /\ ~Carries(toBackend', k, "Connect")
      /\ type = "Close" => ~Carries(toBackend', k, "Body")
  BY <1>1, ReceiveQueue, Zenon
<1>4. /\ Increasing(toBackend', k)
      /\ type # "Body" => Bodies(toBackend', k) = Bodies(toBackend, k)
  BY <1>1, ReceiveQueue, Zenon
<1>5. type = "Body" =>
          /\ Bodies(toBackend', k) = Bodies(toBackend, k) \ {Head(toBackend).Body}
          /\ Head(toBackend).Body \in Bodies(toBackend, k)
          /\ \A n \in Bodies(toBackend, k) : Head(toBackend).Body <= n
  BY <1>1, ReceiveQueue, ZenonT(40)
<1>. QED
  BY <1>2, <1>3, <1>4, <1>5, Zenon

\* The read loop starts the handler of the session, refuses it or ignores it.
LEMMA RouteConnectOK ==
    ASSUME RelayType, NEW k \in Sessions, SessionOK(k), RouteConnect(k), UNCHANGED handlerVars
    PROVE  SessionOK(k)'
<1>1. /\ UNCHANGED <<client, sent, received, incoming, reader, writer, produced, holding, written>>
      /\ \/ /\ responders' = responders \union {k} /\ handled' = handled \union {k}
            /\ UNCHANGED responseChannel
         \/ Respond(k, "Close", 0) /\ UNCHANGED <<responders, handled>>
         \/ UNCHANGED <<responders, handled, responseChannel>>
  BY Zenon DEF RouteConnect, proxyVars, handlerVars
<1>2. /\ Carries(toBackend, k, "Connect") /\ ~Carries(toBackend', k, "Connect")
      /\ \A u : Carries(toBackend', k, u) => Carries(toBackend, k, u)
      /\ Sequenced(toBackend', k) /\ Increasing(toBackend', k)
      /\ Bodies(toBackend', k) = Bodies(toBackend, k)
  BY ReadMessageOK, Zenon DEF RouteConnect
<1>3. k \notin handled /\ k \notin responders /\ client[k] # "new" /\ client[k] # "ended" /\ ~Answered(k)
  BY <1>2, Zenon DEF SessionOK, WebsocketOK, ResponsesOK, ClientOK, RelayType
<1>4. WebsocketOK(k)'
  BY <1>1, <1>2, <1>3, Zenon DEF SessionOK, WebsocketOK
<1>5. ResponsesOK(k)' /\ ClientOK(k)'
  <2>1. CASE UNCHANGED responseChannel
    <3>1. EndsWithClose(responseChannel, k)
      BY <1>3, NoMessages, Zenon DEF RelayType, Answered, SessionOK, ResponsesOK
    <3>2. ~Answered(k)'
      BY <1>3, <2>1, Zenon DEF Answered
    <3>3. ResponsesOK(k)'
      BY <1>1, <1>3, <2>1, <3>1, <3>2, Zenon DEF SessionOK, ResponsesOK, Answered, SentUpTo
    <3>4. ClientOK(k)'
      BY <1>1, <1>3, <2>1, Zenon DEF SessionOK, ClientOK, SentUpTo
    <3>. QED
      BY <3>3, <3>4, Zenon
  <2>2. CASE Respond(k, "Close", 0) /\ UNCHANGED <<responders, handled>>
    <3>1. ResponsesOK(k)'
      BY <1>1, <1>2, <1>3, <2>2, RefuseOK, Zenon
        DEF SessionOK, ResponsesOK, Answered, SentUpTo
    <3>2. ClientOK(k)'
      BY <1>1, <1>3, <2>2, RefuseOK, Zenon DEF SessionOK, ClientOK, SentUpTo
    <3>. QED
      BY <3>1, <3>2, Zenon
  <2>. QED
    BY <1>1, <2>1, <2>2, Zenon
<1>6. SocketOK(k)'
  BY <1>1, <1>2, Zenon DEF SessionOK, SocketOK, Taken
<1>. QED
  BY <1>4, <1>5, <1>6, Zenon DEF SessionOK

\* The read loop puts the next message of the client in the channel of the session, or
\* answers with Close.
LEMMA RouteBodyOK ==
    ASSUME RelayType, NEW k \in Sessions, SessionOK(k), RouteBody(k), UNCHANGED handlerVars
    PROVE  SessionOK(k)'
<1>. DEFINE b == Head(toBackend).Body
<1>1. /\ UNCHANGED <<client, sent, received, responders, handled, reader, writer, produced,
                     holding, written>>
      /\ \/ /\ k \in responders /\ incoming' = [incoming EXCEPT ![k] = Append(@, b)]
            /\ UNCHANGED responseChannel
         \/ k \notin responders /\ Respond(k, "Close", 0) /\ UNCHANGED incoming
  BY Zenon DEF RouteBody, proxyVars, handlerVars
<1>2. /\ Carries(toBackend, k, "Body") /\ ~Carries(toBackend', k, "Connect")
      /\ \A u : Carries(toBackend', k, u) => Carries(toBackend, k, u)
      /\ \A u : u # "Body" /\ Carries(toBackend, k, u) => Carries(toBackend', k, u)
      /\ Sequenced(toBackend', k) /\ Increasing(toBackend', k)
      /\ Bodies(toBackend', k) = Bodies(toBackend, k) \ {b}
      /\ b \in Bodies(toBackend, k) /\ \A n \in Bodies(toBackend, k) : b <= n
  BY ReadMessageOK, Zenon DEF RouteBody
<1>. HIDE DEF b
<1>3. b \in Nat /\ client[k] # "new" /\ ~Carries(toBackend, k, "Connect")
  BY <1>2, NatBodies, Zenon DEF RelayType, SessionOK, WebsocketOK
<1>4. WebsocketOK(k)'
  BY <1>1, <1>2, <1>3, Zenon DEF SessionOK, WebsocketOK
<1>5. CASE k \in responders
  <2>1. incoming' = [incoming EXCEPT ![k] = Append(@, b)] /\ UNCHANGED responseChannel
    BY <1>1, <1>5, Zenon
  <2>2. k \in handled
    BY <1>5, Zenon DEF RelayType
  <2>3. ResponsesOK(k)' /\ ClientOK(k)'
    BY <1>1, <1>2, <1>3, <2>1, <2>2, Zenon
      DEF SessionOK, ResponsesOK, ClientOK, Answered, SentUpTo
  <2>4. SocketOK(k)'
    <3>. DEFINE n == Len(incoming[k])
    <3>1. /\ incoming[k] \in Seq(Nat) /\ incoming'[k] = Append(incoming[k], b)
          /\ Taken(k) \in Nat /\ Taken(k)' = Taken(k) /\ sent[k] \in Nat
      BY <1>1, <2>1 DEF RelayType, Taken
    <3>2. /\ n \in Nat /\ Len(incoming'[k]) = n + 1 /\ incoming'[k][n + 1] = b
          /\ \A i \in DOMAIN incoming'[k] : i = n + 1 \/
                (i \in DOMAIN incoming[k] /\ incoming'[k][i] = incoming[k][i])
      BY <1>3, <3>1, AppendProperties
    <3>. HIDE DEF n
    <3>3. SocketOK(k)
      BY Zenon DEF SessionOK
    <3>4. ASSUME writer[k] # "done"
          PROVE  /\ \A i \in DOMAIN incoming'[k] : incoming'[k][i] = Taken(k) + i
                 /\ Taken(k) + n + 1 <= sent[k]
                 /\ Bodies(toBackend', k) = Taken(k) + n + 1 + 1 .. sent[k]
      <4>. DEFINE a == Taken(k) + n
      <4>1. a \in Nat /\ a <= sent[k] /\ Bodies(toBackend, k) = a + 1 .. sent[k]
        BY <1>5, <3>1, <3>2, <3>3, <3>4 DEF SocketOK, n
      <4>2. b = a + 1 /\ a < sent[k]
        BY <1>2, <1>3, <3>1, <4>1
      <4>3. Bodies(toBackend', k) = a + 2 .. sent[k]
        BY <1>2, <3>1, <4>1, <4>2, Runs
      <4>4. \A i \in DOMAIN incoming'[k] : incoming'[k][i] = Taken(k) + i
        <5>1. \A i \in DOMAIN incoming[k] : incoming[k][i] = Taken(k) + i
          BY <3>3, <3>4, Zenon DEF SocketOK
        <5>2. b = Taken(k) + (n + 1)
          BY <3>1, <3>2, <4>2
        <5>. QED
          BY <3>2, <5>1, <5>2, Zenon
      <4>. QED
        BY <3>1, <3>2, <4>1, <4>2, <4>3, <4>4, SMTT(30)
    <3>5. Taken(k) + (n + 1) = Taken(k) + n + 1
      BY <3>1, <3>2
    <3>. QED
      BY <1>1, <3>1, <3>2, <3>3, <3>4, <3>5, Zenon DEF SocketOK
  <2>. QED
    BY <1>4, <2>3, <2>4, Zenon DEF SessionOK
<1>6. CASE k \notin responders
  <2>1. Respond(k, "Close", 0) /\ UNCHANGED incoming
    BY <1>1, <1>6, Zenon
  <2>2. k \notin handled
    BY <1>2, <1>6, Zenon DEF SessionOK, WebsocketOK
  <2>3. ResponsesOK(k)'
    BY <1>1, <1>2, <1>3, <2>1, <2>2, RefuseOK, Zenon
      DEF SessionOK, ResponsesOK, Answered, SentUpTo
  <2>4. ClientOK(k)'
    BY <1>1, <1>2, <2>1, <2>2, RefuseOK, Zenon DEF SessionOK, ClientOK, SentUpTo
  <2>5. SocketOK(k)'
    BY <1>1, <1>2, <1>6, <2>1, Zenon DEF SessionOK, SocketOK, Taken
  <2>. QED
    BY <1>4, <2>3, <2>4, <2>5, Zenon DEF SessionOK
<1>. QED
  BY <1>5, <1>6, Zenon

\* The read loop forgets the session: no message of its client is left to route.
LEMMA RouteCloseOK ==
    ASSUME RelayType, NEW k \in Sessions, SessionOK(k), RouteClose(k), UNCHANGED handlerVars
    PROVE  SessionOK(k)'
<1>1. /\ UNCHANGED <<client, sent, received, incoming, handled, responseChannel, reader, writer,
                     produced, holding, written>>
      /\ responders' = responders \ {k}
  BY Zenon DEF RouteClose, proxyVars, handlerVars
<1>2. /\ Carries(toBackend, k, "Close")
      /\ ~Carries(toBackend', k, "Connect") /\ ~Carries(toBackend', k, "Body")
      /\ \A u : Carries(toBackend', k, u) => Carries(toBackend, k, u)
      /\ Sequenced(toBackend', k) /\ Increasing(toBackend', k)
      /\ Bodies(toBackend', k) = Bodies(toBackend, k)
  BY ReadMessageOK, Zenon DEF RouteClose
<1>3. WebsocketOK(k)'
  BY <1>1, <1>2, Zenon DEF SessionOK, WebsocketOK
<1>4. ResponsesOK(k)'
  BY <1>1, <1>2, Zenon DEF SessionOK, ResponsesOK, Answered, SentUpTo
<1>5. ClientOK(k)' /\ SocketOK(k)'
  BY <1>1, <1>2, Zenon DEF SessionOK, ClientOK, SocketOK, SentUpTo, Taken
<1>. QED
  BY <1>3, <1>4, <1>5, Zenon DEF SessionOK

--------------------------------------------------------------------------------
(* The write loop.                                                          *)

\* Numbers in order stay so with the next one at the end.
LEMMA NextInOrder ==
    ASSUME NEW s \in Seq(Nat), s = UpTo(Len(s)), NEW t, t = Append(s, Len(s) + 1)
    PROVE  t \in Seq(Nat) /\ Len(t) = Len(s) + 1 /\ t = UpTo(Len(t))
<1>1. Len(s) \in Nat /\ t \in Seq(Nat) /\ Len(t) = Len(s) + 1
  BY AppendProperties, LenProperties
<1>2. \A i \in 1 .. Len(s) + 1 : t[i] = i
  <2>1. \A i \in 1 .. Len(s) : t[i] = s[i] /\ s[i] = i
    BY AppendProperties DEF UpTo
  <2>2. t[Len(s) + 1] = Len(s) + 1
    BY <1>1, AppendProperties
  <2>. QED
    BY <1>1, <2>1, <2>2
<1>3. t = [i \in 1 .. Len(t) |-> t[i]]
  BY <1>1, LenProperties, Zenon
<1>. QED
  BY <1>1, <1>2, <1>3, Zenon DEF UpTo

\* The Close the proxy sends back for session k leaves the rest of the websocket as
\* it is.
LEMMA ProxyCloseOK ==
    ASSUME RelayType, NEW k \in Sessions, SessionOK(k),
           toBackend' = toBackend \/ toBackend' = Append(toBackend, Message(k, "Close", 0))
    PROVE  /\ \A type : type # "Close" =>
                  (Carries(toBackend', k, type) <=> Carries(toBackend, k, type))
           /\ Bodies(toBackend', k) = Bodies(toBackend, k)
           /\ Sequenced(toBackend', k) /\ Increasing(toBackend', k)
<1>. DEFINE m == Message(k, "Close", 0)
<1>1. m \in Messages /\ m.Key = k /\ m.Type = "Close"
  BY Zenon DEF Message, Messages
<1>2. toBackend \in Seq(Messages) /\ Sequenced(toBackend, k) /\ Increasing(toBackend, k)
  BY Zenon DEF RelayType, SessionOK, WebsocketOK
<1>. HIDE DEF m
<1>3. CASE toBackend' = Append(toBackend, m)
  <2>1. \A type : Carries(toBackend', k, type) <=> Carries(toBackend, k, type) \/ type = "Close"
    BY <1>1, <1>2, <1>3, SendQueue, ZenonT(40)
  <2>2. Bodies(toBackend', k) = Bodies(toBackend, k)
    BY <1>1, <1>2, <1>3, SendQueue, Zenon
  <2>3. Sequenced(toBackend', k) /\ Increasing(toBackend', k)
    BY <1>1, <1>2, <1>3, SendQueue, Zenon
  <2>. QED
    BY <2>1, <2>2, <2>3, Zenon
<1>4. CASE toBackend' = toBackend
  BY <1>2, <1>4, Zenon
<1>. QED
  BY <1>3, <1>4, Zenon DEF m

\* A response taken off responseChannel: the chunks come in order, and after the Close
\* of a handler nothing does.
LEMMA TakeResponseOK ==
    ASSUME RelayType, NEW k \in Sessions, SessionOK(k),
           responseChannel # <<>>, responseChannel' = Tail(responseChannel),
           Head(responseChannel).Key = k
    PROVE  /\ Carries(responseChannel, k, Head(responseChannel).Type)
           /\ \A u : Carries(responseChannel', k, u) => Carries(responseChannel, k, u)
           /\ Increasing(responseChannel', k)
           /\ EndsWithClose(responseChannel, k) => EndsWithClose(responseChannel', k)
           /\ Head(responseChannel).Type # "Body" =>
                 Bodies(responseChannel', k) = Bodies(responseChannel, k)
           /\ Head(responseChannel).Type = "Body" =>
                 /\ Bodies(responseChannel', k) =
                       Bodies(responseChannel, k) \ {Head(responseChannel).Body}
                 /\ Head(responseChannel).Body \in Bodies(responseChannel, k)
                 /\ \A n \in Bodies(responseChannel, k) : Head(responseChannel).Body <= n
           /\ EndsWithClose(responseChannel, k) /\ Head(responseChannel).Type = "Close" =>
                 ~Carries(responseChannel', k, "Body")
<1>1. responseChannel \in Seq(Messages) /\ Increasing(responseChannel, k)
  BY Zenon DEF RelayType, SessionOK, ResponsesOK
<1>2. ASSUME NEW u
      PROVE  Carries(responseChannel, k, u) <=>
                Carries(responseChannel', k, u) \/ Head(responseChannel).Type = u
  <2>1. Carries(responseChannel, k, u) <=>
            \/ Carries(responseChannel', k, u)
            \/ Head(responseChannel).Key = k /\ Head(responseChannel).Type = u
    BY <1>1, ReceiveCarries, Zenon
  <2>. QED
    BY <2>1, Zenon
<1>3. /\ EndsWithClose(responseChannel, k) => EndsWithClose(responseChannel', k)
      /\ EndsWithClose(responseChannel, k) /\ Head(responseChannel).Type = "Close" =>
            ~Carries(responseChannel', k, "Body")
  BY <1>1, ReceiveQueue, Zenon
<1>4. /\ Increasing(responseChannel', k)
      /\ Head(responseChannel).Type # "Body" =>
            Bodies(responseChannel', k) = Bodies(responseChannel, k)
  BY <1>1, ReceiveQueue, Zenon
<1>5. Head(responseChannel).Type = "Body" =>
          /\ Bodies(responseChannel', k) =
                Bodies(responseChannel, k) \ {Head(responseChannel).Body}
          /\ Head(responseChannel).Body \in Bodies(responseChannel, k)
          /\ \A n \in Bodies(responseChannel, k) : Head(responseChannel).Body <= n
  BY <1>1, ReceiveQueue, ZenonT(40)
<1>. QED
  BY <1>2, <1>3, <1>4, <1>5, Zenon

\* The write loop: the client gets the next chunk, or is ended by a Close that comes
\* after every chunk.
LEMMA WriteMessageOK ==
    ASSUME RelayType, NEW k \in Sessions, SessionOK(k), WriteMessage(k), UNCHANGED handlerVars
    PROVE  SessionOK(k)'
<1>. DEFINE m == Head(responseChannel)
<1>1. /\ UNCHANGED <<sent, responders, incoming, handled, reader, writer, produced, holding,
                     written>>
      /\ responseChannel # <<>> /\ responseChannel' = Tail(responseChannel) /\ m.Key = k
      /\ \/ /\ m.Type = "Body" /\ client[k] = "open"
            /\ received' = [received EXCEPT ![k] = Append(@, m.Body)]
            /\ UNCHANGED <<client, toBackend>>
         \/ /\ m.Type = "Body" /\ client[k] # "open"
            /\ toBackend' = Append(toBackend, Message(k, "Close", 0))
            /\ UNCHANGED <<client, received>>
         \/ /\ m.Type = "Close" /\ client[k] = "open"
            /\ client' = [client EXCEPT ![k] = "ended"]
            /\ toBackend' = Append(toBackend, Message(k, "Close", 0))
            /\ UNCHANGED received
         \/ /\ m.Type = "Close" /\ client[k] # "open"
            /\ UNCHANGED <<client, received, toBackend>>
  BY Zenon DEF WriteMessage, routeVars, handlerVars
<1>2. /\ Carries(responseChannel, k, m.Type)
      /\ \A u : Carries(responseChannel', k, u) => Carries(responseChannel, k, u)
      /\ Increasing(responseChannel', k)
      /\ EndsWithClose(responseChannel, k) => EndsWithClose(responseChannel', k)
      /\ m.Type # "Body" => Bodies(responseChannel', k) = Bodies(responseChannel, k)
      /\ m.Type = "Body" =>
            /\ Bodies(responseChannel', k) = Bodies(responseChannel, k) \ {m.Body}
            /\ m.Body \in Bodies(responseChannel, k)
            /\ \A n \in Bodies(responseChannel, k) : m.Body <= n
      /\ EndsWithClose(responseChannel, k) /\ m.Type = "Close" =>
            ~Carries(responseChannel', k, "Body")
  BY <1>1, TakeResponseOK, Zenon
<1>. HIDE DEF m
<1>3. /\ \A type : type # "Close" =>
             (Carries(toBackend', k, type) <=> Carries(toBackend, k, type))
      /\ Bodies(toBackend', k) = Bodies(toBackend, k)
      /\ Sequenced(toBackend', k) /\ Increasing(toBackend', k)
  BY <1>1, ProxyCloseOK, Zenon
<1>4. Answered(k) /\ client[k] # "new" /\ ~Carries(toBackend, k, "Connect")
  BY <1>1, <1>2, Zenon DEF Answered, SessionOK, ResponsesOK
<1>5. /\ client'[k] # "new"
      /\ client'[k] = "open" => client[k] = "open" /\ toBackend' = toBackend
  BY <1>1, <1>4, Zenon DEF RelayType
<1>6. WebsocketOK(k)'
  BY <1>1, <1>3, <1>5, Zenon DEF SessionOK, WebsocketOK
<1>7. ResponsesOK(k)'
  BY <1>1, <1>2, <1>3, <1>4, <1>5, Zenon DEF SessionOK, ResponsesOK, Answered, SentUpTo
<1>8. SocketOK(k)'
  BY <1>1, <1>3, Zenon DEF SessionOK, SocketOK, Taken
<1>9. ClientOK(k)'
  <2>1. CASE client[k] # "open"
    BY <1>1, <1>3, <1>4, <2>1, Zenon DEF RelayType, SessionOK, ClientOK
  <2>. DEFINE n == Len(received[k])
  <2>2. /\ n \in Nat /\ SentUpTo(k) \in Nat /\ SentUpTo(k)' = SentUpTo(k)
        /\ received[k] \in Seq(Nat) /\ received[k] = UpTo(n)
    BY <1>1 DEF RelayType, SessionOK, ResponsesOK, ClientOK, SentUpTo
  <2>3. client[k] = "open" =>
            n <= SentUpTo(k) /\ Bodies(responseChannel, k) = n + 1 .. SentUpTo(k)
    BY Zenon DEF SessionOK, ClientOK
  <2>4. CASE client[k] = "open" /\ m.Type = "Body"
    <3>1. received'[k] = Append(received[k], m.Body) /\ client'[k] = "open"
      BY <1>1, <2>4, Zenon DEF RelayType
    <3>. HIDE DEF n
    <3>2. m.Body = n + 1 /\ n < SentUpTo(k)
      <4>1. /\ n <= SentUpTo(k) /\ m.Body \in n + 1 .. SentUpTo(k)
            /\ \A j \in n + 1 .. SentUpTo(k) : m.Body <= j
        BY <1>2, <2>3, <2>4, Zenon
      <4>. QED
        BY <2>2, <4>1, FirstOfRun, Zenon
    <3>3. Len(received'[k]) = n + 1 /\ received'[k] = UpTo(Len(received'[k]))
      BY <2>2, <3>1, <3>2, NextInOrder, Zenon DEF n
    <3>4. Bodies(responseChannel', k) = n + 2 .. SentUpTo(k)
      <4>1. Bodies(responseChannel', k) = (n + 1 .. SentUpTo(k)) \ {n + 1}
        BY <1>2, <2>3, <2>4, <3>2, Zenon
      <4>2. (n + 1 .. SentUpTo(k)) \ {n + 1} = n + 2 .. SentUpTo(k)
        BY <2>2, <3>2, Runs
      <4>. QED
        BY <4>1, <4>2, Zenon
    <3>5. n + 1 <= SentUpTo(k) /\ n + 1 + 1 = n + 2
      BY <2>2, <3>2
    <3>. QED
      BY <1>1, <2>2, <3>1, <3>3, <3>4, <3>5, Zenon DEF ClientOK
  <2>5. CASE client[k] = "open" /\ m.Type = "Close"
    <3>1. /\ client'[k] = "ended" /\ UNCHANGED <<received, produced, reader, handled>>
          /\ Carries(responseChannel, k, "Close")
      BY <1>1, <1>2, <2>5, Zenon DEF RelayType
    <3>2. k \in handled => reader[k] = "done" /\ EndsWithClose(responseChannel, k)
      BY <3>1, Zenon DEF SessionOK, ResponsesOK
    <3>3. k \notin handled => produced[k] = 0 /\ reader[k] = "start"
      BY Zenon DEF SessionOK, ResponsesOK
    <3>4. SentUpTo(k) = produced[k]
      BY <3>2, <3>3, Zenon DEF SentUpTo
    <3>5. k \in handled => Bodies(responseChannel, k) = {}
      BY <1>2, <2>5, <3>2, NoBodies, Zenon
    <3>. HIDE DEF n
    <3>6. n = produced[k]
      <4>1. CASE k \in handled
        <5>1. n <= SentUpTo(k) /\ n + 1 .. SentUpTo(k) = {}
          BY <2>3, <2>5, <3>5, <4>1, Zenon
        <5>. QED
          BY <2>2, <3>4, <5>1, FirstOfRun, Zenon
      <4>2. CASE k \notin handled
        BY <2>2, <2>3, <2>5, <3>3, <3>4, <4>2
      <4>. QED
        BY <4>1, <4>2, Zenon
    <3>. QED
      BY <1>3, <1>4, <2>2, <3>1, <3>2, <3>6, Zenon DEF ClientOK, n
  <2>. QED
    BY <1>1, <2>1, <2>4, <2>5, Zenon
<1>. QED
  BY <1>6, <1>7, <1>8, <1>9, Zenon DEF SessionOK

--------------------------------------------------------------------------------
(* The handler's steps.                                                     *)

\* Steps that change where Handle or its goroutine is, or the state of the socket.
LEMMA HandlerMovesOK ==
    ASSUME RelayType, NEW k \in Sessions, SessionOK(k),
           Reject(k) \/ Dial(k) \/ ReadEnd(k) \/ CloseConn(k) \/ PeerClose(k)
    PROVE  SessionOK(k)'
<1>1. /\ UNCHANGED <<client, sent, received, toBackend, responders, incoming, handled,
                     responseChannel, produced, holding, written>>
      /\ \/ UNCHANGED writer
         \/ writer[k] \in {"receive", "write"} /\ writer'[k] = "done" /\ UNCHANGED reader
         \/ writer'[k] = "receive" /\ k \in handled /\ reader[k] = "start" /\ reader'[k] = "read"
      /\ \/ UNCHANGED reader
         \/ /\ k \in handled /\ reader[k] = "start" /\ reader'[k] \in {"signal", "read"}
         \/ /\ reader[k] = "read" /\ reader'[k] = "signal"
  BY Zenon
    DEF RelayType, Reject, Dial, ReadEnd, CloseConn, PeerClose, backendVars, proxyVars, routeVars
<1>2. WebsocketOK(k)'
  BY <1>1, Zenon DEF SessionOK, WebsocketOK
<1>3. SentUpTo(k)' = SentUpTo(k)
  BY <1>1, Zenon DEF SentUpTo
<1>4. ResponsesOK(k)'
  BY <1>1, <1>3, Zenon DEF SessionOK, ResponsesOK, Answered
<1>5. ClientOK(k)'
  BY <1>1, <1>3, Zenon DEF SessionOK, ResponsesOK, ClientOK
<1>6. SocketOK(k)'
  <2>1. writer[k] # "write" /\ writer'[k] # "write" => Taken(k)' = Taken(k)
    BY <1>1, Zenon DEF Taken
  <2>2. CASE UNCHANGED writer
    BY <1>1, <2>2, Zenon DEF SessionOK, SocketOK, Taken
  <2>3. CASE writer'[k] = "done"
    BY <1>1, <2>3, Zenon DEF SessionOK, SocketOK
  <2>4. CASE writer'[k] = "receive" /\ reader[k] = "start"
    BY <1>1, <2>1, <2>4, Zenon DEF SessionOK, ResponsesOK, SocketOK
  <2>. QED
    BY <1>1, <2>2, <2>3, <2>4, Zenon
<1>. QED
  BY <1>2, <1>4, <1>5, <1>6, Zenon DEF SessionOK

\* A chunk read from the socket is on its way, after all the earlier ones.
LEMMA ReadOK ==
    ASSUME RelayType, NEW k \in Sessions, SessionOK(k), Read(k)
    PROVE  SessionOK(k)'
<1>1. /\ UNCHANGED <<client, sent, received, toBackend, responders, incoming, handled,
                     responseChannel, writer, holding, written>>
      /\ reader[k] = "read" /\ reader'[k] = "send" /\ produced'[k] = produced[k] + 1
      /\ produced[k] \in Nat
  BY Zenon DEF RelayType, Read, backendVars, proxyVars, routeVars
<1>2. SentUpTo(k)' = SentUpTo(k) /\ produced'[k] > 0
  BY <1>1 DEF SentUpTo
<1>3. k \in handled
  BY <1>1, Zenon DEF SessionOK, ResponsesOK
<1>4. WebsocketOK(k)' /\ SocketOK(k)'
  BY <1>1, Zenon DEF SessionOK, WebsocketOK, SocketOK, Taken
<1>5. ResponsesOK(k)'
  BY <1>1, <1>2, <1>3, Zenon DEF SessionOK, ResponsesOK, Answered
<1>6. ClientOK(k)'
  BY <1>1, <1>2, <1>3, Zenon DEF SessionOK, ClientOK
<1>. QED
  BY <1>4, <1>5, <1>6, Zenon DEF SessionOK

\* Handle sends the chunk it has read, after the chunks before it.
LEMMA SendBodyOK ==
    ASSUME RelayType, NEW k \in Sessions, SessionOK(k), SendBody(k)
    PROVE  SessionOK(k)'
<1>. DEFINE m == Message(k, "Body", produced[k])
<1>1. m \in Messages /\ m.Key = k /\ m.Type = "Body" /\ m.Body = produced[k] /\ produced[k] \in Nat
  BY Zenon DEF Message, Messages, RelayType
<1>2. /\ UNCHANGED <<client, sent, received, toBackend, responders, incoming, handled,
                     writer, produced, holding, written>>
      /\ responseChannel \in Seq(Messages) /\ responseChannel' = Append(responseChannel, m)
      /\ reader[k] = "send" /\ reader'[k] = "read"
  BY Zenon DEF RelayType, SendBody, Respond, proxyVars, routeVars
<1>. HIDE DEF m
<1>3. k \in handled /\ produced[k] > 0 /\ client[k] # "ended" /\ client[k] # "new"
  BY <1>2, Zenon DEF SessionOK, ResponsesOK, ClientOK, WebsocketOK
<1>4. /\ SentUpTo(k) \in Nat /\ produced[k] = SentUpTo(k) + 1
      /\ SentUpTo(k)' = SentUpTo(k) + 1
  BY <1>1, <1>2, <1>3 DEF SentUpTo
<1>5. \A n \in Bodies(responseChannel, k) : n \in Nat /\ n <= SentUpTo(k)
  BY <1>2, NatBodies, Zenon DEF SessionOK, ResponsesOK
<1>6. /\ ~Carries(responseChannel, k, "Connect") /\ ~Carries(responseChannel, k, "Close")
      /\ Increasing(responseChannel, k) /\ EndsWithClose(responseChannel, k)
  BY <1>2, <1>3, Zenon DEF SessionOK, ResponsesOK
<1>7. \A type : Carries(responseChannel', k, type) <=>
          Carries(responseChannel, k, type) \/ type = "Body"
  BY <1>1, <1>2, SendCarries, Zenon
<1>8. Bodies(responseChannel', k) = Bodies(responseChannel, k) \union {produced[k]}
  BY <1>1, <1>2, SendCarries, ZenonT(40)
<1>9. EndsWithClose(responseChannel', k)
  BY <1>1, <1>2, <1>6, SendQueue, Zenon
<1>10. Increasing(responseChannel', k)
  <2>1. \A n \in Bodies(responseChannel, k) : n < m.Body
    BY <1>1, <1>4, <1>5
  <2>. QED
    BY <1>1, <1>2, <1>6, <2>1, SendQueue, Zenon
<1>11. WebsocketOK(k)' /\ SocketOK(k)'
  BY <1>2, Zenon DEF SessionOK, WebsocketOK, SocketOK, Taken
<1>12. ResponsesOK(k)'
  <2>1. \A n \in Bodies(responseChannel', k) : n <= SentUpTo(k)'
    BY <1>1, <1>4, <1>5, <1>8
  <2>2. ~Carries(toBackend, k, "Connect")
    BY <1>3, Zenon DEF SessionOK, WebsocketOK
  <2>. QED
    BY <1>2, <1>3, <1>6, <1>7, <1>9, <1>10, <2>1, <2>2, Zenon DEF ResponsesOK, Answered
<1>13. ClientOK(k)'
  <2>. DEFINE n == Len(received[k])
  <2>1. n \in Nat
    BY DEF RelayType
  <2>2. client[k] = "open" => n <= SentUpTo(k) /\ Bodies(responseChannel, k) = n + 1 .. SentUpTo(k)
    BY Zenon DEF SessionOK, ClientOK
  <2>. HIDE DEF n
  <2>3. client[k] = "open" =>
            n <= SentUpTo(k)' /\ Bodies(responseChannel', k) = n + 1 .. SentUpTo(k)'
    BY <1>4, <1>8, <2>1, <2>2, Runs
  <2>. QED
    BY <1>2, <1>3, <2>3, Zenon DEF SessionOK, ClientOK, n
<1>. QED
  BY <1>11, <1>12, <1>13, Zenon DEF SessionOK

\* The deferred SignalHandlerClosed comes after the last chunk.
LEMMA SignalHandlerClosedOK ==
    ASSUME RelayType, NEW k \in Sessions, SessionOK(k), SignalHandlerClosed(k)
    PROVE  SessionOK(k)'
<1>. DEFINE m == Message(k, "Close", 0)
<1>1. m \in Messages /\ m.Key = k /\ m.Type = "Close"
  BY Zenon DEF Message, Messages
<1>2. /\ UNCHANGED <<client, sent, received, toBackend, responders, incoming, handled,
                     writer, produced, holding, written>>
      /\ responseChannel \in Seq(Messages) /\ responseChannel' = Append(responseChannel, m)
      /\ reader[k] = "signal" /\ reader'[k] = "done"
  BY Zenon DEF RelayType, SignalHandlerClosed, Respond, proxyVars, routeVars
<1>. HIDE DEF m
<1>3. /\ k \in handled /\ client[k] # "new" /\ ~Carries(toBackend, k, "Connect")
      /\ SentUpTo(k)' = SentUpTo(k)
  BY <1>2, Zenon DEF SessionOK, ResponsesOK, WebsocketOK, SentUpTo
<1>4. /\ ~Carries(responseChannel, k, "Connect") /\ ~Carries(responseChannel, k, "Close")
      /\ Increasing(responseChannel, k) /\ EndsWithClose(responseChannel, k)
  BY <1>2, <1>3, Zenon DEF SessionOK, ResponsesOK
<1>5. \A type : Carries(responseChannel', k, type) <=>
          Carries(responseChannel, k, type) \/ type = "Close"
  BY <1>1, <1>2, SendCarries, Zenon
<1>6. Bodies(responseChannel', k) = Bodies(responseChannel, k)
  BY <1>1, <1>2, SendCarries, Zenon
<1>7. EndsWithClose(responseChannel', k) /\ Increasing(responseChannel', k)
  BY <1>1, <1>2, <1>4, SendQueue, Zenon
<1>8. WebsocketOK(k)' /\ SocketOK(k)'
  BY <1>2, Zenon DEF SessionOK, WebsocketOK, SocketOK, Taken
<1>9. ResponsesOK(k)'
  BY <1>2, <1>3, <1>4, <1>5, <1>6, <1>7, Zenon DEF SessionOK, ResponsesOK, Answered
<1>10. ClientOK(k)'
  BY <1>2, <1>3, <1>6, Zenon DEF SessionOK, ClientOK
<1>. QED
  BY <1>8, <1>9, <1>10, Zenon DEF SessionOK

\* The goroutine takes the next message, which is the next one the client sent.
LEMMA ReceiveOK ==
    ASSUME RelayType, NEW k \in Sessions, SessionOK(k), Receive(k)
    PROVE  SessionOK(k)'
<1>1. /\ UNCHANGED <<client, sent, received, toBackend, responders, handled, responseChannel,
                     reader, produced, written>>
      /\ writer[k] = "receive" /\ writer'[k] = "write" /\ incoming[k] # <<>>
      /\ incoming[k] \in Seq(Nat) /\ incoming'[k] = Tail(incoming[k])
      /\ holding'[k] = Head(incoming[k])
  BY Zenon DEF RelayType, Receive, proxyVars
<1>2. k \in handled
  BY <1>1, Zenon DEF SessionOK, ResponsesOK
<1>3. WebsocketOK(k)' /\ ClientOK(k)'
  BY <1>1, Zenon DEF SessionOK, WebsocketOK, ClientOK, SentUpTo
<1>4. ResponsesOK(k)'
  BY <1>1, <1>2, Zenon DEF SessionOK, ResponsesOK, Answered, SentUpTo
<1>5. SocketOK(k)'
  <2>. DEFINE n == Len(incoming[k])
              w == Len(written[k])
  <2>1. /\ n \in Nat \ {0} /\ w \in Nat /\ Taken(k) = w /\ Taken(k)' = w + 1
        /\ holding'[k] = incoming[k][1] /\ 1 \in DOMAIN incoming[k]
    BY <1>1 DEF RelayType, Taken
  <2>2. /\ Len(incoming'[k]) = n - 1
        /\ \A i \in DOMAIN incoming'[k] :
              i \in Nat /\ i + 1 \in DOMAIN incoming[k] /\ incoming'[k][i] = incoming[k][i + 1]
    <3>1. /\ incoming'[k] \in Seq(Nat) /\ Len(incoming'[k]) = n - 1
          /\ \A i \in 1 .. Len(incoming'[k]) : incoming'[k][i] = incoming[k][i + 1]
      BY <1>1, HeadTailProperties
    <3>2. DOMAIN incoming'[k] = 1 .. n - 1 /\ DOMAIN incoming[k] = 1 .. n
      BY <1>1, <3>1
    <3>. HIDE DEF n
    <3>3. \A i \in 1 .. n - 1 : i \in Nat /\ i + 1 \in 1 .. n
      BY <2>1
    <3>4. \A i \in 1 .. n - 1 : incoming'[k][i] = incoming[k][i + 1]
      BY <3>1, Zenon
    <3>. QED
      BY <3>1, <3>2, <3>3, <3>4, Zenon
  <2>3. SocketOK(k)
    BY Zenon DEF SessionOK
  <2>4. \A i \in DOMAIN incoming[k] : incoming[k][i] = w + i
    BY <1>1, <2>1, <2>3, Zenon DEF SocketOK
  <2>5. holding'[k] = w + 1
    BY <2>1, <2>4, Zenon
  <2>6. \A i \in DOMAIN incoming'[k] : incoming'[k][i] = w + 1 + i
    <3>1. \A i \in DOMAIN incoming'[k] : i \in Nat /\ incoming'[k][i] = w + (i + 1)
      BY <2>2, <2>4, Zenon
    <3>. HIDE DEF w
    <3>2. \A i \in Nat : w + (i + 1) = w + 1 + i
      BY <2>1
    <3>. QED
      BY <3>1, <3>2, Zenon
  <2>7. k \in responders \/ Carries(toBackend, k, "Connect") =>
            w + n <= sent[k] /\ Bodies(toBackend, k) = w + n + 1 .. sent[k]
    BY <1>1, <2>1, <2>3, Zenon DEF SocketOK
  <2>. HIDE DEF n, w
  <2>8. w + 1 + (n - 1) = w + n
    BY <2>1
  <2>. QED
    BY <1>1, <2>1, <2>2, <2>3, <2>5, <2>6, <2>7, <2>8, ZenonT(30) DEF SocketOK, w
<1>. QED
  BY <1>3, <1>4, <1>5, Zenon DEF SessionOK

\* The goroutine writes the message it took.
LEMMA WriteOK ==
    ASSUME RelayType, NEW k \in Sessions, SessionOK(k), Write(k)
    PROVE  SessionOK(k)'
<1>1. /\ UNCHANGED <<client, sent, received, toBackend, responders, handled, incoming,
                     responseChannel, reader, produced, holding>>
      /\ writer[k] = "write" /\ writer'[k] = "receive" /\ written[k] \in Seq(Nat)
      /\ written'[k] = Append(written[k], holding[k])
  BY Zenon DEF RelayType, Write, backendVars, proxyVars, routeVars
<1>2. k \in handled
  BY <1>1, Zenon DEF SessionOK, ResponsesOK
<1>3. WebsocketOK(k)' /\ ClientOK(k)'
  BY <1>1, Zenon DEF SessionOK, WebsocketOK, ClientOK, SentUpTo
<1>4. ResponsesOK(k)'
  BY <1>1, <1>2, Zenon DEF SessionOK, ResponsesOK, Answered, SentUpTo
<1>5. SocketOK(k)'
  <2>1. written[k] = UpTo(Len(written[k])) /\ holding[k] = Len(written[k]) + 1
    BY <1>1, Zenon DEF SessionOK, SocketOK
  <2>2. Len(written'[k]) = Len(written[k]) + 1 /\ written'[k] = UpTo(Len(written'[k]))
    BY <1>1, <2>1, NextInOrder, Zenon
  <2>3. Taken(k)' = Taken(k)
    BY <1>1, <2>2, Zenon DEF Taken
  <2>. QED
    BY <1>1, <2>2, <2>3, Zenon DEF SessionOK, SocketOK
<1>. QED
  BY <1>3, <1>4, <1>5, Zenon DEF SessionOK

--------------------------------------------------------------------------------
(* A step of one session keeps the types and leaves the others as they are. *)

QueueStep(s, t, k) ==
    \/ t = s
    \/ \E m \in Messages : m.Key = k /\ t = Append(s, m)
    \/ s # <<>> /\ Head(s).Key = k /\ t = Tail(s)

OfSession(k) ==
    /\ RelayType'
    /\ QueueStep(toBackend, toBackend', k)
    /\ QueueStep(responseChannel, responseChannel', k)
    /\ \A j \in Sessions \ {k} : Untouched(j)

\* A queue stays a queue of messages.
LEMMA QueueType ==
    ASSUME NEW s \in Seq(Messages), NEW k, NEW t, QueueStep(s, t, k)
    PROVE  t \in Seq(Messages)
  BY AppendQueue, TailQueue, Zenon DEF QueueStep

\* A step of one session says nothing new of another.
LEMMA OtherQueue ==
    ASSUME NEW s \in Seq(Messages), NEW k, NEW j, j # k, NEW t, QueueStep(s, t, k),
           Increasing(s, j)
    PROVE  Same(s, t, j)
<1>1. \/ t = s
      \/ \E m \in Messages : m.Key # j /\ t = Append(s, m)
      \/ s # <<>> /\ Head(s).Key # j /\ t = Tail(s)
  BY Zenon DEF QueueStep
<1>. QED
  BY <1>1, KeptQueue, Zenon

\* The sessions other than the one that makes a step keep their invariant.
LEMMA OtherSessions ==
    ASSUME RelayInv, NEW k \in Sessions, OfSession(k), NEW j \in Sessions, j # k
    PROVE  SessionOK(j)'
<1>1. SessionOK(j) /\ Untouched(j)
  BY Zenon DEF RelayInv, OfSession
<1>2. Same(toBackend, toBackend', j)
  <2>1. toBackend \in Seq(Messages) /\ Increasing(toBackend, j)
    BY <1>1, Zenon DEF RelayInv, RelayType, SessionOK, WebsocketOK
  <2>2. QueueStep(toBackend, toBackend', k)
    BY Zenon DEF OfSession
  <2>. QED
    BY <2>1, <2>2, OtherQueue, Zenon
<1>3. Same(responseChannel, responseChannel', j)
  <2>1. responseChannel \in Seq(Messages) /\ Increasing(responseChannel, j)
    BY <1>1, Zenon DEF RelayInv, RelayType, SessionOK, ResponsesOK
  <2>2. QueueStep(responseChannel, responseChannel', k)
    BY Zenon DEF OfSession
  <2>. QED
    BY <2>1, <2>2, OtherQueue, Zenon
<1>. QED
  BY <1>1, <1>2, <1>3, Elsewhere, Zenon

\* An update of one entry of a function.
LEMMA OneEntry ==
    ASSUME NEW D, NEW S, NEW f \in [D -> S], NEW k \in D, NEW v \in S,
           NEW g, g = [f EXCEPT ![k] = v]
    PROVE  g \in [D -> S] /\ \A j \in D \ {k} : g[j] = f[j]
  BY Zenon

\* A step of the proxy is one session's.
LEMMA ClientLocal ==
    ASSUME RelayType, NEW k \in Sessions, UNCHANGED handlerVars,
           ClientConnect(k) \/ ClientSend(k) \/ ClientClose(k)
    PROVE  OfSession(k)
<1>1. /\ UNCHANGED <<received, responders, incoming, handled, responseChannel, reader, writer,
                     produced, holding, written>>
      /\ client' \in [Sessions -> {"new", "open", "closed", "ended"}]
      /\ sent' \in [Sessions -> Nat]
      /\ \A j \in Sessions \ {k} : client'[j] = client[j] /\ sent'[j] = sent[j]
  <2>1. UNCHANGED <<received, responders, incoming, handled, responseChannel, reader, writer,
                    produced, holding, written>>
    BY Zenon DEF ClientConnect, ClientSend, ClientClose, handlerVars, routeVars
  <2>2. \/ UNCHANGED client
        \/ client' = [client EXCEPT ![k] = "open"]
        \/ client' = [client EXCEPT ![k] = "closed"]
    BY Zenon DEF ClientConnect, ClientSend, ClientClose
  <2>3. UNCHANGED sent \/ sent' = [sent EXCEPT ![k] = sent[k] + 1]
    BY Zenon DEF ClientConnect, ClientSend, ClientClose
  <2>4. /\ client' \in [Sessions -> {"new", "open", "closed", "ended"}]
        /\ \A j \in Sessions \ {k} : client'[j] = client[j]
    BY <2>2, OneEntry, Zenon DEF RelayType
  <2>5. sent' \in [Sessions -> Nat] /\ \A j \in Sessions \ {k} : sent'[j] = sent[j]
    <3>1. sent[k] + 1 \in Nat /\ sent \in [Sessions -> Nat]
      BY DEF RelayType
    <3>. QED
      BY <2>3, <3>1, OneEntry
  <2>. QED
    BY <2>1, <2>4, <2>5, Zenon
<1>2. QueueStep(toBackend, toBackend', k)
  <2>1. \E type \in {"Connect", "Body", "Close"}, n \in Nat :
            toBackend' = Append(toBackend, Message(k, type, n))
    BY <1>1, Zenon DEF RelayType, ClientConnect, ClientSend, ClientClose
  <2>2. \A type \in {"Connect", "Body", "Close"}, n \in Nat :
            Message(k, type, n) \in Messages /\ Message(k, type, n).Key = k
    BY Zenon DEF Message, Messages
  <2>. QED
    BY <2>1, <2>2, Zenon DEF QueueStep
<1>3. toBackend' \in Seq(Messages)
  BY <1>2, QueueType, Zenon DEF RelayType
<1>4. RelayType'
  BY <1>1, <1>3, Zenon DEF RelayType
<1>. QED
  BY <1>1, <1>2, <1>4, Zenon DEF OfSession, QueueStep, Untouched

\* A response is a message of its session.
LEMMA RespondLocal ==
    ASSUME RelayType, NEW k \in Sessions, NEW type \in {"Body", "Close"}, NEW n \in Nat,
           Respond(k, type, n)
    PROVE  /\ QueueStep(responseChannel, responseChannel', k)
           /\ responseChannel' \in Seq(Messages)
<1>1. Message(k, type, n) \in Messages /\ Message(k, type, n).Key = k
  BY Zenon DEF Message, Messages
<1>2. QueueStep(responseChannel, responseChannel', k)
  BY <1>1, Zenon DEF QueueStep, Respond
<1>. QED
  BY <1>2, QueueType, Zenon DEF RelayType

\* A step of the read loop is one session's.
LEMMA ReadLoopLocal ==
    ASSUME RelayType, NEW k \in Sessions, UNCHANGED handlerVars,
           RouteConnect(k) \/ RouteBody(k) \/ RouteClose(k)
    PROVE  OfSession(k)
<1>1. /\ UNCHANGED <<client, sent, received, reader, writer, produced, holding, written>>
      /\ responders' \subseteq handled' /\ handled' \subseteq Sessions
      /\ \A j \in Sessions \ {k} : (j \in handled' <=> j \in handled)
                                     /\ (j \in responders' <=> j \in responders)
  BY Zenon DEF RelayType, RouteConnect, RouteBody, RouteClose, handlerVars, proxyVars
<1>2. toBackend # <<>> /\ Head(toBackend).Key = k /\ toBackend' = Tail(toBackend)
  BY Zenon DEF RouteConnect, RouteBody, RouteClose, ReadMessage
<1>3. QueueStep(toBackend, toBackend', k) /\ toBackend' \in Seq(Messages)
  BY <1>2, QueueType, Zenon DEF RelayType, QueueStep
<1>4. QueueStep(responseChannel, responseChannel', k) /\ responseChannel' \in Seq(Messages)
  <2>1. Respond(k, "Close", 0) \/ UNCHANGED responseChannel
    BY Zenon DEF RouteConnect, RouteBody, RouteClose
  <2>. QED
    BY <2>1, RespondLocal, Zenon DEF RelayType, QueueStep
<1>5. /\ incoming' \in [Sessions -> Seq(Nat)]
      /\ \A j \in Sessions \ {k} : incoming'[j] = incoming[j]
  <2>. DEFINE s == Append(incoming[k], Head(toBackend).Body)
  <2>1. Head(toBackend).Body \in Nat
    BY <1>2, TailQueue, Zenon DEF RelayType, Messages
  <2>2. \/ UNCHANGED incoming
        \/ incoming' = [incoming EXCEPT ![k] = s]
    BY Zenon DEF RouteConnect, RouteBody, RouteClose
  <2>3. incoming \in [Sessions -> Seq(Nat)] /\ s \in Seq(Nat)
    BY <2>1 DEF RelayType
  <2>. HIDE DEF s
  <2>. QED
    BY <2>2, <2>3, OneEntry
<1>6. RelayType'
  BY <1>1, <1>3, <1>4, <1>5, Zenon DEF RelayType
<1>. QED
  BY <1>1, <1>3, <1>4, <1>5, <1>6, Zenon DEF OfSession, Untouched

\* A step of the write loop is one session's.
LEMMA WriteLoopLocal ==
    ASSUME RelayType, NEW k \in Sessions, UNCHANGED handlerVars, WriteMessage(k)
    PROVE  OfSession(k)
<1>1. /\ UNCHANGED <<sent, responders, incoming, handled, reader, writer, produced, holding, written>>
      /\ client' \in [Sessions -> {"new", "open", "closed", "ended"}]
      /\ \A j \in Sessions \ {k} : client'[j] = client[j]
      /\ responseChannel # <<>> /\ Head(responseChannel).Key = k
      /\ responseChannel' = Tail(responseChannel)
  BY ZenonT(40) DEF RelayType, WriteMessage, handlerVars, routeVars
<1>2. QueueStep(responseChannel, responseChannel', k) /\ responseChannel' \in Seq(Messages)
  BY <1>1, QueueType, Zenon DEF RelayType, QueueStep
<1>3. QueueStep(toBackend, toBackend', k) /\ toBackend' \in Seq(Messages)
  <2>1. UNCHANGED toBackend \/ toBackend' = Append(toBackend, Message(k, "Close", 0))
    BY Zenon DEF WriteMessage
  <2>2. Message(k, "Close", 0) \in Messages /\ Message(k, "Close", 0).Key = k
    BY Zenon DEF Message, Messages
  <2>. QED
    BY <2>1, <2>2, QueueType, Zenon DEF RelayType, QueueStep
<1>4. /\ received' \in [Sessions -> Seq(Nat)]
      /\ \A j \in Sessions \ {k} : received'[j] = received[j]
  <2>. DEFINE s == Append(received[k], Head(responseChannel).Body)
  <2>1. Head(responseChannel).Body \in Nat
    BY <1>1, TailQueue, Zenon DEF RelayType, Messages
  <2>2. \/ UNCHANGED received
        \/ received' = [received EXCEPT ![k] = s]
    BY Zenon DEF WriteMessage
  <2>3. received \in [Sessions -> Seq(Nat)] /\ s \in Seq(Nat)
    BY <2>1 DEF RelayType
  <2>. HIDE DEF s
  <2>. QED
    BY <2>2, <2>3, OneEntry, SMTT(30)
<1>5. RelayType'
  BY <1>1, <1>2, <1>3, <1>4, Zenon DEF RelayType
<1>. QED
  BY <1>1, <1>2, <1>3, <1>4, <1>5, Zenon DEF OfSession, Untouched

\* A step of a handler, of its goroutine or of the peer is one session's.
LEMMA HandlerLocal ==
    ASSUME RelayType, NEW k \in Sessions, Handle(k) \/ HandleIncoming(k) \/ PeerClose(k)
    PROVE  OfSession(k)
<1>. USE DEF Handle, HandleIncoming
<1>1. /\ UNCHANGED <<client, sent, received, toBackend, responders, handled>>
      /\ QueueStep(toBackend, toBackend', k)
  BY Zenon
    DEF Reject, Dial, Read, SendBody, ReadEnd, SignalHandlerClosed, Receive, Write, CloseConn,
         PeerClose, backendVars, proxyVars, routeVars, QueueStep
<1>2. QueueStep(responseChannel, responseChannel', k) /\ responseChannel' \in Seq(Messages)
  <2>1. \/ UNCHANGED responseChannel
        \/ Respond(k, "Body", produced[k])
        \/ Respond(k, "Close", 0)
    BY Zenon
      DEF Reject, Dial, Read, SendBody, ReadEnd, SignalHandlerClosed, Receive, Write, CloseConn,
           PeerClose, backendVars
  <2>2. produced[k] \in Nat
    BY Zenon DEF RelayType
  <2>. QED
    BY <2>1, <2>2, RespondLocal, Zenon DEF RelayType, QueueStep
<1>3. /\ reader' \in [Sessions -> {"start", "read", "send", "signal", "done"}]
      /\ \A j \in Sessions \ {k} : reader'[j] = reader[j]
  <2>1. \/ UNCHANGED reader
        \/ \E v \in {"start", "read", "send", "signal", "done"} : reader' = [reader EXCEPT ![k] = v]
    BY Zenon
      DEF Reject, Dial, Read, SendBody, ReadEnd, SignalHandlerClosed, Receive, Write, CloseConn,
           PeerClose
  <2>. DEFINE S == {"start", "read", "send", "signal", "done"}
  <2>2. reader \in [Sessions -> S]
    BY Zenon DEF RelayType
  <2>3. UNCHANGED reader \/ \E v \in S : reader' = [reader EXCEPT ![k] = v]
    BY <2>1, Zenon
  <2>4. reader' \in [Sessions -> S] /\ \A j \in Sessions \ {k} : reader'[j] = reader[j]
    <3>. HIDE DEF S
    <3>. QED
      BY <2>2, <2>3, OneEntry
  <2>. QED
    BY <2>4, Zenon
<1>4. /\ writer' \in [Sessions -> {"none", "receive", "write", "done"}]
      /\ \A j \in Sessions \ {k} : writer'[j] = writer[j]
  <2>1. \/ UNCHANGED writer
        \/ \E v \in {"none", "receive", "write", "done"} : writer' = [writer EXCEPT ![k] = v]
    BY Zenon
      DEF Reject, Dial, Read, SendBody, ReadEnd, SignalHandlerClosed, Receive, Write, CloseConn,
           PeerClose
  <2>. DEFINE S == {"none", "receive", "write", "done"}
  <2>2. writer \in [Sessions -> S]
    BY Zenon DEF RelayType
  <2>3. UNCHANGED writer \/ \E v \in S : writer' = [writer EXCEPT ![k] = v]
    BY <2>1, Zenon
  <2>4. writer' \in [Sessions -> S] /\ \A j \in Sessions \ {k} : writer'[j] = writer[j]
    <3>. HIDE DEF S
    <3>. QED
      BY <2>2, <2>3, OneEntry
  <2>. QED
    BY <2>4, Zenon
<1>5. produced' \in [Sessions -> Nat] /\ \A j \in Sessions \ {k} : produced'[j] = produced[j]
  <2>1. UNCHANGED produced \/ produced' = [produced EXCEPT ![k] = produced[k] + 1]
    BY Zenon
      DEF Reject, Dial, Read, SendBody, ReadEnd, SignalHandlerClosed, Receive, Write, CloseConn,
           PeerClose
  <2>2. produced[k] + 1 \in Nat /\ produced \in [Sessions -> Nat]
    BY DEF RelayType
  <2>. QED
    BY <2>1, <2>2, OneEntry
<1>6. /\ holding' \in [Sessions -> Nat] /\ incoming' \in [Sessions -> Seq(Nat)]
      /\ \A j \in Sessions \ {k} : holding'[j] = holding[j] /\ incoming'[j] = incoming[j]
  <2>. DEFINE h == Head(incoming[k])
              s == Tail(incoming[k])
  <2>1. \/ UNCHANGED <<holding, incoming>>
        \/ /\ incoming[k] # <<>>
           /\ holding' = [holding EXCEPT ![k] = h] /\ incoming' = [incoming EXCEPT ![k] = s]
    BY Zenon
      DEF Reject, Dial, Read, SendBody, ReadEnd, SignalHandlerClosed, Receive, Write, CloseConn,
           PeerClose, backendVars, routeVars
  <2>2. /\ holding \in [Sessions -> Nat] /\ incoming \in [Sessions -> Seq(Nat)]
        /\ incoming[k] \in Seq(Nat)
    BY Zenon DEF RelayType
  <2>3. incoming[k] # <<>> => h \in Nat /\ s \in Seq(Nat)
    BY <2>2, HeadTailProperties, Zenon
  <2>. HIDE DEF h, s
  <2>4. QED
    <3>1. CASE UNCHANGED <<holding, incoming>>
      BY <2>2, <3>1, Zenon
    <3>2. ASSUME h \in Nat, s \in Seq(Nat), holding' = [holding EXCEPT ![k] = h],
                 incoming' = [incoming EXCEPT ![k] = s]
          PROVE  /\ holding' \in [Sessions -> Nat] /\ incoming' \in [Sessions -> Seq(Nat)]
                 /\ \A j \in Sessions \ {k} : holding'[j] = holding[j] /\ incoming'[j] = incoming[j]
      <4>1. holding' \in [Sessions -> Nat] /\ \A j \in Sessions \ {k} : holding'[j] = holding[j]
        BY <2>2, <3>2, OneEntry, Zenon
      <4>2. /\ incoming' \in [Sessions -> Seq(Nat)]
            /\ \A j \in Sessions \ {k} : incoming'[j] = incoming[j]
        BY <2>2, <3>2, OneEntry, Zenon
      <4>. QED
        BY <4>1, <4>2, Zenon
    <3>. QED
      BY <2>1, <2>3, <3>1, <3>2, Zenon
<1>7. written' \in [Sessions -> Seq(Nat)] /\ \A j \in Sessions \ {k} : written'[j] = written[j]
  <2>. DEFINE s == Append(written[k], holding[k])
  <2>1. UNCHANGED written \/ written' = [written EXCEPT ![k] = s]
    BY Zenon
      DEF Reject, Dial, Read, SendBody, ReadEnd, SignalHandlerClosed, Receive, Write, CloseConn,
           PeerClose
  <2>2. s \in Seq(Nat) /\ written \in [Sessions -> Seq(Nat)]
    BY DEF RelayType
  <2>. HIDE DEF s
  <2>. QED
    BY <2>1, <2>2, OneEntry
<1>8. RelayType'
  BY <1>1, <1>2, <1>3, <1>4, <1>5, <1>6, <1>7, Zenon DEF RelayType
<1>. QED
  BY <1>1, <1>2, <1>3, <1>4, <1>5, <1>6, <1>7, <1>8, Zenon DEF OfSession, Untouched

--------------------------------------------------------------------------------
(* The theorems.                                                            *)

\* At the start every session is new and both queues are empty.
LEMMA RelayInit == Init => RelayInv
<1>. SUFFICES ASSUME Init PROVE RelayInv
  BY Zenon
<1>. USE DEF Init, BackendInit
<1>1. RelayType
  BY DEF RelayType
<1>2. ASSUME NEW k \in Sessions PROVE SessionOK(k)
  <2>1. \A type : ~Carries(toBackend, k, type) /\ ~Carries(responseChannel, k, type)
    BY DEF Carries
  <2>2. Bodies(toBackend, k) = {} /\ Bodies(responseChannel, k) = {}
    BY <2>1, NoBodies, Zenon
  <2>3. /\ Len(received[k]) = 0 /\ Len(written[k]) = 0 /\ Len(incoming[k]) = 0
        /\ received[k] = UpTo(0) /\ written[k] = UpTo(0) /\ DOMAIN incoming[k] = {}
    BY DEF UpTo
  <2>4. WebsocketOK(k)
    BY <2>1, <2>2 DEF WebsocketOK, Sequenced, Increasing
  <2>5. ResponsesOK(k)
    BY <2>1, <2>2 DEF ResponsesOK, Answered, Increasing, EndsWithClose
  <2>6. ClientOK(k)
    BY <2>2, <2>3 DEF ClientOK, SentUpTo
  <2>7. SocketOK(k)
    BY <2>1, <2>3, Zenon DEF SocketOK
  <2>. QED
    BY <2>4, <2>5, <2>6, <2>7, Zenon DEF SessionOK
<1>. QED
  BY <1>1, <1>2, Zenon DEF RelayInv

\* Every step is one session's: it keeps the invariant of that session and does not
\* touch the others.
LEMMA RelayStep == RelayInv /\ [Next]_vars => RelayInv'
<1>. SUFFICES ASSUME RelayInv, [Next]_vars PROVE RelayInv'
  BY Zenon
<1>1. RelayType
  BY Zenon DEF RelayInv
<1>2. ASSUME NEW k \in Sessions, OfSession(k), SessionOK(k)' PROVE RelayInv'
  BY <1>2, OtherSessions, Zenon DEF RelayInv, OfSession
<1>3. ASSUME NEW k \in Sessions, UNCHANGED handlerVars,
             ClientConnect(k) \/ ClientSend(k) \/ ClientClose(k)
      PROVE  RelayInv'
  <2>1. SessionOK(k)'
    BY <1>1, <1>3, ClientConnectOK, ClientSendOK, ClientCloseOK, Zenon DEF RelayInv
  <2>. QED
    BY <1>1, <1>2, <1>3, <2>1, ClientLocal, Zenon
<1>4. ASSUME NEW k \in Sessions, UNCHANGED handlerVars,
             RouteConnect(k) \/ RouteBody(k) \/ RouteClose(k)
      PROVE  RelayInv'
  <2>1. SessionOK(k)'
    BY <1>1, <1>4, RouteConnectOK, RouteBodyOK, RouteCloseOK, Zenon DEF RelayInv
  <2>. QED
    BY <1>1, <1>2, <1>4, <2>1, ReadLoopLocal, Zenon
<1>5. ASSUME NEW k \in Sessions, UNCHANGED handlerVars, WriteMessage(k) PROVE RelayInv'
  <2>1. SessionOK(k)'
    BY <1>1, <1>5, WriteMessageOK, Zenon DEF RelayInv
  <2>. QED
    BY <1>1, <1>2, <1>5, <2>1, WriteLoopLocal, Zenon
<1>6. ASSUME NEW k \in Sessions, Handle(k) \/ HandleIncoming(k) \/ PeerClose(k) PROVE RelayInv'
  <2>1. SessionOK(k)'
    BY <1>1, <1>6, HandlerMovesOK, ReadOK, SendBodyOK, SignalHandlerClosedOK, ReceiveOK, WriteOK, Zenon
       DEF RelayInv, Handle, HandleIncoming
  <2>. QED
    BY <1>1, <1>2, <1>6, <2>1, HandlerLocal, Zenon
<1>7. CASE (ReadError /\ UNCHANGED handlerVars) \/ UNCHANGED vars
  <2>1. UNCHANGED <<client, sent, received, toBackend, responders, incoming, handled,
                    responseChannel, reader, writer, produced, holding, written>>
    BY <1>7, Zenon DEF ReadError, vars, backendVars, proxyVars, routeVars, handlerVars
  <2>2. RelayType'
    BY <1>1, <2>1, Zenon DEF RelayType
  <2>3. ASSUME NEW k \in Sessions PROVE SessionOK(k)'
    <3>1. SessionOK(k) /\ Untouched(k)
      BY <2>1, Zenon DEF RelayInv, Untouched
    <3>2. Same(toBackend, toBackend', k) /\ Same(responseChannel, responseChannel', k)
      BY <2>1, Zenon DEF Same
    <3>. QED
      BY <3>1, <3>2, Elsewhere, Zenon
  <2>. QED
    BY <2>2, <2>3, Zenon DEF RelayInv
<1>. QED
  BY <1>3, <1>4, <1>5, <1>6, <1>7, Zenon DEF Next, Proxy, ReadLoop, WriteLoop

\* RelayInv holds of every reachable state.
LEMMA RelayAlways == Spec => []RelayInv
  BY RelayInit, RelayStep, PTL DEF Spec

\* A client whose connection is ended by the Close of a handler, or of the read loop
\* that found none, has received everything Handle read from the socket, in order,
\* however the sessions share the websocket and responseChannel.
THEOREM OutputIsComplete == Spec => []OutputComplete
<1>1. RelayInv => OutputComplete
  BY Zenon DEF RelayInv, SessionOK, ClientOK, OutputComplete
<1>. QED
  BY <1>1, RelayAlways, PTL

\* What the goroutine of Handle writes to the socket is what the client sent, in order
\* and without a gap.
THEOREM SocketGetsAllInOrder == Spec => []WrittenInOrder
<1>1. RelayInv => WrittenInOrder
  BY Zenon DEF RelayInv, SessionOK, SocketOK, WrittenInOrder
<1>. QED
  BY <1>1, RelayAlways, PTL

\* The deferred SignalHandlerClosed of a session is the last response of it that is on
\* responseChannel.
THEOREM CloseComesLast == Spec => []CloseIsLast
<1>1. RelayInv => CloseIsLast
  BY Zenon DEF RelayInv, RelayType, SessionOK, ResponsesOK, EndsWithClose, CloseIsLast
<1>. QED
  BY <1>1, RelayAlways, PTL

--------------------------------------------------------------------------------
(* The bounds.                                                              *)

\* TypeOK with what is in the channels, which the goroutine takes from them.
RelayBounds == TypeOK /\ incoming \in [Sessions -> Seq(0 .. MaxBodies)]

\* The steps of Handle and of its goroutine on the channels of their session.
LEMMA RelayChannels ==
    ASSUME RelayBounds, NEW k \in Sessions, Handle(k) \/ HandleIncoming(k) \/ PeerClose(k)
    PROVE  \/ UNCHANGED backendVars \/ ReceiveMessage(k)
           \/ \E type \in {"Body", "Close"}, n \in Nat : SendResponse(k, type, n)
<1>1. produced[k] \in Nat /\ 0 \in Nat
  BY SocketRelayAssumption DEF RelayBounds, TypeOK
<1>2. CASE SendBody(k)
  BY <1>1, <1>2, Zenon DEF SendBody, SendResponse
<1>3. CASE SignalHandlerClosed(k)
  BY <1>1, <1>3, Zenon DEF SignalHandlerClosed, SendResponse
<1>4. CASE Receive(k)
  BY <1>4, Zenon DEF Receive, ReceiveMessage
<1>. QED
  BY <1>2, <1>3, <1>4, ZenonT(30) DEF Handle, HandleIncoming, Reject, Dial, Read, ReadEnd, Write,
     CloseConn, PeerClose

\* The channel of a session gets bodies the client has sent.
LEMMA BoundedChannels ==
    ASSUME RelayInv, RelayBounds, [Next]_vars
    PROVE  incoming' \in [Sessions -> Seq(0 .. MaxBodies)]
<1>1. incoming \in [Sessions -> Seq(0 .. MaxBodies)] /\ BackendTypeOK /\ RelayType
  BY Zenon DEF RelayInv, RelayBounds, TypeOK
<1>2. ASSUME NEW k \in Sessions, NEW s \in Seq(0 .. MaxBodies),
             incoming' = [incoming EXCEPT ![k] = s]
      PROVE  incoming' \in [Sessions -> Seq(0 .. MaxBodies)]
  BY <1>1, <1>2, OneEntry, Zenon
<1>3. ASSUME NEW k \in Sessions, RouteBody(k)
      PROVE  incoming' \in [Sessions -> Seq(0 .. MaxBodies)]
  <2>1. CASE incoming' = [incoming EXCEPT ![k] = Append(incoming[k], Head(toBackend).Body)]
    <3>1. /\ toBackend \in Seq(Messages) /\ toBackend # <<>>
          /\ Head(toBackend).Key = k /\ Head(toBackend).Type = "Body"
      BY <1>1, <1>3, Zenon DEF RouteBody, ReadMessage, RelayType
    <3>2. Head(toBackend).Body \in Bodies(toBackend, k) /\ Head(toBackend).Body \in Nat
      <4>1. Head(toBackend) = toBackend[1] /\ 1 \in DOMAIN toBackend /\ toBackend[1] \in Messages
        BY <3>1, TailQueue, Zenon
      <4>. QED
        BY <3>1, <4>1, Zenon DEF Bodies, Messages
    <3>3. Head(toBackend).Body <= sent[k] /\ sent[k] \in 0 .. MaxBodies
      BY <1>1, <3>2, Zenon DEF RelayInv, SessionOK, WebsocketOK, BackendTypeOK
    <3>4. Head(toBackend).Body \in 0 .. MaxBodies
      BY <3>2, <3>3, BackendAssumption
    <3>5. Append(incoming[k], Head(toBackend).Body) \in Seq(0 .. MaxBodies)
      BY <1>1, <3>4, AppendProperties, Zenon
    <3>. QED
      BY <1>2, <2>1, <3>5, Zenon
  <2>. QED
    BY <1>1, <1>3, <2>1, Zenon DEF RouteBody
<1>4. ASSUME NEW k \in Sessions, Receive(k)
      PROVE  incoming' \in [Sessions -> Seq(0 .. MaxBodies)]
  <2>1. incoming[k] \in Seq(0 .. MaxBodies) /\ incoming[k] # <<>>
    BY <1>1, <1>4, Zenon DEF Receive
  <2>2. Tail(incoming[k]) \in Seq(0 .. MaxBodies)
    BY <2>1, HeadTailProperties, Zenon
  <2>. QED
    BY <1>2, <1>4, <2>2, Zenon DEF Receive
<1>5. CASE incoming' = incoming
  BY <1>1, <1>5, Zenon
<1>. QED
  BY <1>3, <1>4, <1>5, ZenonT(30) DEF Next, Proxy, ClientConnect, ClientSend, ClientClose,
     ReadLoop, RouteConnect, RouteClose, WriteLoop, WriteMessage, ReadError, Handle,
     HandleIncoming, Reject, Dial, Read, SendBody, ReadEnd, SignalHandlerClosed, Write,
     CloseConn, PeerClose, vars, backendVars, routeVars

\* The handlers keep the types of their variables.
LEMMA HandlerTypes ==
    ASSUME RelayBounds, NEW k \in Sessions, Handle(k) \/ HandleIncoming(k) \/ PeerClose(k)
    PROVE  /\ reader' \in [Sessions -> {"start", "read", "send", "signal", "done"}]
           /\ writer' \in [Sessions -> {"none", "receive", "write", "done"}]
           /\ conn' \in [Sessions -> {"none", "open", "eof", "closed"}]
           /\ produced' \in [Sessions -> 0 .. MaxReads]
           /\ holding' \in [Sessions -> 0 .. MaxBodies]
           /\ written' \in [Sessions -> Seq(Nat)]
<1>1. /\ reader \in [Sessions -> {"start", "read", "send", "signal", "done"}]
      /\ writer \in [Sessions -> {"none", "receive", "write", "done"}]
      /\ conn \in [Sessions -> {"none", "open", "eof", "closed"}]
      /\ produced \in [Sessions -> 0 .. MaxReads] /\ holding \in [Sessions -> 0 .. MaxBodies]
      /\ written \in [Sessions -> Seq(Nat)] /\ incoming \in [Sessions -> Seq(0 .. MaxBodies)]
  BY Zenon DEF RelayBounds, TypeOK
<1>2. reader' \in [Sessions -> {"start", "read", "send", "signal", "done"}]
  BY <1>1, ZenonT(30) DEF Handle, HandleIncoming, Reject, Dial, Read, SendBody, ReadEnd,
     SignalHandlerClosed, Receive, Write, CloseConn, PeerClose
<1>3. writer' \in [Sessions -> {"none", "receive", "write", "done"}]
  BY <1>1, Zenon DEF Handle, HandleIncoming, Reject, Dial, Read, SendBody, ReadEnd,
     SignalHandlerClosed, Receive, Write, CloseConn, PeerClose
<1>4. conn' \in [Sessions -> {"none", "open", "eof", "closed"}]
  BY <1>1, Zenon DEF Handle, HandleIncoming, Reject, Dial, Read, SendBody, ReadEnd,
     SignalHandlerClosed, Receive, Write, CloseConn, PeerClose
<1>5. produced' \in [Sessions -> 0 .. MaxReads]
  <2>1. CASE Read(k)
    BY <1>1, <2>1, SocketRelayAssumption DEF Read
  <2>2. CASE produced' = produced
    BY <1>1, <2>2, Zenon
  <2>. QED
    BY <2>1, <2>2, Zenon DEF Handle, HandleIncoming, Reject, Dial, SendBody, ReadEnd,
       SignalHandlerClosed, Receive, Write, CloseConn, PeerClose
<1>6. holding' \in [Sessions -> 0 .. MaxBodies]
  <2>1. CASE Receive(k)
    <3>1. incoming[k] \in Seq(0 .. MaxBodies) /\ incoming[k] # <<>>
      BY <1>1, <2>1, Zenon DEF Receive
    <3>2. Head(incoming[k]) \in 0 .. MaxBodies
      BY <3>1, HeadTailProperties, Zenon
    <3>. QED
      BY <1>1, <2>1, <3>2, Zenon DEF Receive
  <2>2. CASE holding' = holding
    BY <1>1, <2>2, Zenon
  <2>. QED
    BY <2>1, <2>2, Zenon DEF Handle, HandleIncoming, Reject, Dial, Read, SendBody, ReadEnd,
       SignalHandlerClosed, Write, CloseConn, PeerClose
<1>7. written' \in [Sessions -> Seq(Nat)]
  <2>1. CASE Write(k)
    <3>1. holding[k] \in Nat /\ written[k] \in Seq(Nat)
      BY <1>1, BackendAssumption
    <3>2. Append(written[k], holding[k]) \in Seq(Nat)
      BY <3>1, AppendProperties, Zenon
    <3>. QED
      BY <1>1, <2>1, <3>2, Zenon DEF Write
  <2>2. CASE written' = written
    BY <1>1, <2>2, Zenon
  <2>. QED
    BY <2>1, <2>2, Zenon DEF Handle, HandleIncoming, Reject, Dial, Read, SendBody, ReadEnd,
       SignalHandlerClosed, Receive, CloseConn, PeerClose
<1>. QED
  BY <1>2, <1>3, <1>4, <1>5, <1>6, <1>7, Zenon

\* No channel holds more than its capacity, and no goroutine anything but a chunk of the
\* socket or a message of its client (Backend's two loops, Handle and its goroutine).
THEOREM RelayTypes == Spec => []TypeOK
<1>1. Init => RelayBounds
  <2>1. Init => BackendTypeOK /\ incoming \in [Sessions -> Seq(0 .. MaxBodies)]
    BY StreamInit DEF Init, BackendInit
  <2>2. Init => TypeOK
    BY <2>1, BackendAssumption, SocketRelayAssumption DEF Init, TypeOK
  <2>. QED
    BY <2>1, <2>2, Zenon DEF RelayBounds
<1>2. RelayInv /\ RelayBounds /\ [Next]_vars => RelayBounds'
  <2>. SUFFICES ASSUME RelayInv, RelayBounds, [Next]_vars PROVE RelayBounds'
    BY Zenon
  <2>1. incoming' \in [Sessions -> Seq(0 .. MaxBodies)] /\ BackendTypeOK
    BY BoundedChannels, Zenon DEF RelayBounds, TypeOK
  <2>2. ASSUME NEW k \in Sessions, Handle(k) \/ HandleIncoming(k) \/ PeerClose(k)
        PROVE  TypeOK'
    <3>1. BackendTypeOK'
      <4>1. CASE UNCHANGED backendVars
        BY <2>1, <4>1, Zenon DEF BackendTypeOK, backendVars, proxyVars, routeVars
      <4>. QED
        BY <2>1, <2>2, <4>1, RelayChannels, HandlerStepType, Zenon
    <3>. QED
      BY <2>2, <3>1, HandlerTypes, Zenon DEF TypeOK
  <2>3. CASE UNCHANGED handlerVars /\ (Proxy \/ ReadLoop \/ WriteLoop \/ ReadError)
    <3>1. BackendTypeOK'
      <4>1. CASE ReadError
        BY <2>1, <4>1, Zenon DEF BackendTypeOK, ReadError, proxyVars, routeVars
      <4>. QED
        BY <2>1, <2>3, <4>1, BackendSteps, BackendStepType, Zenon
    <3>. QED
      BY <2>1, <2>3, <3>1, Zenon DEF RelayBounds, TypeOK, handlerVars
  <2>4. CASE UNCHANGED vars
    BY <2>4, Zenon DEF RelayBounds, TypeOK, BackendTypeOK, vars, backendVars, proxyVars,
       routeVars, handlerVars
  <2>. QED
    BY <2>1, <2>2, <2>3, <2>4, Zenon DEF RelayBounds, Next
<1>3. RelayBounds => TypeOK
  BY Zenon DEF RelayBounds
<1>. QED
  BY <1>1, <1>2, <1>3, RelayAlways, PTL DEF Spec
================================================================================
