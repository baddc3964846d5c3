-------------------------------- MODULE Backend --------------------------------
(***************************************************************************)
(* The multiplexed connection to the Rancher proxy: connectToProxyWS, the  *)
(* read loop that routes the proxy's messages to one channel per session,  *)
(* the write loop that sends the handlers' responses back, and the proxy   *)
(* at the other end. Handlers are modelled by the modules that extend this *)
(* one; they receive from incoming and send on responseChannel.            *)
(***************************************************************************)
EXTENDS Naturals, Sequences

CONSTANTS
    Sessions,   \* message keys, one per client connection
    Busy,       \* bound: the sessions with data; in the others clients come and go
    ChanSize,   \* capacity of a session's channel (10 in the code)
    RespSize,   \* capacity of responseChannel (10 in the code)
    MaxBodies   \* bound on the messages a client sends in a session

ASSUME BackendAssumption ==
    /\ Busy \subseteq Sessions
    /\ ChanSize \in Nat \ {0} /\ RespSize \in Nat \ {0} /\ MaxBodies \in Nat

VARIABLES
    client,           \* the client connection of each session at the proxy
    sent,             \* messages each client has sent: its bodies are 1, 2, ...
    received,         \* the bodies each client has received
    toBackend,        \* the websocket from the proxy
    responders,       \* sessions the read loop knows a channel for
    incoming,         \* the content of each session's channel
    chanClosed,       \* sessions whose channel the read loop closed
    handled,          \* sessions whose handler was started
    responseChannel,  \* the handlers' responses
    connected         \* FALSE once the websocket failed, which ends the process

proxyVars == <<client, sent, received>>
routeVars == <<responders, incoming, chanClosed, handled>>
backendVars == <<proxyVars, toBackend, routeVars, responseChannel, connected>>

Message(k, type, body) == [Key |-> k, Type |-> type, Body |-> body]

BackendInit ==
    /\ client = [k \in Sessions |-> "new"]
    /\ sent = [k \in Sessions |-> 0]
    /\ received = [k \in Sessions |-> <<>>]
    /\ toBackend = <<>>
    /\ responders = {} /\ chanClosed = {} /\ handled = {}
    /\ incoming = [k \in Sessions |-> <<>>]
    /\ responseChannel = <<>>
    /\ connected = TRUE

--------------------------------------------------------------------------------
(* The proxy's side of a session.                                           *)

ClientConnect(k) ==
    /\ client[k] = "new"
    /\ client' = [client EXCEPT ![k] = "open"]
    /\ toBackend' = Append(toBackend, Message(k, "Connect", 0))
    /\ UNCHANGED <<sent, received, routeVars, responseChannel, connected>>

ClientSend(k) ==
    /\ client[k] = "open" /\ k \in Busy /\ sent[k] < MaxBodies
    /\ sent' = [sent EXCEPT ![k] = @ + 1]
    /\ toBackend' = Append(toBackend, Message(k, "Body", sent'[k]))
    /\ UNCHANGED <<client, received, routeVars, responseChannel, connected>>

ClientClose(k) ==
    /\ client[k] = "open"
    /\ client' = [client EXCEPT ![k] = "closed"]
    /\ toBackend' = Append(toBackend, Message(k, "Close", 0))
    /\ UNCHANGED <<sent, received, routeVars, responseChannel, connected>>

--------------------------------------------------------------------------------
(* connectToProxyWS.                                                        *)

\* A send on responseChannel blocks while it is full.
Respond(k, type, body) ==
    /\ Len(responseChannel) < RespSize
    /\ responseChannel' = Append(responseChannel, Message(k, type, body))

\* The read loop takes the next message off the websocket.
ReadMessage(k, type) ==
    /\ toBackend # <<>>
    /\ Head(toBackend).Key = k /\ Head(toBackend).Type = type
    /\ toBackend' = Tail(toBackend)

\* A handler is found for the path, or none is, or the url does not parse.
RouteConnect(k) ==
    /\ ReadMessage(k, "Connect")
    /\ \/ /\ responders' = responders \union {k}
          /\ handled' = handled \union {k}
          /\ UNCHANGED responseChannel
       \/ /\ Respond(k, "Close", 0)
          /\ UNCHANGED <<responders, handled>>
       \/ UNCHANGED <<responders, handled, responseChannel>>
    /\ UNCHANGED <<proxyVars, incoming, chanClosed, connected>>

\* Mutant: the send does not wait for room.
RouteBodyUnbounded(k) ==
    /\ ReadMessage(k, "Body")
    /\ incoming' = IF k \in responders
                   THEN [incoming EXCEPT ![k] = Append(@, Head(toBackend).Body)]
                   ELSE incoming
    /\ UNCHANGED <<proxyVars, responders, chanClosed, handled, responseChannel,
                   connected>>

\* The send to the session's channel blocks the read loop while it is full.
RouteBody(k) ==
    /\ ReadMessage(k, "Body")
    /\ \/ /\ k \in responders
          /\ Len(incoming[k]) < ChanSize
          /\ incoming' = [incoming EXCEPT ![k] = Append(@, Head(toBackend).Body)]
          /\ UNCHANGED responseChannel
       \/ /\ k \notin responders
          /\ Respond(k, "Close", 0)
          /\ UNCHANGED incoming
    /\ UNCHANGED <<proxyVars, responders, chanClosed, handled, connected>>

\* Mutant: closeHandler forgets the channel without closing it.
RouteCloseForgets(k) ==
    /\ ReadMessage(k, "Close")
    /\ responders' = responders \ {k}
    /\ UNCHANGED <<proxyVars, incoming, chanClosed, handled, responseChannel, connected>>

\* closeHandler closes the channel of a known session and forgets it.
RouteClose(k) ==
    /\ ReadMessage(k, "Close")
    /\ chanClosed' = chanClosed \union (responders \intersect {k})
    /\ responders' = responders \ {k}
    /\ UNCHANGED <<proxyVars, incoming, handled, responseChannel, connected>>

\* Mutant: one goroutine serves the websocket, and writes when there is nothing to read.
WriteMessageIdle(k) ==
    /\ toBackend = <<>>
    /\ responseChannel # <<>> /\ Head(responseChannel).Key = k
    /\ responseChannel' = Tail(responseChannel)
    /\ LET body == Head(responseChannel).Type = "Body"
           open == client[k] = "open"
       IN  /\ received' = IF body /\ open
                          THEN [received EXCEPT ![k] = Append(@, Head(responseChannel).Body)]
                          ELSE received
           /\ client' = IF ~body /\ open THEN [client EXCEPT ![k] = "ended"] ELSE client
           /\ toBackend' = IF body # open THEN <<Message(k, "Close", 0)>> ELSE <<>>
    /\ UNCHANGED <<sent, routeVars, connected>>

\* The write loop; the proxy passes a body to the client and answers a message for
\* a connection it no longer has with Close. Close ends the client's connection,
\* which the proxy reports with a Close of its own.
WriteMessage(k) ==
    /\ responseChannel # <<>> /\ Head(responseChannel).Key = k
    /\ responseChannel' = Tail(responseChannel)
    /\ LET message == Head(responseChannel)
       IN  \/ /\ message.Type = "Body" /\ client[k] = "open"
              /\ received' = [received EXCEPT ![k] = Append(@, message.Body)]
              /\ UNCHANGED <<client, toBackend>>
           \/ /\ message.Type = "Body" /\ client[k] # "open"
              /\ toBackend' = Append(toBackend, Message(k, "Close", 0))
              /\ UNCHANGED <<client, received>>
           \/ /\ message.Type = "Close" /\ client[k] = "open"
              /\ client' = [client EXCEPT ![k] = "ended"]
              /\ toBackend' = Append(toBackend, Message(k, "Close", 0))
              /\ UNCHANGED received
           \/ /\ message.Type = "Close" /\ client[k] # "open"
              /\ UNCHANGED <<client, received, toBackend>>
    /\ UNCHANGED <<sent, routeVars, connected>>

\* Reading the websocket fails: connectToProxyWS returns and the process ends.
ReadError ==
    /\ connected' = FALSE
    /\ UNCHANGED <<proxyVars, toBackend, routeVars, responseChannel>>

--------------------------------------------------------------------------------
(* What a handler does with its two channels.                               *)

\* The handler of k receives the next message.
ReceiveMessage(k) ==
    /\ incoming[k] # <<>>
    /\ incoming' = [incoming EXCEPT ![k] = Tail(@)]
    /\ UNCHANGED <<proxyVars, toBackend, responders, chanClosed, handled, responseChannel,
                   connected>>

\* A receive on the closed and drained channel of k returns at once.
ChannelEOF(k) == k \in chanClosed /\ incoming[k] = <<>>

\* The handler of k sends a response.
SendResponse(k, type, body) ==
    /\ Respond(k, type, body)
    /\ UNCHANGED <<proxyVars, toBackend, routeVars, connected>>

--------------------------------------------------------------------------------
Proxy == \E k \in Sessions : ClientConnect(k) \/ ClientSend(k) \/ ClientClose(k)

ReadLoop == \E k \in Sessions : RouteConnect(k) \/ RouteBody(k) \/ RouteClose(k)

WriteLoop == \E k \in Sessions : WriteMessage(k)

\* The client of k has connected and the read loop does not know of it yet.
Connecting(k) == \E i \in DOMAIN toBackend : toBackend[i] = Message(k, "Connect", 0)

BackendTypeOK ==
    /\ client \in [Sessions -> {"new", "open", "closed", "ended"}]
    /\ sent \in [Sessions -> 0 .. MaxBodies]
    /\ received \in [Sessions -> Seq(Nat)]
    /\ toBackend \in Seq([Key : Sessions, Type : {"Connect", "Body", "Close"}, Body : Nat])
    /\ responders \subseteq handled /\ chanClosed \subseteq handled
    /\ handled \subseteq Sessions
    /\ incoming \in [Sessions -> Seq(Nat)]
    /\ \A k \in Sessions : Len(incoming[k]) <= ChanSize
    /\ responseChannel \in Seq([Key : Sessions, Type : {"Body", "Close"}, Body : Nat])
    /\ Len(responseChannel) <= RespSize
    /\ connected \in BOOLEAN
================================================================================
