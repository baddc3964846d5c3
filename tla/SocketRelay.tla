------------------------------ MODULE SocketRelay ------------------------------
(***************************************************************************)
(* The handlers that relay a session to a unix socket: the VM console and  *)
(* the Docker socket proxy, whose Handle methods have the same shape. Each *)
(* runs a reading loop that forwards what the socket delivers and a        *)
(* goroutine that writes the client's messages to the socket.              *)
(***************************************************************************)
EXTENDS Backend

CONSTANT MaxReads   \* bound on the chunks a socket delivers

ASSUME SocketRelayAssumption == MaxReads \in Nat

VARIABLES
    reader,    \* Handle itself: "start", "read", "send", "signal", "done"
    writer,    \* its goroutine: "none", "receive", "write", "done"
    conn,      \* the socket: "none", "open", "eof" once the peer closed, "closed"
    produced,  \* chunks read from the socket: they are 1, 2, ...
    holding,   \* the client message the goroutine is about to write
    written    \* the client messages written to the socket

handlerVars == <<reader, writer, conn, produced, holding, written>>
vars == <<backendVars, handlerVars>>

Init ==
    /\ BackendInit
    /\ reader = [k \in Sessions |-> "start"]
    /\ writer = [k \in Sessions |-> "none"]
    /\ conn = [k \in Sessions |-> "none"]
    /\ produced = [k \in Sessions |-> 0]
    /\ holding = [k \in Sessions |-> 0]
    /\ written = [k \in Sessions |-> <<>>]

--------------------------------------------------------------------------------
(* Handle.                                                                  *)

\* The url, the token or the dial is bad: Handle returns.
Reject(k) ==
    /\ k \in handled /\ reader[k] = "start"
    /\ reader' = [reader EXCEPT ![k] = "signal"]
    /\ UNCHANGED <<backendVars, writer, conn, produced, holding, written>>

Dial(k) ==
    /\ k \in handled /\ reader[k] = "start"
    /\ reader' = [reader EXCEPT ![k] = "read"]
    /\ writer' = [writer EXCEPT ![k] = "receive"]
    /\ conn' = [conn EXCEPT ![k] = "open"]
    /\ UNCHANGED <<backendVars, produced, holding, written>>

Read(k) ==
    /\ reader[k] = "read" /\ conn[k] = "open" /\ k \in Busy /\ produced[k] < MaxReads
    /\ produced' = [produced EXCEPT ![k] = @ + 1]
    /\ reader' = [reader EXCEPT ![k] = "send"]
    /\ UNCHANGED <<backendVars, writer, conn, holding, written>>

SendBody(k) ==
    /\ reader[k] = "send"
    /\ Respond(k, "Body", produced[k])
    /\ reader' = [reader EXCEPT ![k] = "read"]
    /\ UNCHANGED <<proxyVars, toBackend, routeVars, connected, writer, conn, produced,
                   holding, written>>

\* Mutant: the error is looked at before the chunk that came first is sent.
ReadEndDropsChunk(k) ==
    /\ reader[k] \in {"read", "send"} /\ conn[k] \in {"eof", "closed"}
    /\ reader' = [reader EXCEPT ![k] = "signal"]
    /\ UNCHANGED <<backendVars, writer, conn, produced, holding, written>>

\* Read returns EOF, or an error on a socket the goroutine closed.
ReadEnd(k) ==
    /\ reader[k] = "read" /\ conn[k] \in {"eof", "closed"}
    /\ reader' = [reader EXCEPT ![k] = "signal"]
    /\ UNCHANGED <<backendVars, writer, conn, produced, holding, written>>

\* The deferred SignalHandlerClosed.
SignalHandlerClosed(k) ==
    /\ reader[k] = "signal"
    /\ Respond(k, "Close", 0)
    /\ reader' = [reader EXCEPT ![k] = "done"]
    /\ UNCHANGED <<proxyVars, toBackend, routeVars, connected, writer, conn, produced,
                   holding, written>>

--------------------------------------------------------------------------------
(* The goroutine. It stops receiving after its first error.                 *)

Receive(k) ==
    /\ writer[k] = "receive" /\ incoming[k] # <<>>
    /\ holding' = [holding EXCEPT ![k] = Head(incoming[k])]
    /\ incoming' = [incoming EXCEPT ![k] = Tail(@)]
    /\ writer' = [writer EXCEPT ![k] = "write"]
    /\ UNCHANGED <<proxyVars, toBackend, responders, chanClosed, handled,
                   responseChannel, connected, reader, conn, produced, written>>

Write(k) ==
    /\ writer[k] = "write" /\ conn[k] = "open"
    /\ written' = [written EXCEPT ![k] = Append(@, holding[k])]
    /\ writer' = [writer EXCEPT ![k] = "receive"]
    /\ UNCHANGED <<backendVars, reader, conn, produced, holding>>

\* Mutant: a message that cannot be decoded is skipped.
CloseConnSkips(k) ==
    /\ writer[k] = "write"
    /\ writer' = [writer EXCEPT ![k] = "receive"]
    /\ UNCHANGED <<backendVars, reader, conn, produced, holding, written>>

\* Mutant: the goroutine signals Close too.
CloseConnSignals(k) ==
    /\ \/ writer[k] = "receive" /\ incoming[k] = <<>> /\ k \in chanClosed
       \/ writer[k] = "write"
    /\ Respond(k, "Close", 0)
    /\ writer' = [writer EXCEPT ![k] = "done"]
    /\ conn' = [conn EXCEPT ![k] = "closed"]
    /\ UNCHANGED <<proxyVars, toBackend, routeVars, connected, reader, produced,
                   holding, written>>

\* The channel is closed and empty, or the message cannot be decoded or written.
CloseConn(k) ==
    /\ \/ writer[k] = "receive" /\ incoming[k] = <<>> /\ k \in chanClosed
       \/ writer[k] = "write"
    /\ writer' = [writer EXCEPT ![k] = "done"]
    /\ conn' = [conn EXCEPT ![k] = "closed"]
    /\ UNCHANGED <<backendVars, reader, produced, holding, written>>

\* The peer of the socket closes it.
PeerClose(k) ==
    /\ conn[k] = "open"
    /\ conn' = [conn EXCEPT ![k] = "eof"]
    /\ UNCHANGED <<backendVars, reader, writer, produced, holding, written>>

--------------------------------------------------------------------------------
Handle(k) ==
    \/ Reject(k) \/ Dial(k) \/ Read(k) \/ SendBody(k) \/ ReadEnd(k)
    \/ SignalHandlerClosed(k)

HandleIncoming(k) == Receive(k) \/ Write(k) \/ CloseConn(k)

Next ==
    /\ connected
    /\ \/ (Proxy \/ ReadLoop \/ WriteLoop \/ ReadError) /\ UNCHANGED handlerVars
       \/ \E k \in Sessions : Handle(k) \/ HandleIncoming(k) \/ PeerClose(k)

Spec == Init /\ [][Next]_vars

\* The goroutine is in conn.Write, which has no deadline and returns when the peer of the
\* socket takes the message.
Writing(k) == writer[k] = "write" /\ conn[k] = "open"

\* Goroutines run, and a blocked send on a channel is served in turn. The peer of the
\* socket need not take what is written to it.
FairSpec ==
    /\ Spec
    /\ SF_vars(connected /\ ReadLoop /\ UNCHANGED handlerVars)
    /\ WF_vars(connected /\ WriteLoop /\ UNCHANGED handlerVars)
    /\ \A k \in Sessions : SF_vars(connected /\ Handle(k) /\ reader[k] # "read")
    /\ \A k \in Sessions : WF_vars(connected /\ ReadEnd(k))
    /\ \A k \in Sessions : WF_vars(connected /\ HandleIncoming(k) /\ ~Writing(k))

\* The peers take what is written to them.
PeersReadSpec == FairSpec /\ \A k \in Sessions : WF_vars(connected /\ HandleIncoming(k))

--------------------------------------------------------------------------------
TypeOK ==
    /\ BackendTypeOK
    /\ reader \in [Sessions -> {"start", "read", "send", "signal", "done"}]
    /\ writer \in [Sessions -> {"none", "receive", "write", "done"}]
    /\ conn \in [Sessions -> {"none", "open", "eof", "closed"}]
    /\ produced \in [Sessions -> 0 .. MaxReads]
    /\ holding \in [Sessions -> 0 .. MaxBodies]
    /\ written \in [Sessions -> Seq(Nat)]

UpTo(n) == [i \in 1 .. n |-> i]

\* What reaches the socket is what the client sent, in order and without a gap: a
\* message that cannot be decoded or written ends the relay.
WrittenInOrder == \A k \in Sessions : written[k] = UpTo(Len(written[k]))

\* Handle signals Close after everything it read from the socket: a client whose
\* connection was ended by that Close has received the whole output, in order.
OutputComplete ==
    \A k \in Sessions :
        /\ received[k] = UpTo(Len(received[k]))
        /\ client[k] = "ended" => Len(received[k]) = produced[k]

\* A handler sends Close once and nothing after it, although the reading loop, the
\* goroutine and the read loop of the backend can all end the session.
CloseIsLast ==
    \A i, j \in DOMAIN responseChannel :
        LET k == responseChannel[i].Key
        IN  i < j /\ k \in handled /\ responseChannel[j].Key = k
                => responseChannel[i].Type = "Body"

Left(k) == client[k] \in {"closed", "ended"}
\* The read loop has seen the Connect of k, and nothing of k is left.
Released(k) ==
    /\ ~Connecting(k)
    /\ conn[k] \in {"none", "closed"} /\ (k \in handled => reader[k] = "done")

\* The read loop is at a body for a session whose channel is full and whose goroutine does
\* not receive: Handle returned before it began, it ended, or it waits for its peer.
Stuck ==
    /\ toBackend # <<>> /\ Head(toBackend).Type = "Body"
    /\ LET k == Head(toBackend).Key
       IN  /\ k \in responders /\ Len(incoming[k]) = ChanSize
           /\ \/ writer[k] = "done" \/ Writing(k)
              \/ writer[k] = "none" /\ reader[k] \in {"signal", "done"}

\* A session whose client is gone gives its socket and its two goroutines back, unless
\* its peer never takes what the goroutine writes, or the read loop is stuck for good and
\* cannot tell it.
SessionReleased ==
    \A k \in Sessions : Left(k) ~> (Released(k) \/ ~connected \/ []Writing(k) \/ []Stuck)

\* A full channel of a session that has ended, or whose peer does not read, is the only
\* thing that can stop the read loop: not a handler that is slow, a full response
\* channel, or any cycle of sends between the two loops and the handlers.
RoutedUnlessStuck == []<>(toBackend = <<>> \/ ~connected) \/ <>[]Stuck

\* "to have messages routed to and from the handler": the read loop always gets to
\* the end of what the proxy has sent, at least if the peers of the sockets read.
MessagesRouted == []<>(toBackend = <<>> \/ ~connected)
================================================================================
