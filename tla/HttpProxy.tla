------------------------------- MODULE HttpProxy -------------------------------
(***************************************************************************)
(* The handler of /v1/container-proxy/: an HTTP request that reaches the   *)
(* host as messages (the request, pieces of its body, an EOF) is sent to a *)
(* container, and the answer goes back as messages. doHttp leaves the      *)
(* exchange to http.Client, whose transport reads the body in a goroutine  *)
(* of its own; doHijack writes the request to a connection and copies both *)
(* ways until the client has gone.                                         *)
(***************************************************************************)
EXTENDS Backend

CONSTANT MaxReads   \* bound on the pieces of an answer

ASSUME HttpProxyAssumption == MaxReads \in Nat /\ MaxBodies > 1

VARIABLE http   \* per session, the state of Handle and of the goroutine it starts

vars == <<backendVars, http>>

\* Messages of a client: the request, then its body 2, 3, ..., then the EOF.
Request == 1
EOF == MaxBodies

\* Messages of an answer: the header of doHttp, then pieces 1, 2, ..., then the EOF.
Header == 0
ResponseEOF == MaxReads + 1

\* The zeros after a body that is shorter than its Content-Length.
Padding == 0

Handler ==
    [step     : {"start", "request", "initial", "do", "header", "copy", "write", "eof",
                 "wait", "signal", "done"},
     hijack   : BOOLEAN,                             \* doHijack, not doHttp
     sized    : BOOLEAN,                             \* there is a Content-Length
     pump     : {"none", "read", "drain", "done"},   \* who reads the request body
     conn     : {"none", "open", "closed"},          \* the connection to the container
     target   : Seq(0 .. MaxBodies),                 \* the body the container got
     complete : BOOLEAN,                             \* it was told the body is complete
     produced : 0 .. MaxReads,                       \* pieces of the answer so far
     expired  : BOOLEAN]                             \* client.Timeout is over

Init ==
    /\ BackendInit
    /\ http = [k \in Sessions |->
         [step |-> "start", hijack |-> FALSE, sized |-> FALSE, pump |-> "none",
          conn |-> "none", target |-> <<>>, complete |-> FALSE, produced |-> 0,
          expired |-> FALSE]]

--------------------------------------------------------------------------------
(* The proxy's side: serveHTTP writes the request, and the body in a        *)
(* goroutine that may still be at it when the client's connection is closed.*)

WriteBody(k) ==
    /\ client[k] # "new"
    /\ \E n \in {sent[k] + 1, EOF} :
         /\ n > sent[k] /\ n <= EOF /\ (sent[k] = 0 => n = Request)
         /\ sent' = [sent EXCEPT ![k] = n]
         /\ toBackend' = Append(toBackend, Message(k, "Body", n))
    /\ UNCHANGED <<client, received, routeVars, responseChannel, connected, http>>

--------------------------------------------------------------------------------
(* Handle.                                                                  *)

\* readMessage; the empty string of a closed channel does not decode.
ReadRequest(k) ==
    /\ k \in handled /\ http[k].step = "start"
    /\ \/ /\ ReceiveMessage(k)
          /\ \E hijack, sized \in BOOLEAN :
               http' = [http EXCEPT ![k].step = "request", ![k].hijack = hijack,
                                    ![k].sized = sized]
       \/ /\ ChannelEOF(k)
          /\ http' = [http EXCEPT ![k].step = "signal"]
          /\ UNCHANGED backendVars

\* The url or the Content-Length does not parse, or the container cannot be reached.
Reject(k) ==
    /\ http[k].step = "request"
    /\ http' = [http EXCEPT ![k].step = "signal"]
    /\ UNCHANGED backendVars

\* doHttp calls client.Do: the transport sends the request and starts to read the body.
Do(k) ==
    /\ http[k].step = "request" /\ ~http[k].hijack
    /\ http' = [http EXCEPT ![k].step = "do", ![k].conn = "open", ![k].pump = "read"]
    /\ UNCHANGED backendVars

\* Mutant: the timeout ends with the header of the answer.
ExpireBeforeAnswer(k) ==
    /\ http[k].step = "do" /\ ~http[k].expired
    /\ http' = [http EXCEPT ![k].expired = TRUE]
    /\ UNCHANGED backendVars

\* The timer of client.Timeout, which runs until the answer's body has been read.
Expire(k) ==
    /\ http[k].step \in {"do", "header", "copy", "write"} /\ ~http[k].hijack
    /\ ~http[k].expired
    /\ http' = [http EXCEPT ![k].expired = TRUE]
    /\ UNCHANGED backendVars

\* client.Do returns an error: the exchange failed, or the time is over.
DoFails(k) ==
    /\ http[k].step = "do"
    /\ http' = [http EXCEPT ![k].step = "signal", ![k].conn = "closed"]
    /\ UNCHANGED backendVars

\* The container answers, which it may do before it has the whole body.
Answer(k) ==
    /\ http[k].step = "do" /\ http[k].conn = "open" /\ ~http[k].expired
    /\ http' = [http EXCEPT ![k].step = "header"]
    /\ UNCHANGED backendVars

\* The header goes out before the first piece of the body arrives.
WriteHeader(k) ==
    /\ http[k].step = "header"
    /\ SendResponse(k, "Body", Header)
    /\ http' = [http EXCEPT ![k].step = "copy"]

\* doHijack writes the request. With a Content-Length it first reads its body, by a
\* single Read: what one message does not fill stays zero.
WriteRequest(k) ==
    /\ http[k].step = "request" /\ http[k].hijack
    /\ http' = [http EXCEPT ![k].conn = "open",
                            ![k].step = IF http[k].sized THEN "initial" ELSE "copy",
                            ![k].pump = IF http[k].sized THEN "none" ELSE "read"]
    /\ UNCHANGED backendVars

ReadInitial(k) ==
    /\ http[k].step = "initial"
    /\ \/ /\ ReceiveMessage(k)
          /\ LET n == Head(incoming[k])
                 bodies == IF n = EOF THEN {<<Padding>>} ELSE {<<n>>, <<n, Padding>>}
             IN  \E body \in bodies :
                   http' = [http EXCEPT ![k].step = "copy", ![k].target = body,
                                        ![k].pump = IF n = EOF THEN "drain" ELSE "read"]
       \/ /\ ChannelEOF(k)
          /\ http' = [http EXCEPT ![k].step = "copy", ![k].target = <<Padding>>,
                                  ![k].pump = "read"]
          /\ UNCHANGED backendVars

\* The request of a hijacked exchange cannot be written: conn is closed on return, and
\* no goroutine was started.
WriteRequestFails(k) ==
    /\ http[k].step = "initial"
    /\ \/ ReceiveMessage(k)
       \/ ChannelEOF(k) /\ UNCHANGED backendVars
    /\ http' = [http EXCEPT ![k].step = "signal", ![k].conn = "closed"]

--------------------------------------------------------------------------------
(* io.Copy of the answer.                                                   *)

\* The container's next piece arrives.
ReadResponse(k) ==
    /\ http[k].step = "copy" /\ http[k].conn = "open" /\ ~http[k].expired
    /\ http[k].produced < MaxReads
    /\ http' = [http EXCEPT ![k].step = "write", ![k].produced = @ + 1]
    /\ UNCHANGED backendVars

Write(k) ==
    /\ http[k].step = "write"
    /\ SendResponse(k, "Body", http[k].produced)
    /\ http' = [http EXCEPT ![k].step = "copy"]

\* Mutant: an answer that ends is not closed with an EOF.
ReadEndsSilently(k) ==
    /\ http[k].step = "copy"
    /\ http' = [http EXCEPT ![k].step = IF http[k].hijack THEN "wait" ELSE "signal"]
    /\ UNCHANGED backendVars

\* The answer ends or fails, the time is over, or the goroutine has closed the
\* connection; the transport drops a connection that is not wholly used.
ReadEnds(k) ==
    /\ http[k].step = "copy"
    /\ http' = [http EXCEPT ![k].step = "eof",
                            ![k].conn = IF http[k].hijack THEN @ ELSE "closed"]
    /\ UNCHANGED backendVars

\* writer.Close, after an error too; doHijack then waits for its goroutine.
WriteEOF(k) ==
    /\ http[k].step = "eof"
    /\ SendResponse(k, "Body", ResponseEOF)
    /\ http' = [http EXCEPT ![k].step = IF http[k].hijack THEN "wait" ELSE "signal"]

Wait(k) ==
    /\ http[k].step = "wait" /\ http[k].pump = "done"
    /\ http' = [http EXCEPT ![k].step = "signal"]
    /\ UNCHANGED backendVars

SignalHandlerClosed(k) ==
    /\ http[k].step = "signal"
    /\ SendResponse(k, "Close", 0)
    /\ http' = [http EXCEPT ![k].step = "done"]

--------------------------------------------------------------------------------
(* The goroutine that reads the request body: doHijack's own, or the        *)
(* transport's writeLoop, which stays behind when Handle returns.           *)

\* The body cannot be written any more. doHijack's goroutine then empties the channel.
StopPump(k) == IF http[k].hijack THEN "drain" ELSE "done"

\* Mutant: a piece that cannot be written is skipped.
CopyBodySkips(k) ==
    /\ http[k].pump = "read" /\ ReceiveMessage(k) /\ Head(incoming[k]) # EOF
    /\ \/ http' = [http EXCEPT ![k].target = Append(@, Head(incoming[k]))]
       \/ UNCHANGED http

CopyBody(k) ==
    /\ http[k].pump = "read" /\ ReceiveMessage(k) /\ Head(incoming[k]) # EOF
    /\ \/ /\ http[k].conn = "open"
          /\ http' = [http EXCEPT ![k].target = Append(@, Head(incoming[k]))]
       \/ http' = [http EXCEPT ![k].pump = StopPump(k),
                               ![k].conn = IF http[k].hijack THEN @ ELSE "closed"]

\* Read returns io.EOF, for the client's EOF and for a closed channel alike. The transport
\* then ends the body, unless it is not as long as the Content-Length said.
BodyEnds(k) ==
    \/ http[k].hijack /\ http' = [http EXCEPT ![k].pump = "drain"]
    \/ /\ ~http[k].hijack
       /\ http' = [http EXCEPT ![k].pump = "done", ![k].complete = (http[k].conn = "open")]
    \/ /\ ~http[k].hijack /\ http[k].sized
       /\ http' = [http EXCEPT ![k].pump = "done", ![k].conn = "closed"]

\* Mutant: an empty channel reads as the end of the body.
BodyEOFEmpty(k) ==
    /\ http[k].pump = "read" /\ BodyEnds(k)
    /\ incoming[k] = <<>> /\ UNCHANGED backendVars

BodyEOF(k) ==
    /\ http[k].pump = "read" /\ BodyEnds(k)
    /\ \/ ReceiveMessage(k) /\ Head(incoming[k]) = EOF
       \/ ChannelEOF(k) /\ UNCHANGED backendVars

\* "waiting for channel to close"
Drain(k) ==
    /\ http[k].pump = "drain"
    /\ \/ ReceiveMessage(k) /\ UNCHANGED http
       \/ /\ ChannelEOF(k)
          /\ http' = [http EXCEPT ![k].pump = "done", ![k].conn = "closed"]
          /\ UNCHANGED backendVars

--------------------------------------------------------------------------------
Handle(k) ==
    \/ ReadRequest(k) \/ Reject(k) \/ Do(k) \/ WriteHeader(k)
    \/ WriteRequest(k) \/ ReadInitial(k) \/ WriteRequestFails(k)
    \/ Write(k) \/ WriteEOF(k) \/ Wait(k) \/ SignalHandlerClosed(k)

\* What the exchange with the container brings.
Exchange(k) == Answer(k) \/ DoFails(k) \/ ReadResponse(k) \/ ReadEnds(k)

Pump(k) == CopyBody(k) \/ BodyEOF(k) \/ Drain(k)

ProxyHTTP(k) == (ClientConnect(k) \/ ClientClose(k)) /\ UNCHANGED http

Next ==
    /\ connected
    /\ \/ (ReadLoop \/ WriteLoop \/ ReadError) /\ UNCHANGED http
       \/ \E k \in Sessions :
             \/ ProxyHTTP(k) \/ WriteBody(k)
             \/ Handle(k) \/ Expire(k) \/ Exchange(k) \/ Pump(k)

Spec == Init /\ [][Next]_vars

Answered(k) == \E i \in DOMAIN received[k] : received[k][i] = ResponseEOF

\* Goroutines run, timers fire, blocked sends are served in turn; a use of a closed
\* connection, or of an expired exchange, fails; and serveHTTP, which has read the EOF of
\* an answer, closes the client's connection. The container need not answer, but takes
\* what is written to it.
FairSpec ==
    /\ Spec
    /\ SF_vars(connected /\ ReadLoop /\ UNCHANGED http)
    /\ WF_vars(connected /\ WriteLoop /\ UNCHANGED http)
    /\ \A k \in Sessions :
        /\ SF_vars(connected /\ Handle(k))
        /\ WF_vars(connected /\ Expire(k))
        /\ WF_vars(/\ connected /\ (http[k].expired \/ http[k].conn = "closed")
                   /\ (DoFails(k) \/ ReadEnds(k)))
        /\ WF_vars(connected /\ Pump(k))
        /\ WF_vars(connected /\ Answered(k) /\ ClientClose(k) /\ UNCHANGED http)

--------------------------------------------------------------------------------
\* What the container got of a body, with the zeros at place pad, if pad is not 0.
Body(pad, length) ==
    [i \in 1 .. length |-> CASE pad = 0 \/ i < pad -> i + Request
                             [] i = pad            -> Padding
                             [] OTHER              -> i - 1 + Request]

\* The container gets the pieces of the request body in order and without a gap
\* (HttpReader.Read, CopyBody); doHijack pads a body at most once, in what it sends with
\* the request, and only with a Content-Length.
BodyInOrder ==
    \A k \in Sessions : \E pad \in 0 .. 2 :
        /\ http[k].target = Body(pad, Len(http[k].target))
        /\ pad > 0 => http[k].hijack /\ http[k].sized

\* A request that the container takes for complete has the whole body: the client's EOF
\* was read, behind all its pieces. Only a client that left before its EOF has half of
\* its body taken for the whole, since a closed channel reads as io.EOF.
CompleteIsWhole ==
    \A k \in Sessions :
        http[k].complete /\ k \notin chanClosed => sent[k] = EOF /\ incoming[k] = <<>>

\* The client gets the header first and once (doHttp resets the message it was sent in),
\* then the pieces in order, all of them before the EOF; and an answer that has begun is
\* ended by an EOF, never by Close alone.
ResponseWhole ==
    \A k \in Sessions :
        LET pieces == [i \in 1 .. http[k].produced |-> i]
            whole == (IF http[k].hijack THEN <<>> ELSE <<Header>>) \o pieces \o <<ResponseEOF>>
        IN  /\ received[k] = SubSeq(whole, 1, Len(received[k]))
            /\ client[k] = "ended" /\ received[k] # <<>> => Answered(k)

Left(k) == client[k] \in {"closed", "ended"}

Released(k) ==
    /\ ~Connecting(k)
    /\ k \in handled => http[k].step = "done" /\ http[k].pump \in {"none", "done"}

\* After the client left Handle returns and its goroutine ends, also when the container
\* never answers: doHttp by its timeout, doHijack because its goroutine, which sees the
\* channel close, closes the connection both copy from.
SessionReleased == \A k \in Sessions : Left(k) ~> (Released(k) \/ ~connected)

\* The end of an answer ends the session: its EOF makes the proxy close the client's
\* connection, whose Close lets doHijack return from wg.Wait.
AnswerEndsSession == \A k \in Sessions : Answered(k) ~> (Released(k) \/ ~connected)
================================================================================
