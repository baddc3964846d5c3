------------------------------ MODULE PipeStream -------------------------------
(***************************************************************************)
(* The handlers that stream records to a client: container logs and the    *)
(* three statistics handlers. Each writes records to an io.Pipe; a         *)
(* goroutine scans the pipe and sends one message per record, another one  *)
(* discards what the client sends and closes the pipe when it is gone.     *)
(***************************************************************************)
EXTENDS Backend

CONSTANT MaxRecords   \* bound on the records a session delivers

ASSUME PipeStreamAssumption == MaxRecords \in Nat \ {0}

VARIABLES
    source,    \* Handle: "start", "produce", "write", "signal", "done"
    silent,    \* sessions over an empty list of containers, which write nothing
    produced,  \* records so far: they are 1, 2, ...
    pieces,    \* pieces of the current record that went through the pipe
    scanner,   \* the scanning goroutine: "none", "scan", "send", "final", "done"
    token,     \* what it is about to send: a record, or Torn
    drainer    \* the discarding goroutine: "none", "drain", "done"

streamVars == <<source, silent, produced, pieces, scanner, token, drainer>>
vars == <<backendVars, streamVars>>

\* A record is two pieces of data and its terminator: the scanner may read one
\* Write in several calls, and the statistics handlers write the newline apart.
Pieces == 3
Torn == 0

PipeClosed(k) == drainer[k] = "done"

Init ==
    /\ BackendInit
    /\ source = [k \in Sessions |-> "start"]
    /\ silent = {}
    /\ produced = [k \in Sessions |-> 0]
    /\ pieces = [k \in Sessions |-> 0]
    /\ scanner = [k \in Sessions |-> "none"]
    /\ token = [k \in Sessions |-> Torn]
    /\ drainer = [k \in Sessions |-> "none"]

--------------------------------------------------------------------------------
(* Handle.                                                                  *)

\* The url, the token, the Docker client or the container is bad.
Reject(k) ==
    /\ k \in handled /\ source[k] = "start"
    /\ source' = [source EXCEPT ![k] = "signal"]
    /\ UNCHANGED <<backendVars, silent, produced, pieces, scanner, token, drainer>>

\* The goroutines run before the memory capacity, the statistics or the logs are
\* asked for, which can fail at once.
Open(k) ==
    /\ k \in handled /\ source[k] = "start"
    /\ \/ source' = [source EXCEPT ![k] = "produce"] /\ silent' \in {silent, silent \union {k}}
       \/ source' = [source EXCEPT ![k] = "signal"] /\ UNCHANGED silent
    /\ scanner' = [scanner EXCEPT ![k] = "scan"]
    /\ drainer' = [drainer EXCEPT ![k] = "drain"]
    /\ UNCHANGED <<backendVars, produced, pieces, token>>

Records(k) == IF k \in Busy THEN MaxRecords ELSE 0

\* The next log line or sample; past the bound only to find the pipe closed.
Produce(k) ==
    /\ source[k] = "produce" /\ k \notin silent
    /\ \/ produced[k] < Records(k) /\ produced' = [produced EXCEPT ![k] = @ + 1]
       \/ produced[k] = Records(k) /\ PipeClosed(k) /\ UNCHANGED produced
    /\ source' = [source EXCEPT ![k] = "write"]
    /\ UNCHANGED <<backendVars, silent, pieces, scanner, token, drainer>>

\* Mutant: Handle gives up on a record it is writing.
SourceEndsEarly(k) ==
    /\ source[k] \in {"produce", "write"} /\ k \notin silent
    /\ source' = [source EXCEPT ![k] = "signal"]
    /\ UNCHANGED <<backendVars, silent, produced, pieces, scanner, token, drainer>>

\* The stream ends or a sample cannot be read.
SourceEnds(k) ==
    /\ source[k] = "produce" /\ k \notin silent
    /\ source' = [source EXCEPT ![k] = "signal"]
    /\ UNCHANGED <<backendVars, silent, produced, pieces, scanner, token, drainer>>

\* Mutant: the error of the write is ignored.
WriteErrorIgnored(k) ==
    /\ source[k] = "write" /\ PipeClosed(k)
    /\ source' = [source EXCEPT ![k] = "produce"]
    /\ UNCHANGED <<backendVars, silent, produced, pieces, scanner, token, drainer>>

\* Write fails on the closed pipe.
WriteError(k) ==
    /\ source[k] = "write" /\ PipeClosed(k)
    /\ source' = [source EXCEPT ![k] = "signal"]
    /\ UNCHANGED <<backendVars, silent, produced, pieces, scanner, token, drainer>>

\* The deferred SignalHandlerClosed. The pipe stays open.
SignalHandlerClosed(k) ==
    /\ source[k] = "signal"
    /\ Respond(k, "Close", 0)
    /\ source' = [source EXCEPT ![k] = "done"]
    /\ UNCHANGED <<proxyVars, toBackend, routeVars, connected, silent, produced, pieces,
                   scanner, token, drainer>>

--------------------------------------------------------------------------------
(* The scanning goroutine.                                                  *)

\* A piece goes from Write to Read; with the terminator Write returns and the
\* scanner has a token.
Scan(k) ==
    /\ source[k] = "write" /\ scanner[k] = "scan" /\ ~PipeClosed(k)
    /\ \/ /\ pieces[k] + 1 < Pieces
          /\ pieces' = [pieces EXCEPT ![k] = @ + 1]
          /\ UNCHANGED <<source, scanner, token>>
       \/ /\ pieces[k] + 1 = Pieces
          /\ pieces' = [pieces EXCEPT ![k] = 0]
          /\ source' = [source EXCEPT ![k] = "produce"]
          /\ scanner' = [scanner EXCEPT ![k] = "send"]
          /\ token' = [token EXCEPT ![k] = produced[k]]
    /\ UNCHANGED <<backendVars, silent, produced, drainer>>

\* On a closed pipe the scanner makes a last token of what it has.
ScanEOF(k) ==
    /\ scanner[k] = "scan" /\ PipeClosed(k)
    /\ scanner' = [scanner EXCEPT ![k] = IF pieces[k] = 0 THEN "done" ELSE "final"]
    /\ token' = [token EXCEPT ![k] = IF pieces[k] + 1 = Pieces THEN produced[k] ELSE Torn]
    /\ UNCHANGED <<backendVars, source, silent, produced, pieces, drainer>>

\* The record is longer than the scanner's buffer may grow: it stops scanning.
ScanTooLong(k) ==
    /\ scanner[k] = "scan" /\ pieces[k] > 0
    /\ scanner' = [scanner EXCEPT ![k] = "done"]
    /\ UNCHANGED <<backendVars, source, silent, produced, pieces, token, drainer>>

SendToken(k) ==
    /\ scanner[k] \in {"send", "final"}
    /\ Respond(k, "Body", token[k])
    /\ scanner' = [scanner EXCEPT ![k] = IF @ = "send" THEN "scan" ELSE "done"]
    /\ UNCHANGED <<proxyVars, toBackend, routeVars, connected, source, silent, produced,
                   pieces, token, drainer>>

--------------------------------------------------------------------------------
(* The discarding goroutine.                                                *)

\* Mutant: any message of the client closes the pipe.
DrainCloses(k) ==
    /\ drainer[k] = "drain" /\ incoming[k] # <<>>
    /\ drainer' = [drainer EXCEPT ![k] = "done"]
    /\ UNCHANGED <<backendVars, source, silent, produced, pieces, scanner, token>>

Drain(k) ==
    /\ drainer[k] = "drain" /\ incoming[k] # <<>>
    /\ incoming' = [incoming EXCEPT ![k] = Tail(@)]
    /\ UNCHANGED <<proxyVars, toBackend, responders, chanClosed, handled,
                   responseChannel, connected, streamVars>>

ClosePipe(k) ==
    /\ drainer[k] = "drain" /\ incoming[k] = <<>> /\ k \in chanClosed
    /\ drainer' = [drainer EXCEPT ![k] = "done"]
    /\ UNCHANGED <<backendVars, source, silent, produced, pieces, scanner, token>>

--------------------------------------------------------------------------------
Handle(k) ==
    \/ Reject(k) \/ Open(k) \/ Produce(k) \/ SourceEnds(k) \/ WriteError(k)
    \/ SignalHandlerClosed(k)

ScanRecords(k) == Scan(k) \/ ScanEOF(k) \/ ScanTooLong(k) \/ SendToken(k)

Discard(k) == Drain(k) \/ ClosePipe(k)

Next ==
    /\ connected
    /\ \/ (Proxy \/ ReadLoop \/ WriteLoop \/ ReadError) /\ UNCHANGED streamVars
       \/ \E k \in Sessions : Handle(k) \/ ScanRecords(k) \/ Discard(k)

Spec == Init /\ [][Next]_vars

\* Goroutines run, blocked sends are served in turn, and samples keep coming. No
\* fairness for the end of a stream.
FairSpec ==
    /\ Spec
    /\ SF_vars(connected /\ ReadLoop /\ UNCHANGED streamVars)
    /\ WF_vars(connected /\ WriteLoop /\ UNCHANGED streamVars)
    /\ \A k \in Sessions :
        /\ SF_vars(connected /\ (Reject(k) \/ Open(k) \/ SignalHandlerClosed(k)))
        /\ WF_vars(connected /\ (Produce(k) \/ WriteError(k)))
        /\ SF_vars(connected /\ SendToken(k))
        /\ WF_vars(connected /\ (Scan(k) \/ ScanEOF(k)))
        /\ WF_vars(connected /\ Discard(k))

--------------------------------------------------------------------------------
\* A client receives whole records, each once and in order, although the pipe can be
\* closed in the middle of a Write and the scanner then sends what it has: by that
\* time nobody is there to receive it.
RecordsWhole ==
    \A k \in Sessions : received[k] = [i \in 1 .. Len(received[k]) |-> i]

\* When a session is ended for its client, at most the record the scanner still holds is
\* missing from what the client received: a record the scanner gave up on keeps Handle
\* from ending the session.
AtMostOneLost ==
    \A k \in Sessions :
        client[k] = "ended" => Len(received[k]) + 1 >= produced[k]

Left(k) == client[k] \in {"closed", "ended"}
\* The read loop has seen the Connect of k, and nothing of k is left.
Released(k) ==
    /\ ~Connecting(k)
    /\ drainer[k] \in {"none", "done"} /\ scanner[k] \in {"none", "done"}
    /\ k \in handled \ silent => source[k] = "done"

\* The read loop is at a body for a session whose channel is full and whose Handle returned
\* before the goroutine that would discard it began. Nothing ends this but the connection.
Stuck ==
    /\ toBackend # <<>> /\ Head(toBackend).Type = "Body"
    /\ LET k == Head(toBackend).Key
       IN  /\ k \in responders /\ Len(incoming[k]) = ChanSize
           /\ drainer[k] = "none" /\ source[k] \in {"signal", "done"}

\* When the client is gone the two goroutines end, and so does a Handle that has
\* something to write, for it learns of the closed pipe from its next Write; unless the
\* read loop is stuck at another session and cannot tell it. A client that is gone stays
\* gone, so this is said of all sessions at once.
SessionReleased == []<>(~connected \/ Stuck \/ \A k \in Sessions : Left(k) => Released(k))
================================================================================
