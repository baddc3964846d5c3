------------------------------ MODULE ExecStream -------------------------------
(***************************************************************************)
(* The handler of an interactive command in a container. Handle runs       *)
(* StartExec, which copies the command's output into one pipe and another  *)
(* pipe into its input; a goroutine decodes the client's messages into the *)
(* input pipe, and a third one sends the output to the client. When the    *)
(* client is gone the command gets an EOT and the output pipe is closed.   *)
(***************************************************************************)
EXTENDS Backend

CONSTANT MaxChunks   \* bound on the chunks of output of a command

ASSUME ExecStreamAssumption == MaxChunks \in Nat

VARIABLES
    exec,      \* Handle: "start", "copy", "write", "signal", "done"
    command,   \* the command in the container: "none", "running", "exited"
    typist,    \* decoding goroutine: "none", "receive", "write", "eot", "close", "done"
    holding,   \* the message it writes to the input pipe
    stdin,     \* StartExec's input copy: "none", "read", "write", "done"
    input,     \* the chunk that copy has read from the pipe
    typed,     \* what reached the command
    output,    \* output goroutine: "none", "read", "send", "done"
    chunk,     \* the chunk it holds
    produced   \* chunks of output so far: they are 1, 2, ...

execVars == <<exec, command, typist, holding, stdin, input, typed, output, chunk,
              produced>>
vars == <<backendVars, execVars>>

EOT == MaxBodies + 1

OutputClosed(k) == typist[k] = "done"
Returned(k) == exec[k] \in {"signal", "done"}

Init ==
    /\ BackendInit
    /\ exec = [k \in Sessions |-> "start"]
    /\ command = [k \in Sessions |-> "none"]
    /\ typist = [k \in Sessions |-> "none"]
    /\ holding = [k \in Sessions |-> 0]
    /\ stdin = [k \in Sessions |-> "none"]
    /\ input = [k \in Sessions |-> 0]
    /\ typed = [k \in Sessions |-> <<>>]
    /\ output = [k \in Sessions |-> "none"]
    /\ chunk = [k \in Sessions |-> 0]
    /\ produced = [k \in Sessions |-> 0]

--------------------------------------------------------------------------------
(* Handle and StartExec.                                                    *)

\* The url, the token, the Docker client or CreateExec fails.
Reject(k) ==
    /\ k \in handled /\ exec[k] = "start"
    /\ exec' = [exec EXCEPT ![k] = "signal"]
    /\ UNCHANGED <<backendVars, command, typist, holding, stdin, input, typed, output,
                   produced, chunk>>

\* The goroutines run before StartExec, which may fail to reach Docker.
StartExec(k) ==
    /\ k \in handled /\ exec[k] = "start"
    /\ typist' = [typist EXCEPT ![k] = "receive"]
    /\ output' = [output EXCEPT ![k] = "read"]
    /\ \/ /\ exec' = [exec EXCEPT ![k] = "copy"]
          /\ command' = [command EXCEPT ![k] = "running"]
          /\ stdin' = [stdin EXCEPT ![k] = "read"]
       \/ /\ exec' = [exec EXCEPT ![k] = "signal"]
          /\ UNCHANGED <<command, stdin>>
    /\ UNCHANGED <<backendVars, holding, input, typed, produced, chunk>>

\* The command writes a chunk, past the bound only to find the pipe closed.
Produce(k) ==
    /\ exec[k] = "copy" /\ command[k] = "running"
    /\ \/ produced[k] < MaxChunks /\ produced' = [produced EXCEPT ![k] = @ + 1]
       \/ produced[k] = MaxChunks /\ OutputClosed(k) /\ UNCHANGED produced
    /\ exec' = [exec EXCEPT ![k] = "write"]
    /\ UNCHANGED <<backendVars, command, typist, holding, stdin, input, typed, output,
                   chunk>>

\* The chunk goes through the pipe to the output goroutine, or the pipe is closed
\* and StartExec returns.
CopyOutput(k) ==
    /\ exec[k] = "write"
    /\ \/ /\ output[k] = "read" /\ ~OutputClosed(k)
          /\ exec' = [exec EXCEPT ![k] = "copy"]
          /\ output' = [output EXCEPT ![k] = "send"]
          /\ chunk' = [chunk EXCEPT ![k] = produced[k]]
       \/ /\ OutputClosed(k)
          /\ exec' = [exec EXCEPT ![k] = "signal"]
          /\ UNCHANGED <<output, chunk>>
    /\ UNCHANGED <<backendVars, command, typist, holding, stdin, input, typed, produced>>

\* Mutant: the end of the output is noticed before the last chunk is passed on.
OutputEndsEarly(k) ==
    /\ exec[k] \in {"copy", "write"} /\ command[k] = "exited"
    /\ exec' = [exec EXCEPT ![k] = "signal"]
    /\ UNCHANGED <<backendVars, command, typist, holding, stdin, input, typed, output,
                   produced, chunk>>

\* The output of a command that exited is at its end.
OutputEnds(k) ==
    /\ exec[k] = "copy" /\ command[k] = "exited"
    /\ exec' = [exec EXCEPT ![k] = "signal"]
    /\ UNCHANGED <<backendVars, command, typist, holding, stdin, input, typed, output,
                   produced, chunk>>

CommandExits(k) ==
    /\ command[k] = "running"
    /\ command' = [command EXCEPT ![k] = "exited"]
    /\ UNCHANGED <<backendVars, exec, typist, holding, stdin, input, typed, output,
                   produced, chunk>>

\* The input copy writes to the connection, which is closed when StartExec returns.
CopyInput(k) ==
    /\ stdin[k] = "write"
    /\ \/ /\ ~Returned(k)
          /\ typed' = [typed EXCEPT ![k] = Append(@, input[k])]
          /\ stdin' = [stdin EXCEPT ![k] = "read"]
       \/ /\ Returned(k) \/ command[k] = "exited"
          /\ stdin' = [stdin EXCEPT ![k] = "done"]
          /\ UNCHANGED typed
    /\ UNCHANGED <<backendVars, exec, command, typist, holding, input, output, produced,
                   chunk>>

\* The deferred SignalHandlerClosed.
SignalHandlerClosed(k) ==
    /\ exec[k] = "signal"
    /\ Respond(k, "Close", 0)
    /\ exec' = [exec EXCEPT ![k] = "done"]
    /\ UNCHANGED <<proxyVars, toBackend, routeVars, connected, command, typist, holding,
                   stdin, input, typed, output, produced, chunk>>

--------------------------------------------------------------------------------
(* The goroutine that decodes the client's messages.                        *)

\* A message is decoded, or skipped when it cannot be.
Receive(k) ==
    /\ typist[k] = "receive" /\ incoming[k] # <<>>
    /\ incoming' = [incoming EXCEPT ![k] = Tail(@)]
    /\ \/ /\ holding' = [holding EXCEPT ![k] = Head(incoming[k])]
          /\ typist' = [typist EXCEPT ![k] = "write"]
       \/ UNCHANGED <<holding, typist>>
    /\ UNCHANGED <<proxyVars, toBackend, responders, chanClosed, handled,
                   responseChannel, connected, exec, command, stdin, input, typed,
                   output, produced, chunk>>

\* Mutant: the client's Close is not passed on to the command.
ReceiveCloseIgnored(k) ==
    /\ typist[k] = "receive" /\ incoming[k] = <<>> /\ k \in chanClosed
    /\ typist' = [typist EXCEPT ![k] = "none"]
    /\ UNCHANGED <<backendVars, exec, command, holding, stdin, input, typed, output,
                   produced, chunk>>

ReceiveClose(k) ==
    /\ typist[k] = "receive" /\ incoming[k] = <<>> /\ k \in chanClosed
    /\ typist' = [typist EXCEPT ![k] = "eot"]
    /\ UNCHANGED <<backendVars, exec, command, holding, stdin, input, typed, output,
                   produced, chunk>>

\* A write to the input pipe waits for the input copy to read.
WriteInput(k) ==
    /\ typist[k] \in {"write", "eot"} /\ stdin[k] = "read"
    /\ input' = [input EXCEPT ![k] = IF typist[k] = "eot" THEN EOT ELSE holding[k]]
    /\ stdin' = [stdin EXCEPT ![k] = "write"]
    /\ typist' = [typist EXCEPT ![k] = IF @ = "eot" THEN "close" ELSE "receive"]
    /\ UNCHANGED <<backendVars, exec, command, holding, typed, output, produced, chunk>>

\* Mutant: the goroutine does not return after closing the pipe.
CloseOutputLoops(k) ==
    /\ typist[k] = "close"
    /\ typist' = [typist EXCEPT ![k] = "receive"]
    /\ UNCHANGED <<backendVars, exec, command, holding, stdin, input, typed, output,
                   produced, chunk>>

CloseOutput(k) ==
    /\ typist[k] = "close"
    /\ typist' = [typist EXCEPT ![k] = "done"]
    /\ UNCHANGED <<backendVars, exec, command, holding, stdin, input, typed, output,
                   produced, chunk>>

--------------------------------------------------------------------------------
(* The goroutine that sends the output.                                     *)

SendOutput(k) ==
    /\ output[k] = "send"
    /\ Respond(k, "Body", chunk[k])
    /\ output' = [output EXCEPT ![k] = "read"]
    /\ UNCHANGED <<proxyVars, toBackend, routeVars, connected, exec, command, typist,
                   holding, stdin, input, typed, produced, chunk>>

OutputEOF(k) ==
    /\ output[k] = "read" /\ OutputClosed(k)
    /\ output' = [output EXCEPT ![k] = "done"]
    /\ UNCHANGED <<backendVars, exec, command, typist, holding, stdin, input, typed,
                   produced, chunk>>

--------------------------------------------------------------------------------
Handle(k) ==
    \/ Reject(k) \/ StartExec(k) \/ CopyOutput(k) \/ OutputEnds(k)
    \/ SignalHandlerClosed(k)

HandleInput(k) == Receive(k) \/ ReceiveClose(k) \/ WriteInput(k) \/ CloseOutput(k)

HandleOutput(k) == SendOutput(k) \/ OutputEOF(k)

Next ==
    /\ connected
    /\ \/ (Proxy \/ ReadLoop \/ WriteLoop \/ ReadError) /\ UNCHANGED execVars
       \/ \E k \in Sessions :
             \/ Handle(k) \/ HandleInput(k) \/ HandleOutput(k) \/ CopyInput(k)
             \/ Produce(k) \/ CommandExits(k)

Spec == Init /\ [][Next]_vars

\* Goroutines run, blocked sends are served in turn, the command takes its input and
\* exits at an EOT.
FairSpec ==
    /\ Spec
    /\ SF_vars(connected /\ ReadLoop /\ UNCHANGED execVars)
    /\ WF_vars(connected /\ WriteLoop /\ UNCHANGED execVars)
    /\ \A k \in Sessions :
        /\ SF_vars(connected /\ Handle(k))
        /\ WF_vars(connected /\ HandleInput(k)) /\ WF_vars(connected /\ CopyInput(k))
        /\ SF_vars(connected /\ HandleOutput(k))
        /\ WF_vars(connected /\ CommandExits(k) /\ \E i \in DOMAIN typed[k] : typed[k][i] = EOT)

--------------------------------------------------------------------------------
\* The command gets the client's messages in order, without those that cannot be
\* decoded, then one EOT and nothing more.
InputInOrder ==
    \A k \in Sessions : \A i, j \in DOMAIN typed[k] : i < j => typed[k][i] < typed[k][j]

\* The client gets the output in order; Close, which StartExec's return sends past the
\* output goroutine, overtakes at most the one chunk that goroutine holds.
OutputOvertaken ==
    \A k \in Sessions :
        /\ received[k] = [i \in 1 .. Len(received[k]) |-> i]
        /\ client[k] = "ended" => Len(received[k]) + 1 >= produced[k]

Left(k) == client[k] \in {"closed", "ended"}
Released(k) == ~Connecting(k) /\ (k \in handled => exec[k] = "done")

\* Handle ends after the client left: the EOT reaches the command, whatever the
\* goroutines are blocked on at that time.
ExecEnds == \A k \in Sessions : Left(k) ~> (Released(k) \/ ~connected)
================================================================================
