------------------------------ MODULE ExecProofs -------------------------------
(***************************************************************************)
(* Proofs about the interactive commands, for any number of sessions,      *)
(* capacities, messages and chunks of output.                              *)
(***************************************************************************)
EXTENDS ExecStream, BackendProofs

ExecType ==
    /\ BackendTypeOK
    /\ exec \in [Sessions -> {"start", "copy", "write", "signal", "done"}]
    /\ typist \in [Sessions -> {"none", "receive", "write", "eot", "close", "done"}]
    /\ stdin \in [Sessions -> {"none", "read", "write", "done"}]
    /\ output \in [Sessions -> {"none", "read", "send", "done"}]
    /\ holding \in [Sessions -> Nat] /\ input \in [Sessions -> Nat]
    /\ chunk \in [Sessions -> Nat] /\ produced \in [Sessions -> Nat]
    /\ typed \in [Sessions -> Seq(Nat)]

\* The chunks that went through the output pipe, and those of them that were sent; with
\* the pipe closed nobody is there to receive the others.
Passed(k) == IF exec[k] = "write" /\ ~OutputClosed(k) THEN produced[k] - 1 ELSE produced[k]
Sent(k) == IF output[k] = "send" THEN Passed(k) - 1 ELSE Passed(k)

\* What Close may overtake once Handle is done: the chunk the output goroutine holds.
Last(k) == IF exec[k] = "done" THEN produced[k] ELSE 0

\* The goroutines of a session. The pipe is closed only when the channel is.
GoroutinesOK(k) ==
    /\ k \notin handled => exec[k] = "start"
    /\ exec[k] = "start" =>
          /\ typist[k] = "none" /\ stdin[k] = "none" /\ output[k] = "none"
          /\ produced[k] = 0 /\ typed[k] = <<>>
    /\ typist[k] \in {"eot", "close", "done"} => k \in chanClosed
    /\ exec[k] = "write" /\ ~OutputClosed(k) => produced[k] >= 1
    /\ output[k] = "send" => produced[k] >= 1
    /\ output[k] = "send" /\ ~OutputClosed(k) => Passed(k) >= 1 /\ chunk[k] = Passed(k)

\* What has been typed comes before what is on its way to the command: the chunk in the
\* input copy, the message the decoding goroutine holds, and all that follow low. The
\* EOT comes last.
TypedOK(k, low) ==
    /\ \A i, j \in DOMAIN typed[k] : i < j => typed[k][i] < typed[k][j]
    /\ stdin[k] = "write" => \A i \in DOMAIN typed[k] : typed[k][i] < input[k]
    /\ typist[k] = "write" =>
          /\ holding[k] <= low
          /\ \A i \in DOMAIN typed[k] : typed[k][i] < holding[k]
          /\ stdin[k] = "write" => input[k] < holding[k]
    /\ typist[k] \notin {"close", "done"} =>
          /\ \A i \in DOMAIN typed[k] : typed[k][i] <= low
          /\ stdin[k] = "write" => input[k] <= low

\* The session: the handler has received the messages up to low, sent out, and is done or
\* not.
ExecOK(k, low, out, done, p) ==
    /\ out = Count(Sent(k)) /\ done = (exec[k] = "done") /\ p = Last(k)
    /\ StreamOK(k, low, out, done, p) /\ GoroutinesOK(k) /\ TypedOK(k, low)

SomeExec(k) ==
    \E low \in 0 .. sent[k], done \in BOOLEAN, out \in {Count(Sent(k))}, p \in {Last(k)} :
        ExecOK(k, low, out, done, p)

ExecInv == ExecType /\ \A k \in Sessions : SomeExec(k)

--------------------------------------------------------------------------------
(* Types.                                                                   *)

\* The steps of Handle, StartExec and the goroutines in session j.
HandlerStep(j) ==
    \/ Handle(j) \/ HandleInput(j) \/ HandleOutput(j) \/ CopyInput(j) \/ Produce(j)
    \/ CommandExits(j)

\* Those that use the channels do one thing with them.
LEMMA HandlerChannels ==
    ASSUME ExecType, NEW j \in Sessions, HandlerStep(j)
    PROVE  \/ UNCHANGED backendVars \/ ReceiveMessage(j)
           \/ \E type \in {"Body", "Close"}, n \in Nat : SendResponse(j, type, n)
<1>1. CASE SendOutput(j)
  <2>1. chunk[j] \in Nat
    BY Zenon DEF ExecType
  <2>2. SendResponse(j, "Body", chunk[j])
    BY <1>1, Zenon DEF SendOutput, SendResponse
  <2>. QED
    BY <2>1, <2>2, Zenon
<1>2. CASE SignalHandlerClosed(j)
  <2>1. SendResponse(j, "Close", 0)
    BY <1>2, Zenon DEF SignalHandlerClosed, SendResponse
  <2>. QED
    BY <2>1, Zenon
<1>3. CASE Receive(j)
  BY <1>3, Zenon DEF Receive, ReceiveMessage
<1>. QED
  BY <1>1, <1>2, <1>3, Zenon DEF HandlerStep, Handle, HandleInput, HandleOutput, Reject,
     StartExec, CopyOutput, OutputEnds, ReceiveClose, WriteInput, CloseOutput, OutputEOF,
     CopyInput, Produce, CommandExits

\* They keep the types of their variables.
LEMMA ExecTypeStep ==
    ASSUME ExecType, Next
    PROVE  ExecType'
<1>1. CASE (Proxy \/ ReadLoop \/ WriteLoop \/ ReadError) /\ UNCHANGED execVars
  <2>1. BackendTypeOK'
    <3>1. CASE ReadError
      BY <3>1, Zenon DEF ExecType, BackendTypeOK, ReadError, proxyVars, routeVars
    <3>2. CASE Proxy \/ ReadLoop \/ WriteLoop
      BY <3>2, BackendSteps, BackendStepType, Zenon DEF ExecType
    <3>. QED
      BY <1>1, <3>1, <3>2, Zenon
  <2>. QED
    BY <1>1, <2>1, Zenon DEF ExecType, execVars
<1>2. ASSUME NEW j \in Sessions, HandlerStep(j) PROVE ExecType'
  <2>1. BackendTypeOK'
    <3>1. CASE UNCHANGED backendVars
      BY <3>1, Zenon DEF ExecType, BackendTypeOK, backendVars, proxyVars, routeVars
    <3>. QED
      BY <1>2, <3>1, HandlerChannels, HandlerStepType, Zenon DEF ExecType
  <2>2. /\ exec' \in [Sessions -> {"start", "copy", "write", "signal", "done"}]
        /\ typist' \in [Sessions -> {"none", "receive", "write", "eot", "close", "done"}]
        /\ stdin' \in [Sessions -> {"none", "read", "write", "done"}]
        /\ output' \in [Sessions -> {"none", "read", "send", "done"}]
        /\ holding' \in [Sessions -> Nat] /\ input' \in [Sessions -> Nat]
        /\ chunk' \in [Sessions -> Nat] /\ produced' \in [Sessions -> Nat]
        /\ typed' \in [Sessions -> Seq(Nat)]
    <3>. USE DEF ExecType
    <3>1. CASE Handle(j)
      BY <3>1, Zenon DEF Handle, Reject, StartExec, CopyOutput, OutputEnds, SignalHandlerClosed
    <3>2. CASE Receive(j)
      <4>0. incoming[j] \in Seq(Nat) /\ incoming[j] # <<>>
        BY <3>2, Zenon DEF Receive, BackendTypeOK
      <4>1. Head(incoming[j]) \in Nat
        BY <4>0, HeadTailProperties, Zenon
      <4>2. holding' \in [Sessions -> Nat]
        BY <3>2, <4>1, Zenon DEF Receive
      <4>3. typist' \in [Sessions -> {"none", "receive", "write", "eot", "close", "done"}]
        BY <3>2, Zenon DEF Receive
      <4>. QED
        BY <3>2, <4>2, <4>3, Zenon DEF Receive
    <3>3. CASE ReceiveClose(j) \/ CloseOutput(j)
      BY <3>3, Zenon DEF ReceiveClose, CloseOutput
    <3>4. CASE WriteInput(j)
      <4>1. EOT \in Nat
        BY BackendAssumption DEF EOT
      <4>2. input' \in [Sessions -> Nat]
        BY <3>4, <4>1, Zenon DEF WriteInput
      <4>3. typist' \in [Sessions -> {"none", "receive", "write", "eot", "close", "done"}]
        BY <3>4, Zenon DEF WriteInput
      <4>4. stdin' \in [Sessions -> {"none", "read", "write", "done"}]
        BY <3>4, Zenon DEF WriteInput
      <4>. QED
        BY <3>4, <4>2, <4>3, <4>4, Zenon DEF WriteInput
    <3>5. CASE HandleOutput(j)
      BY <3>5, Zenon DEF HandleOutput, SendOutput, OutputEOF
    <3>6. CASE CopyInput(j)
      <4>1. Append(typed[j], input[j]) \in Seq(Nat)
        BY AppendProperties, Zenon
      <4>2. typed' \in [Sessions -> Seq(Nat)]
        BY <3>6, <4>1, Zenon DEF CopyInput
      <4>3. stdin' \in [Sessions -> {"none", "read", "write", "done"}]
        BY <3>6, Zenon DEF CopyInput
      <4>. QED
        BY <3>6, <4>2, <4>3, Zenon DEF CopyInput
    <3>7. CASE Produce(j) \/ CommandExits(j)
      <4>1. produced' \in [Sessions -> Nat]
        <5>1. \/ UNCHANGED produced \/ produced' = [produced EXCEPT ![j] = @ + 1]
          BY <3>7, Zenon DEF Produce, CommandExits
        <5>2. produced \in [Sessions -> Nat] /\ produced[j] + 1 \in Nat
          OBVIOUS
        <5>. HIDE DEF ExecType
        <5>. QED
          BY <5>1, <5>2, Zenon
      <4>2. exec' \in [Sessions -> {"start", "copy", "write", "signal", "done"}]
        BY <3>7, Zenon DEF Produce, CommandExits
      <4>. QED
        BY <3>7, <4>1, <4>2, Zenon DEF Produce, CommandExits
    <3>. QED
      BY <1>2, <3>1, <3>2, <3>3, <3>4, <3>5, <3>6, <3>7, Zenon DEF HandlerStep, HandleInput
  <2>. QED
    BY <2>1, <2>2, Zenon DEF ExecType
<1>. QED
  BY <1>1, <1>2, Zenon DEF Next, HandlerStep

--------------------------------------------------------------------------------
(* The invariant of a session.                                              *)

\* The variables of session k.
SameExec(k) ==
    /\ exec'[k] = exec[k] /\ typist'[k] = typist[k] /\ holding'[k] = holding[k]
    /\ stdin'[k] = stdin[k] /\ input'[k] = input[k] /\ typed'[k] = typed[k]
    /\ output'[k] = output[k] /\ chunk'[k] = chunk[k] /\ produced'[k] = produced[k]

\* The types of what the invariant says of session k.
LEMMA ExecValues ==
    ASSUME ExecType, NEW k \in Sessions, GoroutinesOK(k)
    PROVE  /\ exec[k] \in {"start", "copy", "write", "signal", "done"}
           /\ typist[k] \in {"none", "receive", "write", "eot", "close", "done"}
           /\ stdin[k] \in {"none", "read", "write", "done"}
           /\ output[k] \in {"none", "read", "send", "done"}
           /\ holding[k] \in Nat /\ input[k] \in Nat /\ chunk[k] \in Nat /\ produced[k] \in Nat
           /\ typed[k] \in Seq(Nat) /\ sent[k] \in Nat /\ sent[k] <= MaxBodies
           /\ Sent(k) \in Nat /\ Passed(k) \in Nat /\ Last(k) \in Nat
<1>1. /\ exec[k] \in {"start", "copy", "write", "signal", "done"}
      /\ typist[k] \in {"none", "receive", "write", "eot", "close", "done"}
      /\ stdin[k] \in {"none", "read", "write", "done"}
      /\ output[k] \in {"none", "read", "send", "done"}
      /\ holding[k] \in Nat /\ input[k] \in Nat /\ chunk[k] \in Nat /\ produced[k] \in Nat
      /\ typed[k] \in Seq(Nat)
  BY Zenon DEF ExecType
<1>2. sent[k] \in 0 .. MaxBodies
  BY Zenon DEF ExecType, BackendTypeOK
<1>3. Passed(k) \in Nat /\ Sent(k) \in Nat /\ Last(k) \in Nat
  BY <1>1 DEF GoroutinesOK, Passed, Sent, Last
<1>. QED
  BY <1>1, <1>2, <1>3, BackendAssumption

\* The backend's steps and those of other sessions keep the invariant.
LEMMA ExecOthers ==
    ASSUME ExecType, NEW k \in Sessions, NEW low \in Nat, NEW out, NEW done \in BOOLEAN, NEW p,
           ExecOK(k, low, out, done, p),
           \/ (Proxy \/ ReadLoop \/ WriteLoop \/ ReadError) /\ UNCHANGED execVars
           \/ UNCHANGED vars
           \/ \E j \in Sessions : j # k /\ HandlerStep(j)
    PROVE  ExecOK(k, low, out, done, p)'
<1>1. /\ out \in Seq(Nat) /\ Rising(out) /\ p \in Nat /\ BackendTypeOK
      /\ StreamOK(k, low, out, done, p)
  BY ExecValues, CountTo, Zenon DEF ExecOK, ExecType
<1>2. /\ StreamOK(k, low, out, done, p)' /\ SameExec(k)
      /\ k \in handled => k \in handled'
      /\ k \in chanClosed => k \in chanClosed'
  <2>1. CASE (Proxy \/ ReadLoop \/ WriteLoop) /\ UNCHANGED execVars
    <3>1. PICK j \in Sessions : BackendStep(j)
      BY <1>1, <2>1, BackendSteps, Zenon
    <3>2. handled \subseteq handled' /\ chanClosed \subseteq chanClosed'
      BY <3>1, Zenon DEF BackendStep, ClientConnect, ClientClose, ProxySends, RouteConnect,
         RouteBody, RouteClose, WriteMessage, routeVars
    <3>3. SameExec(k)
      BY <2>1, Zenon DEF SameExec, execVars
    <3>. QED
      BY <1>1, <3>1, <3>2, <3>3, BackendKeeps, Zenon
  <2>2. CASE (ReadError /\ UNCHANGED execVars) \/ UNCHANGED vars
    <3>1. SameView(k)
      BY <1>1, <2>2, OtherSession, Zenon DEF vars
    <3>2. SameExec(k)
      BY <2>2, Zenon DEF SameExec, execVars, vars
    <3>. QED
      BY <1>1, <3>1, <3>2, SameViewKeeps, Zenon DEF SameView
  <2>3. ASSUME NEW j \in Sessions, j # k, HandlerStep(j)
        PROVE  /\ StreamOK(k, low, out, done, p)' /\ SameExec(k)
               /\ k \in handled => k \in handled'
               /\ k \in chanClosed => k \in chanClosed'
    <3>1. SameView(k)
      BY <1>1, <2>3, HandlerChannels, OtherSession, Zenon
    <3>2. SameExec(k)
      <4>. USE DEF SameExec, ExecType
      <4>1. CASE Handle(j)
        BY <2>3, <4>1, Zenon DEF Handle, Reject, StartExec, CopyOutput, OutputEnds,
           SignalHandlerClosed
      <4>2. CASE HandleInput(j)
        BY <2>3, <4>2, Zenon DEF HandleInput, Receive, ReceiveClose, WriteInput, CloseOutput
      <4>3. CASE HandleOutput(j) \/ CopyInput(j) \/ Produce(j) \/ CommandExits(j)
        BY <2>3, <4>3, Zenon DEF HandleOutput, SendOutput, OutputEOF, CopyInput, Produce,
            CommandExits
      <4>. QED
        BY <2>3, <4>1, <4>2, <4>3, Zenon DEF HandlerStep
    <3>. QED
      BY <1>1, <3>1, <3>2, SameViewKeeps, Zenon DEF SameView
  <2>. QED
    BY <2>1, <2>2, <2>3, Zenon
<1>3. Sent(k)' = Sent(k) /\ Last(k)' = Last(k) /\ Passed(k)' = Passed(k)
  BY <1>2, Zenon DEF SameExec, Sent, Passed, Last, OutputClosed
<1>4. GoroutinesOK(k)' /\ TypedOK(k, low)'
  BY <1>2, <1>3, Zenon DEF SameExec, ExecOK, GoroutinesOK, TypedOK, OutputClosed
<1>. QED
  BY <1>2, <1>3, <1>4, Zenon DEF ExecOK, SameExec

\* The end of the proof for a step of session k: what it leaves alone, and what the
\* handler has received, sent and signalled after it.
LEMMA ExecAfter ==
    ASSUME ExecType', NEW k \in Sessions, NEW low \in Nat, NEW out, NEW done \in BOOLEAN, NEW p,
           StreamOK(k, low, out, done, p)', out = Count(Sent(k)'),
           done = (exec'[k] = "done"), p = Last(k)', GoroutinesOK(k)', TypedOK(k, low)'
    PROVE  SomeExec(k)'
<1>1. ExecOK(k, low, out, done, p)'
  BY Zenon DEF ExecOK
<1>2. sent'[k] \in 0 .. MaxBodies
  BY Zenon DEF ExecType, BackendTypeOK
<1>3. low \in 0 .. sent'[k]
  BY <1>2, BackendAssumption DEF StreamOK, InputOK
<1>4. out \in {Count(Sent(k))}' /\ p \in {Last(k)}'
  BY Zenon DEF ExecOK
<1>. QED
  BY <1>1, <1>3, <1>4, Zenon DEF SomeExec

\* Handle and StartExec.
LEMMA HandleKeeps ==
    ASSUME ExecType, ExecType', NEW k \in Sessions, NEW low \in Nat, NEW out,
           NEW done \in BOOLEAN, NEW p, ExecOK(k, low, out, done, p), Handle(k) \/ Produce(k)
    PROVE  SomeExec(k)'
<1>1. /\ out = Count(Sent(k)) /\ done = (exec[k] = "done") /\ p = Last(k)
      /\ StreamOK(k, low, out, done, p) /\ GoroutinesOK(k) /\ TypedOK(k, low)
  BY Zenon DEF ExecOK
<1>2. /\ exec[k] \in {"start", "copy", "write", "signal", "done"} /\ produced[k] \in Nat
      /\ Sent(k) \in Nat /\ Passed(k) \in Nat /\ Last(k) \in Nat
  BY <1>1, ExecValues, Zenon
<1>3. out \in Seq(Nat) /\ Rising(out) /\ p \in Nat /\ BackendTypeOK
  BY <1>1, <1>2, CountTo, Zenon DEF ExecType
<1>4. ASSUME UNCHANGED backendVars PROVE SameView(k)
  BY <1>3, <1>4, OtherSession, Zenon
<1>5. /\ holding'[k] = holding[k] /\ input'[k] = input[k] /\ typed'[k] = typed[k]
  BY Zenon DEF Handle, Produce, Reject, StartExec, CopyOutput, OutputEnds,
     SignalHandlerClosed
<1>6. CASE Reject(k)
  <2>1. /\ k \in handled /\ exec[k] = "start" /\ exec'[k] = "signal"
        /\ typist'[k] = typist[k] /\ stdin'[k] = stdin[k] /\ output'[k] = output[k]
        /\ chunk'[k] = chunk[k] /\ produced'[k] = produced[k]
        /\ UNCHANGED backendVars
    BY <1>6, Zenon DEF Reject, ExecType
  <2>2. StreamOK(k, low, out, done, p)' /\ (k \in handled') = (k \in handled)
        /\ (k \in chanClosed') = (k \in chanClosed)
    BY <1>1, <1>4, <2>1, SameViewKeeps, Zenon DEF SameView
  <2>3. Sent(k)' = Sent(k) /\ Last(k)' = Last(k)
    BY <1>1, <2>1, Zenon DEF Sent, Passed, Last, OutputClosed
  <2>4. GoroutinesOK(k)'
    BY <1>1, <2>1, <2>2, Zenon DEF GoroutinesOK, Passed, OutputClosed
  <2>5. TypedOK(k, low)'
    BY <1>1, <1>5, <2>1, Zenon DEF TypedOK
  <2>. QED
    BY <1>1, <2>1, <2>2, <2>3, <2>4, <2>5, ExecAfter, Zenon
<1>7. CASE StartExec(k)
  <2>1. /\ k \in handled /\ exec[k] = "start" /\ exec'[k] \in {"copy", "signal"}
        /\ typist'[k] = "receive" /\ output'[k] = "read"
        /\ stdin'[k] \in {stdin[k], "read"}
        /\ chunk'[k] = chunk[k] /\ produced'[k] = produced[k]
        /\ UNCHANGED backendVars
    BY <1>7, Zenon DEF StartExec, ExecType
  <2>2. StreamOK(k, low, out, done, p)' /\ (k \in handled') = (k \in handled)
        /\ (k \in chanClosed') = (k \in chanClosed)
    BY <1>1, <1>4, <2>1, SameViewKeeps, Zenon DEF SameView
  <2>3. Sent(k)' = Sent(k) /\ Last(k)' = Last(k)
    BY <1>1, <2>1, Zenon DEF GoroutinesOK, Sent, Passed, Last, OutputClosed
  <2>4. GoroutinesOK(k)'
    BY <1>1, <2>1, <2>2, Zenon DEF GoroutinesOK, Passed, OutputClosed
  <2>5. TypedOK(k, low)'
    BY <1>1, <1>5, <2>1, Zenon DEF TypedOK, GoroutinesOK
  <2>. QED
    BY <1>1, <2>1, <2>2, <2>3, <2>4, <2>5, ExecAfter, Zenon
<1>8. CASE CopyOutput(k)
  <2>1. /\ exec[k] = "write" /\ typist'[k] = typist[k] /\ stdin'[k] = stdin[k]
        /\ produced'[k] = produced[k] /\ UNCHANGED backendVars
        /\ \/ /\ output[k] = "read" /\ ~OutputClosed(k) /\ exec'[k] = "copy"
              /\ output'[k] = "send" /\ chunk'[k] = produced[k]
           \/ /\ OutputClosed(k) /\ exec'[k] = "signal"
              /\ output'[k] = output[k] /\ chunk'[k] = chunk[k]
    BY <1>8, Zenon DEF CopyOutput, ExecType
  <2>2. StreamOK(k, low, out, done, p)' /\ (k \in handled') = (k \in handled)
        /\ (k \in chanClosed') = (k \in chanClosed)
    BY <1>1, <1>4, <2>1, SameViewKeeps, Zenon DEF SameView
  <2>3. Sent(k)' = Sent(k) /\ Last(k)' = Last(k)
    BY <1>1, <1>2, <2>1, Zenon DEF GoroutinesOK, Sent, Passed, Last, OutputClosed
  <2>4. GoroutinesOK(k)'
    BY <1>1, <1>2, <2>1, <2>2, ZenonT(30) DEF GoroutinesOK, Passed, OutputClosed
  <2>5. TypedOK(k, low)'
    BY <1>1, <1>5, <2>1, Zenon DEF TypedOK
  <2>. QED
    BY <1>1, <2>1, <2>2, <2>3, <2>4, <2>5, ExecAfter, ZenonT(30)
<1>9. CASE OutputEnds(k)
  <2>1. /\ exec[k] = "copy" /\ exec'[k] = "signal"
        /\ typist'[k] = typist[k] /\ stdin'[k] = stdin[k] /\ output'[k] = output[k]
        /\ chunk'[k] = chunk[k] /\ produced'[k] = produced[k]
        /\ UNCHANGED backendVars
    BY <1>9, Zenon DEF OutputEnds, ExecType
  <2>2. StreamOK(k, low, out, done, p)' /\ (k \in handled') = (k \in handled)
        /\ (k \in chanClosed') = (k \in chanClosed)
    BY <1>1, <1>4, <2>1, SameViewKeeps, Zenon DEF SameView
  <2>3. Sent(k)' = Sent(k) /\ Last(k)' = Last(k)
    BY <1>1, <2>1, Zenon DEF Sent, Passed, Last, OutputClosed
  <2>4. GoroutinesOK(k)'
    BY <1>1, <2>1, <2>2, Zenon DEF GoroutinesOK, Passed, OutputClosed
  <2>5. TypedOK(k, low)'
    BY <1>1, <1>5, <2>1, Zenon DEF TypedOK
  <2>. QED
    BY <1>1, <2>1, <2>2, <2>3, <2>4, <2>5, ExecAfter, Zenon
<1>10. CASE SignalHandlerClosed(k)
  <2>1. /\ exec[k] = "signal" /\ exec'[k] = "done"
        /\ typist'[k] = typist[k] /\ stdin'[k] = stdin[k] /\ output'[k] = output[k]
        /\ chunk'[k] = chunk[k] /\ produced'[k] = produced[k]
        /\ SendResponse(k, "Close", 0)
    BY <1>10, Zenon DEF SignalHandlerClosed, ExecType, SendResponse
  <2>2. k \in handled /\ done = FALSE
    BY <1>1, <2>1, Zenon DEF GoroutinesOK
  <2>3. StreamOK(k, low, out, TRUE, produced[k])'
    BY <1>1, <1>2, <1>3, <2>1, <2>2, SignalStep, ZenonT(30)
  <2>4. (k \in handled') = (k \in handled) /\ (k \in chanClosed') = (k \in chanClosed)
    BY <2>1, Zenon DEF SendResponse, routeVars
  <2>5. Sent(k)' = Sent(k) /\ Last(k)' = produced[k]
    BY <1>1, <2>1, Zenon DEF Sent, Passed, Last, OutputClosed
  <2>6. GoroutinesOK(k)'
    BY <1>1, <2>1, <2>4, Zenon DEF GoroutinesOK, Passed, OutputClosed
  <2>7. TypedOK(k, low)'
    BY <1>1, <1>5, <2>1, Zenon DEF TypedOK
  <2>. QED
    BY <1>1, <2>1, <2>3, <2>5, <2>6, <2>7, ExecAfter, Zenon
<1>11. CASE Produce(k)
  <2>1. /\ exec[k] = "copy" /\ exec'[k] = "write"
        /\ typist'[k] = typist[k] /\ stdin'[k] = stdin[k] /\ output'[k] = output[k]
        /\ chunk'[k] = chunk[k] /\ UNCHANGED backendVars
        /\ \/ produced'[k] = produced[k] + 1
           \/ produced'[k] = produced[k] /\ OutputClosed(k)
    BY <1>11, Zenon DEF Produce, ExecType
  <2>2. (k \in handled') = (k \in handled) /\ (k \in chanClosed') = (k \in chanClosed)
    BY <2>1, Zenon DEF backendVars, routeVars
  <2>3. GoroutinesOK(k)'
    BY <1>1, <1>2, <2>1, <2>2 DEF GoroutinesOK, Passed, OutputClosed
  <2>4. TypedOK(k, low)'
    BY <1>1, <1>5, <2>1, Zenon DEF TypedOK
  <2>5. Last(k)' = Last(k) /\ done = FALSE /\ exec'[k] # "done"
    BY <1>1, <2>1, ZenonT(30) DEF Last
  <2>6. CASE OutputClosed(k) /\ produced'[k] = produced[k] + 1
    <3>1. Gone(k) /\ k \in handled
      BY <1>1, <2>1, <2>6, Zenon DEF GoroutinesOK, OutputClosed, StreamOK, LinkOK
    <3>2. PICK n \in Nat : n = Sent(k) + 1
      BY <1>2
    <3>3. StreamOK(k, low, Append(out, n), done, p)
      BY <1>1, <1>3, <2>5, <3>1, GoneGrows, Zenon
    <3>4. Append(out, n) = Count(Sent(k) + 1)
      BY <1>1, <1>2, <3>2, CountTo, Zenon
    <3>5. Sent(k)' = Sent(k) + 1
      <4>1. Passed(k) = produced[k] /\ Passed(k)' = produced[k] + 1
        BY <2>1, <2>6, Zenon DEF Passed, OutputClosed
      <4>2. /\ Sent(k) = IF output[k] = "send" THEN produced[k] - 1 ELSE produced[k]
            /\ Sent(k)' = IF output[k] = "send" THEN (produced[k] + 1) - 1 ELSE produced[k] + 1
        BY <2>1, <4>1, Zenon DEF Sent
      <4>. QED
        BY <1>2, <4>2
    <3>6. StreamOK(k, low, Append(out, n), done, p)'
      BY <1>4, <2>1, <3>3, SameViewKeeps, ZenonT(30)
    <3>. QED
      BY <1>1, <2>3, <2>4, <2>5, <3>4, <3>5, <3>6, ExecAfter, ZenonT(30)
  <2>7. CASE ~OutputClosed(k) \/ produced'[k] = produced[k]
    <3>1. StreamOK(k, low, out, done, p)'
      BY <1>1, <1>4, <2>1, SameViewKeeps, Zenon
    <3>2. Sent(k)' = Sent(k)
      BY <1>2, <2>1, <2>7 DEF Sent, Passed, OutputClosed
    <3>. QED
      BY <1>1, <2>3, <2>4, <2>5, <3>1, <3>2, ExecAfter, ZenonT(30)
  <2>. QED
    BY <2>1, <2>6, <2>7, Zenon
<1>. QED
  BY <1>6, <1>7, <1>8, <1>9, <1>10, <1>11, Zenon DEF Handle

\* The goroutine that decodes the client's messages, the input copy and the command.
LEMMA InputKeeps ==
    ASSUME ExecType, ExecType', NEW k \in Sessions, NEW low \in Nat, NEW out,
           NEW done \in BOOLEAN, NEW p, ExecOK(k, low, out, done, p), 
           HandleInput(k) \/ CopyInput(k) \/ CommandExits(k)
    PROVE  SomeExec(k)'
<1>1. /\ out = Count(Sent(k)) /\ done = (exec[k] = "done") /\ p = Last(k)
      /\ StreamOK(k, low, out, done, p) /\ GoroutinesOK(k) /\ TypedOK(k, low)
  BY Zenon DEF ExecOK
<1>2. /\ exec[k] \in {"start", "copy", "write", "signal", "done"}
      /\ produced[k] \in Nat /\ input[k] \in Nat /\ holding[k] \in Nat /\ chunk[k] \in Nat
      /\ typed[k] \in Seq(Nat) /\ sent[k] \in Nat /\ sent[k] <= MaxBodies
      /\ Sent(k) \in Nat /\ Passed(k) \in Nat /\ Last(k) \in Nat
  BY <1>1, ExecValues, Zenon
<1>3. out \in Seq(Nat) /\ Rising(out) /\ p \in Nat /\ BackendTypeOK
  BY <1>1, <1>2, CountTo, Zenon DEF ExecType
<1>4. ASSUME UNCHANGED backendVars
      PROVE  /\ StreamOK(k, low, out, done, p)' /\ (k \in handled') = (k \in handled)
             /\ (k \in chanClosed') = (k \in chanClosed)
  <2>1. SameView(k)
    BY <1>3, <1>4, OtherSession, Zenon
  <2>. QED
    BY <1>1, <2>1, SameViewKeeps, Zenon DEF SameView
<1>5. /\ exec'[k] = exec[k] /\ produced'[k] = produced[k] /\ chunk'[k] = chunk[k]
      /\ output'[k] = output[k] /\ Last(k)' = Last(k)
  BY ZenonT(30) DEF Last, HandleInput, Receive, ReceiveClose, WriteInput, CloseOutput, CopyInput,
     CommandExits
<1>6. \A i \in DOMAIN typed[k] : typed[k][i] \in Nat
  BY <1>2, LenProperties, ZenonT(30)
<1>7. low <= sent[k]
  BY <1>1, ZenonT(30) DEF StreamOK, InputOK
<1>8. CASE Receive(k)
  <2>1. /\ typist[k] = "receive" /\ stdin'[k] = stdin[k] /\ input'[k] = input[k]
        /\ typed'[k] = typed[k] /\ ReceiveMessage(k)
        /\ \/ holding'[k] = Head(incoming[k]) /\ typist'[k] = "write"
           \/ holding'[k] = holding[k] /\ typist'[k] = "receive"
    BY <1>8, Zenon DEF Receive, ReceiveMessage, ExecType
  <2>2. /\ Head(incoming[k]) \in Nat /\ low < Head(incoming[k])
        /\ \A n \in Nat : n <= Head(incoming[k]) => StreamOK(k, n, out, done, p)'
    BY <1>1, <1>3, <2>1, ReceiveStep, Zenon
  <2>3. (k \in handled') = (k \in handled) /\ (k \in chanClosed') = (k \in chanClosed)
    BY <2>1, ZenonT(30) DEF ReceiveMessage
  <2>4. Sent(k)' = Sent(k) /\ GoroutinesOK(k)'
    BY <1>1, <1>5, <2>1, <2>3, ZenonT(30) DEF GoroutinesOK, Sent, Passed, OutputClosed
  <2>5. CASE holding'[k] = Head(incoming[k]) /\ typist'[k] = "write"
    <3>1. PICK n \in Nat : n = Head(incoming[k])
      BY <2>2, Zenon
    <3>2. StreamOK(k, n, out, done, p)'
      BY <2>2, <3>1
    <3>3. TypedOK(k, n)'
      BY <1>1, <1>2, <1>6, <2>1, <2>2, <2>5, <3>1, SMTT(30) DEF TypedOK
    <3>. QED
      BY <1>1, <1>5, <2>4, <3>2, <3>3, ExecAfter, Zenon
  <2>6. CASE holding'[k] = holding[k] /\ typist'[k] = "receive"
    <3>1. StreamOK(k, low, out, done, p)'
      BY <2>2
    <3>2. TypedOK(k, low)'
      BY <1>1, <2>1, <2>6, Zenon DEF TypedOK
    <3>. QED
      BY <1>1, <1>5, <2>4, <3>1, <3>2, ExecAfter, Zenon
  <2>. QED
    BY <2>1, <2>5, <2>6, Zenon
<1>9. CASE ReceiveClose(k)
  <2>1. /\ typist[k] = "receive" /\ typist'[k] = "eot" /\ stdin'[k] = stdin[k]
        /\ input'[k] = input[k] /\ typed'[k] = typed[k] /\ holding'[k] = holding[k]
        /\ k \in chanClosed /\ UNCHANGED backendVars
    BY <1>9, ZenonT(30) DEF ReceiveClose, ExecType
  <2>2. Sent(k)' = Sent(k) /\ GoroutinesOK(k)'
    BY <1>1, <1>4, <1>5, <2>1, ZenonT(30) DEF GoroutinesOK, Sent, Passed, OutputClosed
  <2>3. TypedOK(k, low)'
    BY <1>1, <2>1, ZenonT(30) DEF TypedOK
  <2>. QED
    BY <1>1, <1>4, <1>5, <2>1, <2>2, <2>3, ExecAfter, ZenonT(30)
<1>10. CASE WriteInput(k)
  <2>1. /\ typist[k] \in {"write", "eot"} /\ stdin[k] = "read" /\ stdin'[k] = "write"
        /\ input'[k] = IF typist[k] = "eot" THEN EOT ELSE holding[k]
        /\ typist'[k] = IF typist[k] = "eot" THEN "close" ELSE "receive"
        /\ typed'[k] = typed[k] /\ holding'[k] = holding[k] /\ UNCHANGED backendVars
    BY <1>10, Zenon DEF WriteInput, ExecType
  <2>2. Sent(k)' = Sent(k) /\ GoroutinesOK(k)'
    BY <1>1, <1>4, <1>5, <2>1, ZenonT(30) DEF GoroutinesOK, Sent, Passed, OutputClosed
  <2>3. TypedOK(k, low)'
    <3>. DEFINE t == typed[k]
    <3>1. /\ \A i, j \in DOMAIN t : i < j => t[i] < t[j]
          /\ typist[k] = "write" => holding[k] <= low /\ \A i \in DOMAIN t : t[i] < holding[k]
          /\ \A i \in DOMAIN t : t[i] <= low
      BY <1>1, <2>1, ZenonT(30) DEF TypedOK
    <3>. HIDE DEF t
    <3>2. CASE typist[k] = "write"
      <4>1. input'[k] = holding[k] /\ typist'[k] = "receive"
        BY <2>1, <3>2, Zenon
      <4>. QED
        BY <2>1, <3>1, <3>2, <4>1, ZenonT(30) DEF TypedOK, t
    <3>3. CASE typist[k] = "eot"
      <4>1. input'[k] = EOT /\ typist'[k] = "close"
        BY <2>1, <3>3, Zenon
      <4>2. \A i \in DOMAIN t : t[i] < EOT
        BY <1>2, <1>6, <1>7, <3>1, BackendAssumption DEF EOT, t
      <4>. QED
        BY <2>1, <3>1, <4>1, <4>2, Zenon DEF TypedOK, t
    <3>. QED
      BY <2>1, <3>2, <3>3, ZenonT(30)
  <2>. QED
    BY <1>1, <1>4, <1>5, <2>1, <2>2, <2>3, ExecAfter, Zenon
<1>11. CASE CopyInput(k)
  <2>1. /\ typist'[k] = typist[k] /\ input'[k] = input[k] /\ holding'[k] = holding[k]
        /\ UNCHANGED backendVars /\ stdin[k] = "write" /\ stdin'[k] \in {"read", "done"}
        /\ typed'[k] \in {typed[k], Append(typed[k], input[k])}
    BY <1>11, Zenon DEF CopyInput, ExecType
  <2>2. Sent(k)' = Sent(k)
    BY <1>5, <2>1, ZenonT(30) DEF Sent, Passed, OutputClosed
  <2>3. GoroutinesOK(k)'
    BY <1>1, <1>4, <1>5, <2>1, ZenonT(30) DEF GoroutinesOK, Passed, OutputClosed
  <2>4. TypedOK(k, low)'
    <3>1. CASE typed'[k] = typed[k]
      BY <1>1, <2>1, <3>1, ZenonT(30) DEF TypedOK
    <3>2. CASE typed'[k] = Append(typed[k], input[k])
      <4>. DEFINE s == typed[k]
                  t == typed'[k]
      <4>1. /\ Len(s) \in Nat /\ DOMAIN s = 1 .. Len(s) /\ DOMAIN t = 1 .. Len(s) + 1
            /\ t[Len(s) + 1] = input[k] /\ \A i \in DOMAIN s : t[i] = s[i]
        <5>1. typed[k] \in Seq(Nat) /\ input[k] \in Nat
          BY <1>2
        <5>. QED
          BY <3>2, <5>1, OneMore
      <4>2. /\ \A i, j \in DOMAIN s : i < j => s[i] < s[j]
            /\ \A i \in DOMAIN s : s[i] < input[k]
            /\ typist[k] = "write" => /\ holding[k] <= low /\ input[k] < holding[k]
                                     /\ \A i \in DOMAIN s : s[i] < holding[k]
            /\ typist[k] \notin {"close", "done"} =>
                  input[k] <= low /\ \A i \in DOMAIN s : s[i] <= low
        BY <1>1, <2>1, ZenonT(30) DEF TypedOK
      <4>. HIDE DEF s, t
      <4>3. \A i, j \in DOMAIN t : i < j => t[i] < t[j]
        BY <4>1, <4>2
      <4>4. typist[k] = "write" => holding[k] <= low /\ \A i \in DOMAIN t : t[i] < holding[k]
        BY <4>1, <4>2
      <4>5. typist[k] \notin {"close", "done"} => \A i \in DOMAIN t : t[i] <= low
        BY <4>1, <4>2
      <4>. QED
        BY <2>1, <4>3, <4>4, <4>5, ZenonT(30) DEF TypedOK, t
    <3>. QED
      BY <2>1, <3>1, <3>2, ZenonT(30)
  <2>. QED
    BY <1>1, <1>4, <1>5, <2>1, <2>2, <2>3, <2>4, ExecAfter, ZenonT(30)
<1>12. CASE CommandExits(k)
  <2>1. /\ typist'[k] = typist[k] /\ stdin'[k] = stdin[k] /\ input'[k] = input[k]
        /\ typed'[k] = typed[k] /\ holding'[k] = holding[k] /\ UNCHANGED backendVars
    BY <1>12, ZenonT(30) DEF CommandExits
  <2>2. Sent(k)' = Sent(k) /\ GoroutinesOK(k)'
    BY <1>1, <1>4, <1>5, <2>1, ZenonT(30) DEF GoroutinesOK, Sent, Passed, OutputClosed
  <2>3. TypedOK(k, low)'
    BY <1>1, <2>1, Zenon DEF TypedOK
  <2>. QED
    BY <1>1, <1>4, <1>5, <2>1, <2>2, <2>3, ExecAfter, Zenon
<1>13. CASE CloseOutput(k)
  <2>1. /\ typist[k] = "close" /\ typist'[k] = "done" /\ stdin'[k] = stdin[k]
        /\ input'[k] = input[k] /\ typed'[k] = typed[k] /\ holding'[k] = holding[k]
        /\ UNCHANGED backendVars
    BY <1>13, Zenon DEF CloseOutput, ExecType
  <2>2. GoroutinesOK(k)'
    BY <1>1, <1>4, <1>5, <2>1, ZenonT(30) DEF GoroutinesOK, Passed, OutputClosed
  <2>3. TypedOK(k, low)'
    BY <1>1, <2>1, Zenon DEF TypedOK
  <2>4. CASE exec[k] = "write"
    <3>1. Gone(k) /\ k \in handled
      BY <1>1, <2>1, <2>4, Zenon DEF GoroutinesOK, StreamOK, LinkOK
    <3>2. PICK n \in Nat : n = Sent(k) + 1
      BY <1>2
    <3>3. StreamOK(k, low, Append(out, n), done, p)
      BY <1>1, <1>3, <2>4, <3>1, GoneGrows, ZenonT(30)
    <3>4. Append(out, n) = Count(Sent(k) + 1)
      BY <1>1, <1>2, <3>2, CountTo, Zenon
    <3>5. Sent(k)' = Sent(k) + 1
      <4>1. Passed(k) = produced[k] - 1 /\ Passed(k)' = produced[k]
        BY <1>5, <2>1, <2>4, Zenon DEF Passed, OutputClosed
      <4>2. /\ Sent(k) = IF output[k] = "send" THEN produced[k] - 1 - 1 ELSE produced[k] - 1
            /\ Sent(k)' = IF output[k] = "send" THEN produced[k] - 1 ELSE produced[k]
        BY <1>5, <4>1, Zenon DEF Sent
      <4>. QED
        BY <1>2, <4>2
    <3>6. StreamOK(k, low, Append(out, n), done, p)'
      BY <1>3, <2>1, <3>3, OtherSession, SameViewKeeps, ZenonT(30)
    <3>. QED
      BY <1>1, <1>5, <2>2, <2>3, <3>4, <3>5, <3>6, ExecAfter, ZenonT(30)
  <2>5. CASE exec[k] # "write"
    <3>1. Sent(k)' = Sent(k)
      BY <1>5, <2>5, Zenon DEF Sent, Passed
    <3>. QED
      BY <1>1, <1>4, <1>5, <2>1, <2>2, <2>3, <3>1, ExecAfter, ZenonT(30)
  <2>. QED
    BY <2>4, <2>5, Zenon
<1>. QED
  BY <1>8, <1>9, <1>10, <1>11, <1>12, <1>13, Zenon DEF HandleInput

\* The goroutine that sends the output.
LEMMA OutputKeeps ==
    ASSUME ExecType, ExecType', NEW k \in Sessions, NEW low \in Nat, NEW out,
           NEW done \in BOOLEAN, NEW p, ExecOK(k, low, out, done, p), HandleOutput(k)
    PROVE  SomeExec(k)'
<1>1. /\ out = Count(Sent(k)) /\ done = (exec[k] = "done") /\ p = Last(k)
      /\ StreamOK(k, low, out, done, p) /\ GoroutinesOK(k) /\ TypedOK(k, low)
  BY Zenon DEF ExecOK
<1>2. /\ exec[k] \in {"start", "copy", "write", "signal", "done"}
      /\ produced[k] \in Nat /\ input[k] \in Nat /\ holding[k] \in Nat /\ chunk[k] \in Nat
      /\ typed[k] \in Seq(Nat) /\ sent[k] \in Nat /\ sent[k] <= MaxBodies
      /\ Sent(k) \in Nat /\ Passed(k) \in Nat /\ Last(k) \in Nat
  BY <1>1, ExecValues, Zenon
<1>3. out \in Seq(Nat) /\ Rising(out) /\ p \in Nat /\ BackendTypeOK
  BY <1>1, <1>2, CountTo, Zenon DEF ExecType
<1>4. ASSUME UNCHANGED backendVars
      PROVE  /\ StreamOK(k, low, out, done, p)' /\ (k \in handled') = (k \in handled)
             /\ (k \in chanClosed') = (k \in chanClosed)
  <2>1. SameView(k)
    BY <1>3, <1>4, OtherSession, Zenon
  <2>. QED
    BY <1>1, <2>1, SameViewKeeps, Zenon DEF SameView
<1>5. /\ exec'[k] = exec[k] /\ produced'[k] = produced[k] /\ chunk'[k] = chunk[k]
      /\ Last(k)' = Last(k) /\ typist'[k] = typist[k] /\ stdin'[k] = stdin[k]
      /\ input'[k] = input[k] /\ typed'[k] = typed[k] /\ holding'[k] = holding[k]
  BY ZenonT(30) DEF Last, HandleOutput, SendOutput, OutputEOF
<1>6. TypedOK(k, low)'
  BY <1>1, <1>5, ZenonT(30) DEF TypedOK
<1>7. CASE OutputEOF(k)
  <2>1. output[k] = "read" /\ output'[k] = "done" /\ UNCHANGED backendVars
    BY <1>7, Zenon DEF OutputEOF, ExecType
  <2>2. Sent(k)' = Sent(k) /\ GoroutinesOK(k)'
    BY <1>1, <1>4, <1>5, <2>1, ZenonT(30) DEF GoroutinesOK, Sent, Passed, OutputClosed
  <2>. QED
    BY <1>1, <1>4, <1>5, <1>6, <2>1, <2>2, ExecAfter, Zenon
<1>8. CASE SendOutput(k)
  <2>1. output[k] = "send" /\ output'[k] = "read" /\ SendResponse(k, "Body", chunk[k])
    BY <1>8, Zenon DEF SendOutput, ExecType, SendResponse
  <2>2. (k \in handled') = (k \in handled) /\ (k \in chanClosed') = (k \in chanClosed)
    BY <2>1, ZenonT(30) DEF SendResponse, routeVars
  <2>3. GoroutinesOK(k)'
    BY <1>1, <1>5, <2>1, <2>2, ZenonT(30) DEF GoroutinesOK, Passed, OutputClosed
  <2>4. Sent(k)' = Sent(k) + 1 /\ Passed(k) = Sent(k) + 1
    BY <1>2, <1>5, <2>1 DEF Sent, Passed, OutputClosed
  <2>5. k \in handled /\ (done => exec[k] = "done" /\ Sent(k) + 1 >= p)
    <3>1. k \in handled
      BY <1>1, <2>1, Zenon DEF GoroutinesOK
    <3>2. ASSUME done
          PROVE  exec[k] = "done" /\ Sent(k) + 1 >= p
      <4>1. exec[k] = "done"
        BY <1>1, <3>2, ZenonT(30)
      <4>2. p = produced[k] /\ Passed(k) = produced[k]
        BY <1>1, <4>1, Zenon DEF Last, Passed
      <4>. QED
        BY <1>2, <2>4, <4>1, <4>2
    <3>. QED
      BY <3>1, <3>2, Zenon
  <2>6. PICK n \in Nat : n = Sent(k) + 1
    BY <1>2
  <2>7. Append(out, n) = Count(Sent(k) + 1) /\ \A i \in DOMAIN out : out[i] < n
    BY <1>1, <1>2, <2>6, CountTo, Zenon
  <2>8. StreamOK(k, low, Append(out, n), done, p)'
    <3>1. CASE OutputClosed(k)
      <4>1. Gone(k)
        BY <1>1, <3>1, Zenon DEF GoroutinesOK, OutputClosed, StreamOK, LinkOK
      <4>2. StreamOK(k, low, Append(out, n), done, p)
        BY <1>1, <1>3, <2>5, <2>6, <4>1, GoneGrows, Zenon
      <4>3. Append(out, n) \in Seq(Nat)
        BY <1>3, AppendProperties, Zenon
      <4>. QED
        BY <1>2, <1>3, <2>1, <2>5, <4>1, <4>2, <4>3, SendGone, ZenonT(30)
    <3>2. CASE ~OutputClosed(k)
      <4>1. SendResponse(k, "Body", n)
        BY <1>1, <2>1, <2>4, <2>6, <3>2, Zenon DEF GoroutinesOK
      <4>. QED
        BY <1>1, <1>3, <2>5, <2>6, <2>7, <4>1, SendStep, ZenonT(30)
    <3>. QED
      BY <3>1, <3>2, Zenon
  <2>. QED
    BY <1>1, <1>5, <1>6, <2>3, <2>4, <2>7, <2>8, ExecAfter, Zenon
<1>. QED
  BY <1>7, <1>8, Zenon DEF HandleOutput

--------------------------------------------------------------------------------
(* The invariant and the theorems.                                          *)

\* Nothing has been sent, typed or produced.
LEMMA ExecInit == Init => ExecInv
<1>. SUFFICES ASSUME Init PROVE ExecInv
  BY Zenon
<1>1. BackendTypeOK /\ \A k \in Sessions : StreamOK(k, 0, Count(0), FALSE, 0)
  BY StreamInit, Zenon DEF Init
<1>2. ExecType
  BY <1>1 DEF Init, ExecType
<1>3. ASSUME NEW k \in Sessions PROVE SomeExec(k)
  <2>1. /\ exec[k] = "start" /\ typist[k] = "none" /\ stdin[k] = "none" /\ output[k] = "none"
        /\ typed[k] = <<>> /\ produced[k] = 0 /\ sent[k] = 0
    BY Zenon DEF Init, BackendInit
  <2>2. Sent(k) = 0 /\ Last(k) = 0
    BY <2>1, Zenon DEF Sent, Passed, Last
  <2>3. GoroutinesOK(k) /\ TypedOK(k, 0)
    BY <2>1 DEF GoroutinesOK, TypedOK
  <2>4. StreamOK(k, 0, Count(0), FALSE, 0)
    BY <1>1, Zenon
  <2>5. FALSE = (exec[k] = "done")
    BY <2>1, Zenon
  <2>6. ExecOK(k, 0, Count(0), FALSE, 0)
    BY <2>2, <2>3, <2>4, <2>5, Zenon DEF ExecOK
  <2>7. 0 \in 0 .. sent[k]
    BY <2>1
  <2>. QED
    BY <2>2, <2>6, <2>7, Zenon DEF SomeExec
<1>. QED
  BY <1>2, <1>3, Zenon DEF ExecInv

\* Every step keeps the invariant of every session.
LEMMA ExecStep == ExecInv /\ [Next]_vars => ExecInv'
<1>. SUFFICES ASSUME ExecInv, [Next]_vars PROVE ExecInv'
  BY Zenon
<1>1. ExecType /\ ExecType'
  <2>1. CASE UNCHANGED vars
    BY <2>1, Zenon DEF ExecInv, ExecType, BackendTypeOK, vars, backendVars, proxyVars,
       routeVars, execVars
  <2>. QED
    BY <2>1, ExecTypeStep, Zenon DEF ExecInv
<1>2. ASSUME NEW k \in Sessions PROVE SomeExec(k)'
  <2>1. PICK low \in 0 .. sent[k], done \in BOOLEAN, out \in {Count(Sent(k))}, p \in {Last(k)} :
           ExecOK(k, low, out, done, p)
    BY <1>2, Zenon DEF ExecInv, SomeExec
  <2>2. sent[k] \in 0 .. MaxBodies
    BY <1>1, Zenon DEF ExecType, BackendTypeOK
  <2>3. low \in Nat
    BY <2>2, BackendAssumption
  <2>4. CASE \/ (Proxy \/ ReadLoop \/ WriteLoop \/ ReadError) /\ UNCHANGED execVars
             \/ UNCHANGED vars
             \/ \E j \in Sessions : j # k /\ HandlerStep(j)
    <3>1. ExecOK(k, low, out, done, p)'
      BY <1>1, <2>1, <2>3, <2>4, ExecOthers, Zenon
    <3>. QED
      BY <1>1, <2>3, <3>1, ExecAfter, Zenon DEF ExecOK
  <2>5. CASE HandlerStep(k)
    BY <1>1, <2>1, <2>3, <2>5, HandleKeeps, InputKeeps, OutputKeeps, Zenon DEF HandlerStep
  <2>. QED
    BY <2>4, <2>5, Zenon DEF Next, HandlerStep
<1>. QED
  BY <1>1, <1>2, Zenon DEF ExecInv

\* ExecInv holds of every reachable state.
LEMMA ExecAlways == Spec => []ExecInv
  BY ExecInit, ExecStep, PTL DEF Spec

\* The command gets the client's messages in the order the client sent them, then one
\* EOT and nothing more, however the decoding goroutine, the input copy, the read loop and
\* the other sessions interleave.
THEOREM CommandInputInOrder == Spec => []InputInOrder
<1>1. ExecInv => InputInOrder
  <2>. SUFFICES ASSUME ExecInv, NEW k \in Sessions
                PROVE  \A i, j \in DOMAIN typed[k] : i < j => typed[k][i] < typed[k][j]
    BY Zenon DEF InputInOrder
  <2>. QED
    BY Zenon DEF ExecInv, SomeExec, ExecOK, TypedOK
<1>. QED
  BY <1>1, ExecAlways, PTL

\* What the client has received of the output has no gap and no chunk twice, and when the
\* connection ends, at most the one chunk that was overtaken by Close is missing.
THEOREM CloseOvertakesOneChunk == Spec => []OutputOvertaken
<1>1. ExecInv => OutputOvertaken
  <2>. SUFFICES ASSUME ExecInv, NEW k \in Sessions
                PROVE  /\ received[k] = [i \in 1 .. Len(received[k]) |-> i]
                       /\ client[k] = "ended" => Len(received[k]) + 1 >= produced[k]
    BY Zenon DEF OutputOvertaken
  <2>1. ExecType
    BY Zenon DEF ExecInv
  <2>2. PICK low \in 0 .. sent[k], done \in BOOLEAN, out \in {Count(Sent(k))}, p \in {Last(k)} :
           ExecOK(k, low, out, done, p)
    BY Zenon DEF ExecInv, SomeExec
  <2>3. /\ out = Count(Sent(k)) /\ done = (exec[k] = "done") /\ p = Last(k)
        /\ StreamOK(k, low, out, done, p) /\ GoroutinesOK(k)
    BY <2>2, Zenon DEF ExecOK
  <2>4. /\ Sent(k) \in Nat /\ Passed(k) \in Nat /\ produced[k] \in Nat
        /\ received[k] \in Seq(Nat)
    BY <2>1, <2>3, ExecValues, ZenonT(30) DEF ExecType, BackendTypeOK
  <2>5. /\ received[k] = Count(Len(received[k])) /\ Len(received[k]) \in Nat
        /\ Len(received[k]) <= Sent(k)
        /\ client[k] = "ended" /\ k \in handled =>
              done /\ \A i \in Len(received[k]) + 1 .. Sent(k) : i >= p
    BY <2>3, <2>4, CountReceived, Zenon
  <2>6. ASSUME client[k] = "ended" PROVE Len(received[k]) + 1 >= produced[k]
    <3>1. CASE k \notin handled
      BY <2>3, <2>4, <2>5, <3>1 DEF GoroutinesOK
    <3>2. CASE k \in handled
      <4>1. exec[k] = "done" /\ \A i \in Len(received[k]) + 1 .. Sent(k) : i >= p
        BY <2>3, <2>5, <2>6, <3>2, ZenonT(30)
      <4>2. p = produced[k] /\ Sent(k) + 1 >= produced[k]
        BY <2>3, <2>4, <4>1 DEF Last, Sent, Passed
      <4>. QED
        BY <2>4, <2>5, <4>1, <4>2
    <3>. QED
      BY <3>1, <3>2, ZenonT(30)
  <2>. QED
    BY <2>5, <2>6, Zenon DEF Count
<1>. QED
  BY <1>1, ExecAlways, PTL
================================================================================
