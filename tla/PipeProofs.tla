------------------------------ MODULE PipeProofs -------------------------------
(***************************************************************************)
(* Proofs about the handlers that stream records, for any number of        *)
(* sessions, capacities, messages and records.                             *)
(***************************************************************************)
EXTENDS PipeStream, BackendProofs

PipeType ==
    /\ BackendTypeOK
    /\ source \in [Sessions -> {"start", "produce", "write", "signal", "done"}]
    /\ scanner \in [Sessions -> {"none", "scan", "send", "final", "done"}]
    /\ drainer \in [Sessions -> {"none", "drain", "done"}]
    /\ produced \in [Sessions -> Nat] /\ token \in [Sessions -> Nat]

\* The records that went through the pipe, and those of them that were sent; with the
\* pipe closed nobody is there to receive the others.
Passed(k) == IF source[k] = "write" /\ ~PipeClosed(k) THEN produced[k] - 1 ELSE produced[k]
Sent(k) == IF scanner[k] = "send" THEN Passed(k) - 1 ELSE Passed(k)

\* What Close may overtake once Handle is done: the record the scanner holds.
Last(k) == IF source[k] = "done" THEN produced[k] ELSE 0

\* The goroutines of a session. The pipe is closed only when the channel is, and the
\* scanner makes a torn token only of a closed pipe.
GoroutinesOK(k) ==
    /\ k \notin handled => source[k] = "start"
    /\ source[k] = "start" => scanner[k] = "none" /\ drainer[k] = "none" /\ produced[k] = 0
    /\ PipeClosed(k) => k \in chanClosed
    /\ scanner[k] = "final" => PipeClosed(k)
    /\ source[k] = "write" /\ ~PipeClosed(k) => produced[k] >= 1
    /\ scanner[k] = "send" => produced[k] >= 1
    /\ scanner[k] = "send" /\ ~PipeClosed(k) => Passed(k) >= 1 /\ token[k] = Passed(k)

\* The session: the scanner has sent out, and Handle is done or not. What the client sends
\* is discarded, so any number may serve as the last message taken.
PipeOK(k, out, done, p) ==
    /\ out = Count(Sent(k)) /\ done = (source[k] = "done") /\ p = Last(k)
    /\ StreamOK(k, 0, out, done, p) /\ GoroutinesOK(k)

SomePipe(k) ==
    \E done \in BOOLEAN, out \in {Count(Sent(k))}, p \in {Last(k)} : PipeOK(k, out, done, p)

PipeInv == PipeType /\ \A k \in Sessions : SomePipe(k)

--------------------------------------------------------------------------------
(* Types.                                                                   *)

\* The steps of Handle and of its two goroutines in session j.
HandlerStep(j) == Handle(j) \/ ScanRecords(j) \/ Discard(j)

\* Those that use the channels do one thing with them.
LEMMA HandlerChannels ==
    ASSUME PipeType, NEW j \in Sessions, HandlerStep(j)
    PROVE  \/ UNCHANGED backendVars \/ ReceiveMessage(j)
           \/ \E type \in {"Body", "Close"}, n \in Nat : SendResponse(j, type, n)
<1>1. CASE SendToken(j)
  <2>1. token[j] \in Nat
    BY Zenon DEF PipeType
  <2>2. SendResponse(j, "Body", token[j])
    BY <1>1, Zenon DEF SendToken, SendResponse
  <2>. QED
    BY <2>1, <2>2, Zenon
<1>2. CASE SignalHandlerClosed(j)
  <2>1. SendResponse(j, "Close", 0)
    BY <1>2, Zenon DEF SignalHandlerClosed, SendResponse
  <2>. QED
    BY <2>1, Zenon
<1>3. CASE Drain(j)
  BY <1>3, Zenon DEF Drain, ReceiveMessage
<1>. QED
  BY <1>1, <1>2, <1>3, Zenon DEF HandlerStep, Handle, ScanRecords, Discard, Reject, Open,
     Produce, SourceEnds, WriteError, Scan, ScanEOF, ScanTooLong, ClosePipe

\* They keep the types of their variables.
LEMMA PipeTypeStep ==
    ASSUME PipeType, Next
    PROVE  PipeType'
<1>1. CASE (Proxy \/ ReadLoop \/ WriteLoop \/ ReadError) /\ UNCHANGED streamVars
  <2>1. BackendTypeOK'
    <3>1. CASE ReadError
      BY <3>1, Zenon DEF PipeType, BackendTypeOK, ReadError, proxyVars, routeVars
    <3>2. CASE Proxy \/ ReadLoop \/ WriteLoop
      BY <3>2, BackendSteps, BackendStepType, Zenon DEF PipeType
    <3>. QED
      BY <1>1, <3>1, <3>2, Zenon
  <2>. QED
    BY <1>1, <2>1, Zenon DEF PipeType, streamVars
<1>2. ASSUME NEW j \in Sessions, HandlerStep(j) PROVE PipeType'
  <2>1. BackendTypeOK'
    <3>1. CASE UNCHANGED backendVars
      BY <3>1, Zenon DEF PipeType, BackendTypeOK, backendVars, proxyVars, routeVars
    <3>. QED
      BY <1>2, <3>1, HandlerChannels, HandlerStepType, Zenon DEF PipeType
  <2>2. /\ source' \in [Sessions -> {"start", "produce", "write", "signal", "done"}]
        /\ scanner' \in [Sessions -> {"none", "scan", "send", "final", "done"}]
        /\ drainer' \in [Sessions -> {"none", "drain", "done"}]
        /\ produced' \in [Sessions -> Nat] /\ token' \in [Sessions -> Nat]
    <3>. USE DEF PipeType
    <3>1. CASE Reject(j) \/ SourceEnds(j) \/ WriteError(j) \/ SignalHandlerClosed(j)
      BY <3>1, Zenon DEF Reject, SourceEnds, WriteError, SignalHandlerClosed
    <3>2. CASE Open(j)
      BY <3>2, Zenon DEF Open
    <3>3. CASE Produce(j)
      <4>1. produced' \in [Sessions -> Nat]
        <5>1. \/ UNCHANGED produced \/ produced' = [produced EXCEPT ![j] = @ + 1]
          BY <3>3, Zenon DEF Produce
        <5>2. produced \in [Sessions -> Nat] /\ produced[j] + 1 \in Nat
          OBVIOUS
        <5>. HIDE DEF PipeType
        <5>. QED
          BY <5>1, <5>2, Zenon
      <4>2. source' \in [Sessions -> {"start", "produce", "write", "signal", "done"}]
        BY <3>3, Zenon DEF Produce
      <4>. QED
        BY <3>3, <4>1, <4>2, Zenon DEF Produce
    <3>4. CASE Scan(j)
      <4>1. token' \in [Sessions -> Nat]
        BY <3>4, Zenon DEF Scan
      <4>2. source' \in [Sessions -> {"start", "produce", "write", "signal", "done"}]
        BY <3>4, Zenon DEF Scan
      <4>3. scanner' \in [Sessions -> {"none", "scan", "send", "final", "done"}]
        BY <3>4, Zenon DEF Scan
      <4>. QED
        BY <3>4, <4>1, <4>2, <4>3, Zenon DEF Scan
    <3>5. CASE ScanEOF(j)
      <4>1. token' \in [Sessions -> Nat]
        BY <3>5, Zenon DEF ScanEOF, Torn
      <4>2. scanner' \in [Sessions -> {"none", "scan", "send", "final", "done"}]
        BY <3>5, Zenon DEF ScanEOF
      <4>. QED
        BY <3>5, <4>1, <4>2, Zenon DEF ScanEOF
    <3>6. CASE ScanTooLong(j) \/ SendToken(j)
      BY <3>6, Zenon DEF ScanTooLong, SendToken
    <3>7. CASE Discard(j)
      BY <3>7, Zenon DEF Discard, Drain, ClosePipe, streamVars
    <3>. QED
      BY <1>2, <3>1, <3>2, <3>3, <3>4, <3>5, <3>6, <3>7, Zenon DEF HandlerStep, Handle, ScanRecords
  <2>. QED
    BY <2>1, <2>2, Zenon DEF PipeType
<1>. QED
  BY <1>1, <1>2, Zenon DEF Next, HandlerStep

--------------------------------------------------------------------------------
(* The invariant of a session.                                              *)

\* The variables of session k.
SamePipe(k) ==
    /\ source'[k] = source[k] /\ scanner'[k] = scanner[k] /\ drainer'[k] = drainer[k]
    /\ produced'[k] = produced[k] /\ token'[k] = token[k]

\* The types of what the invariant says of session k.
LEMMA PipeValues ==
    ASSUME PipeType, NEW k \in Sessions, GoroutinesOK(k)
    PROVE  /\ source[k] \in {"start", "produce", "write", "signal", "done"}
           /\ scanner[k] \in {"none", "scan", "send", "final", "done"}
           /\ drainer[k] \in {"none", "drain", "done"}
           /\ produced[k] \in Nat /\ token[k] \in Nat
           /\ Sent(k) \in Nat /\ Passed(k) \in Nat /\ Last(k) \in Nat
<1>1. /\ source[k] \in {"start", "produce", "write", "signal", "done"}
      /\ scanner[k] \in {"none", "scan", "send", "final", "done"}
      /\ drainer[k] \in {"none", "drain", "done"}
      /\ produced[k] \in Nat /\ token[k] \in Nat
  BY Zenon DEF PipeType
<1>2. Passed(k) \in Nat /\ Sent(k) \in Nat /\ Last(k) \in Nat
  BY <1>1 DEF GoroutinesOK, Passed, Sent, Last
<1>. QED
  BY <1>1, <1>2, Zenon

\* The backend's steps and those of other sessions keep the invariant.
LEMMA PipeOthers ==
    ASSUME PipeType, NEW k \in Sessions, NEW out, NEW done \in BOOLEAN, NEW p,
           PipeOK(k, out, done, p),
           \/ (Proxy \/ ReadLoop \/ WriteLoop \/ ReadError) /\ UNCHANGED streamVars
           \/ UNCHANGED vars
           \/ \E j \in Sessions : j # k /\ HandlerStep(j)
    PROVE  PipeOK(k, out, done, p)'
<1>1. /\ out \in Seq(Nat) /\ Rising(out) /\ p \in Nat /\ BackendTypeOK
      /\ StreamOK(k, 0, out, done, p)
  BY PipeValues, CountTo, Zenon DEF PipeOK, PipeType
<1>2. /\ StreamOK(k, 0, out, done, p)' /\ SamePipe(k)
      /\ k \in handled => k \in handled'
      /\ k \in chanClosed => k \in chanClosed'
  <2>1. CASE (Proxy \/ ReadLoop \/ WriteLoop) /\ UNCHANGED streamVars
    <3>1. PICK j \in Sessions : BackendStep(j)
      BY <1>1, <2>1, BackendSteps, Zenon
    <3>2. /\ k \in handled => k \in handled'
          /\ k \in chanClosed => k \in chanClosed'
      BY <3>1, Zenon DEF BackendStep, ClientConnect, ClientClose, ProxySends, RouteConnect,
         RouteBody, RouteClose, WriteMessage, routeVars
    <3>3. SamePipe(k)
      BY <2>1, Zenon DEF SamePipe, streamVars
    <3>. QED
      BY <1>1, <3>1, <3>2, <3>3, BackendKeeps, Zenon
  <2>2. CASE (ReadError /\ UNCHANGED streamVars) \/ UNCHANGED vars
    <3>1. SameView(k)
      BY <1>1, <2>2, OtherSession, Zenon DEF vars
    <3>2. SamePipe(k)
      BY <2>2, Zenon DEF SamePipe, streamVars, vars
    <3>. QED
      BY <1>1, <3>1, <3>2, SameViewKeeps, Zenon DEF SameView
  <2>3. ASSUME NEW j \in Sessions, j # k, HandlerStep(j)
        PROVE  /\ StreamOK(k, 0, out, done, p)' /\ SamePipe(k)
               /\ k \in handled => k \in handled'
               /\ k \in chanClosed => k \in chanClosed'
    <3>1. SameView(k)
      BY <1>1, <2>3, HandlerChannels, OtherSession, Zenon
    <3>2. SamePipe(k)
      <4>. USE DEF SamePipe, PipeType
      <4>1. CASE Handle(j)
        BY <2>3, <4>1, Zenon DEF Handle, Reject, Open, Produce, SourceEnds, WriteError,
           SignalHandlerClosed
      <4>2. CASE ScanRecords(j)
        BY <2>3, <4>2, Zenon DEF ScanRecords, Scan, ScanEOF, ScanTooLong, SendToken
      <4>3. CASE Discard(j)
        BY <2>3, <4>3, Zenon DEF Discard, Drain, ClosePipe, streamVars
      <4>. QED
        BY <2>3, <4>1, <4>2, <4>3, Zenon DEF HandlerStep
    <3>. QED
      BY <1>1, <3>1, <3>2, SameViewKeeps, Zenon DEF SameView
  <2>. QED
    BY <2>1, <2>2, <2>3, Zenon
<1>3. Sent(k)' = Sent(k) /\ Last(k)' = Last(k) /\ Passed(k)' = Passed(k)
  BY <1>2, Zenon DEF SamePipe, Sent, Passed, Last, PipeClosed
<1>4. GoroutinesOK(k)'
  BY <1>2, <1>3, Zenon DEF SamePipe, PipeOK, GoroutinesOK, PipeClosed
<1>. QED
  BY <1>2, <1>3, <1>4, Zenon DEF PipeOK, SamePipe

\* The end of the proof for a step of session k.
LEMMA PipeAfter ==
    ASSUME NEW k \in Sessions, NEW out, NEW done \in BOOLEAN, NEW p,
           StreamOK(k, 0, out, done, p)', out = Count(Sent(k)'),
           done = (source'[k] = "done"), p = Last(k)', GoroutinesOK(k)'
    PROVE  SomePipe(k)'
<1>1. PipeOK(k, out, done, p)'
  BY Zenon DEF PipeOK
<1>2. out \in {Count(Sent(k))}' /\ p \in {Last(k)}'
  BY Zenon DEF PipeOK
<1>. QED
  BY <1>1, <1>2, Zenon DEF SomePipe

\* A step that leaves the channels alone; with the client gone a record may count as sent.
LEMMA QuietStep ==
    ASSUME PipeType, NEW k \in Sessions, NEW out, NEW done \in BOOLEAN, NEW p,
           PipeOK(k, out, done, p), UNCHANGED backendVars, GoroutinesOK(k)',
           Last(k)' = Last(k), (source'[k] = "done") = (source[k] = "done"),
           \/ Sent(k)' = Sent(k)
           \/ Sent(k)' = Sent(k) + 1 /\ PipeClosed(k)' /\ source[k] # "done"
    PROVE  SomePipe(k)'
<1>1. /\ out = Count(Sent(k)) /\ done = (source[k] = "done") /\ p = Last(k)
      /\ StreamOK(k, 0, out, done, p) /\ GoroutinesOK(k)
  BY Zenon DEF PipeOK
<1>2. Sent(k) \in Nat /\ p \in Nat /\ out \in Seq(Nat) /\ BackendTypeOK
  BY <1>1, PipeValues, CountTo, Zenon DEF PipeType
<1>3. SameView(k)
  BY <1>2, OtherSession, Zenon
<1>4. CASE Sent(k)' = Sent(k)
  BY <1>1, <1>3, <1>4, SameViewKeeps, PipeAfter, Zenon
<1>5. CASE Sent(k)' = Sent(k) + 1 /\ PipeClosed(k)' /\ source[k] # "done"
  <2>1. k \in chanClosed /\ Gone(k)
    BY <1>1, <1>3, <1>5, Zenon DEF GoroutinesOK, SameView, StreamOK, LinkOK
  <2>2. k \in handled
    BY <1>3, <1>5, Zenon DEF GoroutinesOK, SameView, PipeClosed
  <2>3. PICK n \in Nat : n = Sent(k) + 1
    BY <1>2
  <2>4. StreamOK(k, 0, Append(out, n), done, p)
    BY <1>1, <1>2, <1>5, <2>1, <2>2, GoneGrows, Zenon
  <2>5. Append(out, n) = Count(Sent(k) + 1)
    BY <1>1, <1>2, <2>3, CountTo, Zenon
  <2>6. StreamOK(k, 0, Append(out, n), done, p)'
    BY <1>3, <2>4, SameViewKeeps, Zenon
  <2>. QED
    BY <1>1, <1>5, <2>5, <2>6, PipeAfter, Zenon
<1>. QED
  BY <1>4, <1>5, Zenon

\* Handle.
LEMMA HandleKeeps ==
    ASSUME PipeType, NEW k \in Sessions, NEW out, NEW done \in BOOLEAN, NEW p,
           PipeOK(k, out, done, p), Handle(k)
    PROVE  SomePipe(k)'
<1>1. /\ out = Count(Sent(k)) /\ done = (source[k] = "done") /\ p = Last(k)
      /\ StreamOK(k, 0, out, done, p) /\ GoroutinesOK(k)
  BY Zenon DEF PipeOK
<1>2. /\ source[k] \in {"start", "produce", "write", "signal", "done"}
      /\ scanner[k] \in {"none", "scan", "send", "final", "done"}
      /\ produced[k] \in Nat /\ Sent(k) \in Nat /\ Passed(k) \in Nat /\ Last(k) \in Nat
  BY <1>1, PipeValues, Zenon
<1>3. out \in Seq(Nat) /\ Rising(out) /\ p \in Nat /\ BackendTypeOK
  BY <1>1, <1>2, CountTo, Zenon DEF PipeType
<1>4. ASSUME UNCHANGED backendVars
      PROVE  (k \in handled') = (k \in handled) /\ (k \in chanClosed') = (k \in chanClosed)
  BY <1>4, Zenon DEF backendVars, routeVars
<1>5. CASE Reject(k)
  <2>1. /\ k \in handled /\ source[k] = "start" /\ source'[k] = "signal"
        /\ scanner'[k] = scanner[k] /\ drainer'[k] = drainer[k]
        /\ token'[k] = token[k] /\ produced'[k] = produced[k]
        /\ UNCHANGED backendVars
    BY <1>5, Zenon DEF Reject, PipeType
  <2>2. GoroutinesOK(k)'
    BY <1>1, <1>2, <1>4, <2>1, Zenon DEF GoroutinesOK, Passed, PipeClosed
  <2>3. Last(k)' = Last(k) /\ (source'[k] = "done") = (source[k] = "done")
    BY <2>1, Zenon DEF Last
  <2>4. Sent(k)' = Sent(k)
    BY <1>1, <1>2, <2>1, Zenon DEF GoroutinesOK, Sent, Passed, PipeClosed
  <2>. QED
    BY <2>1, <2>2, <2>3, <2>4, QuietStep, Zenon
<1>6. CASE Open(k)
  <2>1. /\ k \in handled /\ source[k] = "start" /\ source'[k] \in {"produce", "signal"}
        /\ scanner'[k] = "scan" /\ drainer'[k] = "drain" /\ token'[k] = token[k]
        /\ produced'[k] = produced[k]
        /\ UNCHANGED backendVars
    BY <1>6, Zenon DEF Open, PipeType
  <2>2. GoroutinesOK(k)'
    BY <1>1, <1>2, <1>4, <2>1, Zenon DEF GoroutinesOK, Passed, PipeClosed
  <2>3. Last(k)' = Last(k) /\ (source'[k] = "done") = (source[k] = "done")
    BY <2>1, Zenon DEF Last
  <2>4. Sent(k)' = Sent(k)
    BY <1>1, <1>2, <2>1, Zenon DEF GoroutinesOK, Sent, Passed, PipeClosed
  <2>. QED
    BY <2>1, <2>2, <2>3, <2>4, QuietStep, Zenon
<1>7. CASE Produce(k)
  <2>1. /\ source[k] = "produce" /\ source'[k] = "write"
        /\ scanner'[k] = scanner[k] /\ drainer'[k] = drainer[k]
        /\ token'[k] = token[k]
        /\ \/ produced'[k] = produced[k] + 1
           \/ produced'[k] = produced[k] /\ PipeClosed(k)
        /\ UNCHANGED backendVars
    BY <1>7, Zenon DEF Produce, PipeType
  <2>2. GoroutinesOK(k)'
    BY <1>1, <1>2, <1>4, <2>1 DEF GoroutinesOK, Passed, PipeClosed
  <2>3. Last(k)' = Last(k) /\ (source'[k] = "done") = (source[k] = "done")
    BY <2>1, Zenon DEF Last
  <2>4. \/ Sent(k)' = Sent(k)
        \/ Sent(k)' = Sent(k) + 1 /\ PipeClosed(k)' /\ source[k] # "done"
    BY <1>1, <1>2, <2>1 DEF GoroutinesOK, Sent, Passed, PipeClosed
  <2>. QED
    BY <2>1, <2>2, <2>3, <2>4, QuietStep, Zenon
<1>8. CASE SourceEnds(k)
  <2>1. /\ source[k] = "produce" /\ source'[k] = "signal"
        /\ scanner'[k] = scanner[k] /\ drainer'[k] = drainer[k]
        /\ token'[k] = token[k] /\ produced'[k] = produced[k]
        /\ UNCHANGED backendVars
    BY <1>8, Zenon DEF SourceEnds, PipeType
  <2>2. GoroutinesOK(k)'
    BY <1>1, <1>2, <1>4, <2>1, Zenon DEF GoroutinesOK, Passed, PipeClosed
  <2>3. Last(k)' = Last(k) /\ (source'[k] = "done") = (source[k] = "done")
    BY <2>1, Zenon DEF Last
  <2>4. Sent(k)' = Sent(k)
    BY <1>1, <1>2, <2>1, Zenon DEF GoroutinesOK, Sent, Passed, PipeClosed
  <2>. QED
    BY <2>1, <2>2, <2>3, <2>4, QuietStep, Zenon
<1>9. CASE WriteError(k)
  <2>1. /\ source[k] = "write" /\ source'[k] = "signal" /\ PipeClosed(k)
        /\ scanner'[k] = scanner[k] /\ drainer'[k] = drainer[k]
        /\ token'[k] = token[k] /\ produced'[k] = produced[k]
        /\ UNCHANGED backendVars
    BY <1>9, Zenon DEF WriteError, PipeType
  <2>2. GoroutinesOK(k)'
    BY <1>1, <1>2, <1>4, <2>1, Zenon DEF GoroutinesOK, Passed, PipeClosed
  <2>3. Last(k)' = Last(k) /\ (source'[k] = "done") = (source[k] = "done")
    BY <2>1, Zenon DEF Last
  <2>4. Sent(k)' = Sent(k)
    BY <1>1, <1>2, <2>1, Zenon DEF GoroutinesOK, Sent, Passed, PipeClosed
  <2>. QED
    BY <2>1, <2>2, <2>3, <2>4, QuietStep, Zenon
<1>10. CASE SignalHandlerClosed(k)
  <2>1. /\ source[k] = "signal" /\ source'[k] = "done"
        /\ scanner'[k] = scanner[k] /\ drainer'[k] = drainer[k]
        /\ token'[k] = token[k] /\ produced'[k] = produced[k]
        /\ SendResponse(k, "Close", 0)
    BY <1>10, Zenon DEF SignalHandlerClosed, PipeType, SendResponse
  <2>2. k \in handled /\ done = FALSE
    BY <1>1, <2>1, Zenon DEF GoroutinesOK
  <2>3. StreamOK(k, 0, out, TRUE, produced[k])'
    BY <1>1, <1>2, <1>3, <2>1, <2>2, SignalStep, Zenon
  <2>4. (k \in handled') = (k \in handled) /\ (k \in chanClosed') = (k \in chanClosed)
    BY <2>1, ZenonT(30) DEF SendResponse, routeVars
  <2>5. Sent(k)' = Sent(k) /\ Last(k)' = produced[k]
    BY <1>1, <2>1, Zenon DEF Sent, Passed, Last, PipeClosed
  <2>6. GoroutinesOK(k)'
    BY <1>1, <2>1, <2>4, Zenon DEF GoroutinesOK, Passed, PipeClosed
  <2>. QED
    BY <1>1, <2>1, <2>3, <2>5, <2>6, PipeAfter, Zenon
<1>. QED
  BY <1>5, <1>6, <1>7, <1>8, <1>9, <1>10, Zenon DEF Handle

\* The scanning goroutine.
LEMMA ScanKeeps ==
    ASSUME PipeType, NEW k \in Sessions, NEW out, NEW done \in BOOLEAN, NEW p,
           PipeOK(k, out, done, p), ScanRecords(k)
    PROVE  SomePipe(k)'
<1>1. /\ out = Count(Sent(k)) /\ done = (source[k] = "done") /\ p = Last(k)
      /\ StreamOK(k, 0, out, done, p) /\ GoroutinesOK(k)
  BY Zenon DEF PipeOK
<1>2. /\ source[k] \in {"start", "produce", "write", "signal", "done"}
      /\ scanner[k] \in {"none", "scan", "send", "final", "done"}
      /\ produced[k] \in Nat /\ Sent(k) \in Nat /\ Passed(k) \in Nat /\ Last(k) \in Nat
  BY <1>1, PipeValues, Zenon
<1>3. out \in Seq(Nat) /\ Rising(out) /\ p \in Nat /\ BackendTypeOK
  BY <1>1, <1>2, CountTo, Zenon DEF PipeType
<1>4. ASSUME UNCHANGED backendVars
      PROVE  (k \in handled') = (k \in handled) /\ (k \in chanClosed') = (k \in chanClosed)
  BY <1>4, Zenon DEF backendVars, routeVars
<1>5. CASE Scan(k)
  <2>1. /\ source[k] = "write" /\ scanner[k] = "scan" /\ ~PipeClosed(k)
        /\ drainer'[k] = drainer[k] /\ produced'[k] = produced[k]
        /\ \/ source'[k] = "write" /\ scanner'[k] = "scan" /\ token'[k] = token[k]
           \/ source'[k] = "produce" /\ scanner'[k] = "send" /\ token'[k] = produced[k]
        /\ UNCHANGED backendVars
    BY <1>5, Zenon DEF Scan, PipeType
  <2>2. GoroutinesOK(k)'
    BY <1>1, <1>2, <1>4, <2>1, Zenon DEF GoroutinesOK, Passed, PipeClosed
  <2>3. Last(k)' = Last(k) /\ (source'[k] = "done") = (source[k] = "done")
    BY <2>1, Zenon DEF Last
  <2>4. Sent(k)' = Sent(k)
    BY <1>1, <1>2, <2>1, Zenon DEF GoroutinesOK, Sent, Passed, PipeClosed
  <2>. QED
    BY <2>1, <2>2, <2>3, <2>4, QuietStep, Zenon
<1>6. CASE ScanEOF(k)
  <2>1. /\ scanner[k] = "scan" /\ PipeClosed(k) /\ scanner'[k] \in {"done", "final"}
        /\ source'[k] = source[k] /\ drainer'[k] = drainer[k] /\ produced'[k] = produced[k]
        /\ UNCHANGED backendVars
    BY <1>6, Zenon DEF ScanEOF, PipeType
  <2>2. GoroutinesOK(k)'
    BY <1>1, <1>2, <1>4, <2>1, Zenon DEF GoroutinesOK, Passed, PipeClosed
  <2>3. Last(k)' = Last(k) /\ (source'[k] = "done") = (source[k] = "done")
    BY <2>1, Zenon DEF Last
  <2>4. Sent(k)' = Sent(k)
    BY <1>1, <1>2, <2>1, Zenon DEF GoroutinesOK, Sent, Passed, PipeClosed
  <2>. QED
    BY <2>1, <2>2, <2>3, <2>4, QuietStep, Zenon
<1>7. CASE ScanTooLong(k)
  <2>1. /\ scanner[k] = "scan" /\ scanner'[k] = "done" /\ token'[k] = token[k]
        /\ source'[k] = source[k] /\ drainer'[k] = drainer[k] /\ produced'[k] = produced[k]
        /\ UNCHANGED backendVars
    BY <1>7, Zenon DEF ScanTooLong, PipeType
  <2>2. GoroutinesOK(k)'
    BY <1>1, <1>2, <1>4, <2>1, Zenon DEF GoroutinesOK, Passed, PipeClosed
  <2>3. Last(k)' = Last(k) /\ (source'[k] = "done") = (source[k] = "done")
    BY <2>1, Zenon DEF Last
  <2>4. Sent(k)' = Sent(k)
    BY <1>1, <1>2, <2>1, Zenon DEF GoroutinesOK, Sent, Passed, PipeClosed
  <2>. QED
    BY <2>1, <2>2, <2>3, <2>4, QuietStep, Zenon
<1>8. CASE SendToken(k)
  <2>1. /\ scanner[k] \in {"send", "final"}
        /\ scanner'[k] = IF scanner[k] = "send" THEN "scan" ELSE "done"
        /\ source'[k] = source[k] /\ drainer'[k] = drainer[k] /\ token'[k] = token[k]
        /\ produced'[k] = produced[k] /\ token[k] \in Nat
        /\ SendResponse(k, "Body", token[k])
    BY <1>8, Zenon DEF SendToken, PipeType, SendResponse
  <2>2. (k \in handled') = (k \in handled) /\ (k \in chanClosed') = (k \in chanClosed)
    BY <2>1, Zenon DEF SendResponse, routeVars
  <2>3. GoroutinesOK(k)' /\ Last(k)' = Last(k)
    BY <1>1, <2>1, <2>2, Zenon DEF GoroutinesOK, Passed, PipeClosed, Last
  <2>4. k \in handled
    BY <1>1, <2>1, Zenon DEF GoroutinesOK
  <2>5. PipeClosed(k) => Gone(k)
    BY <1>1, Zenon DEF GoroutinesOK, StreamOK, LinkOK
  <2>6. CASE scanner[k] = "final"
    <3>1. Gone(k)
      BY <1>1, <2>5, <2>6, Zenon DEF GoroutinesOK
    <3>2. StreamOK(k, 0, out, done, p)'
      BY <1>1, <1>3, <2>1, <2>4, <3>1, SendGone, Zenon
    <3>3. Sent(k)' = Sent(k)
      BY <2>1, <2>6, Zenon DEF Sent, Passed, PipeClosed
    <3>. QED
      BY <1>1, <2>1, <2>3, <3>2, <3>3, PipeAfter, ZenonT(30)
  <2>7. CASE scanner[k] = "send"
    <3>1. Sent(k)' = Sent(k) + 1 /\ Passed(k) = Sent(k) + 1
      BY <1>2, <2>1, <2>7 DEF Sent, Passed, PipeClosed
    <3>2. ASSUME done
          PROVE  Sent(k) + 1 >= p
      <4>1. p = produced[k] /\ Passed(k) = produced[k]
        BY <1>1, <3>2, Zenon DEF Last, Passed
      <4>. QED
        BY <1>2, <3>1, <4>1
    <3>3. PICK n \in Nat : n = Sent(k) + 1
      BY <1>2
    <3>4. Append(out, n) = Count(Sent(k) + 1) /\ \A i \in DOMAIN out : out[i] < n
      BY <1>1, <1>2, <3>3, CountTo, Zenon
    <3>5. StreamOK(k, 0, Append(out, n), done, p)'
      <4>1. CASE PipeClosed(k)
        <5>1. StreamOK(k, 0, Append(out, n), done, p)
          BY <1>1, <1>3, <2>4, <2>5, <3>2, <3>3, <4>1, GoneGrows, Zenon
        <5>2. Append(out, n) \in Seq(Nat)
          BY <1>3, AppendProperties, Zenon
        <5>. QED
          BY <1>3, <2>1, <2>4, <2>5, <4>1, <5>1, <5>2, SendGone, Zenon
      <4>2. CASE ~PipeClosed(k)
        <5>1. SendResponse(k, "Body", n)
          BY <1>1, <2>1, <2>7, <3>1, <3>3, <4>2, Zenon DEF GoroutinesOK
        <5>. QED
          BY <1>1, <1>3, <2>4, <3>2, <3>3, <3>4, <5>1, SendStep, ZenonT(30)
      <4>. QED
        BY <4>1, <4>2, Zenon
    <3>. QED
      BY <1>1, <2>1, <2>3, <3>1, <3>4, <3>5, PipeAfter, ZenonT(30)
  <2>. QED
    BY <2>1, <2>6, <2>7, Zenon
<1>. QED
  BY <1>5, <1>6, <1>7, <1>8, Zenon DEF ScanRecords

\* The discarding goroutine. When it closes the pipe, the record Handle is writing is lost
\* to a client that is gone.
LEMMA DiscardKeeps ==
    ASSUME PipeType, NEW k \in Sessions, NEW out, NEW done \in BOOLEAN, NEW p,
           PipeOK(k, out, done, p), Discard(k)
    PROVE  SomePipe(k)'
<1>1. /\ out = Count(Sent(k)) /\ done = (source[k] = "done") /\ p = Last(k)
      /\ StreamOK(k, 0, out, done, p) /\ GoroutinesOK(k)
  BY Zenon DEF PipeOK
<1>2. /\ source[k] \in {"start", "produce", "write", "signal", "done"}
      /\ scanner[k] \in {"none", "scan", "send", "final", "done"}
      /\ produced[k] \in Nat /\ Sent(k) \in Nat /\ Passed(k) \in Nat /\ Last(k) \in Nat
  BY <1>1, PipeValues, Zenon
<1>3. out \in Seq(Nat) /\ Rising(out) /\ p \in Nat /\ BackendTypeOK
  BY <1>1, <1>2, CountTo, Zenon DEF PipeType
<1>4. ASSUME UNCHANGED backendVars
      PROVE  (k \in handled') = (k \in handled) /\ (k \in chanClosed') = (k \in chanClosed)
  BY <1>4, Zenon DEF backendVars, routeVars
<1>5. CASE ClosePipe(k)
  <2>1. /\ drainer[k] = "drain" /\ drainer'[k] = "done" /\ k \in chanClosed
        /\ source'[k] = source[k] /\ scanner'[k] = scanner[k] /\ token'[k] = token[k]
        /\ produced'[k] = produced[k]
        /\ UNCHANGED backendVars
    BY <1>5, Zenon DEF ClosePipe, PipeType
  <2>2. GoroutinesOK(k)'
    BY <1>1, <1>2, <1>4, <2>1, Zenon DEF GoroutinesOK, Passed, PipeClosed
  <2>3. Last(k)' = Last(k) /\ (source'[k] = "done") = (source[k] = "done")
    BY <2>1, ZenonT(30) DEF Last
  <2>4. \/ Sent(k)' = Sent(k)
        \/ Sent(k)' = Sent(k) + 1 /\ PipeClosed(k)' /\ source[k] # "done"
    BY <1>1, <1>2, <2>1 DEF GoroutinesOK, Sent, Passed, PipeClosed
  <2>. QED
    BY <2>1, <2>2, <2>3, <2>4, QuietStep, Zenon
<1>6. CASE Drain(k)
  <2>1. /\ source'[k] = source[k] /\ scanner'[k] = scanner[k] /\ drainer'[k] = drainer[k]
        /\ token'[k] = token[k] /\ produced'[k] = produced[k] /\ ReceiveMessage(k)
    BY <1>6, Zenon DEF Drain, ReceiveMessage, streamVars
  <2>2. StreamOK(k, 0, out, done, p)'
    <3>1. /\ Head(incoming[k]) \in Nat
          /\ \A n \in Nat : n <= Head(incoming[k]) => StreamOK(k, n, out, done, p)'
      BY <1>1, <1>3, <2>1, ReceiveStep, Zenon
    <3>. QED
      BY <3>1
  <2>3. (k \in handled') = (k \in handled) /\ (k \in chanClosed') = (k \in chanClosed)
    BY <2>1, Zenon DEF ReceiveMessage
  <2>4. Sent(k)' = Sent(k) /\ Last(k)' = Last(k) /\ GoroutinesOK(k)'
    BY <1>1, <2>1, <2>3, Zenon DEF GoroutinesOK, Sent, Passed, Last, PipeClosed
  <2>. QED
    BY <1>1, <2>1, <2>2, <2>4, PipeAfter, Zenon
<1>. QED
  BY <1>5, <1>6, Zenon DEF Discard

--------------------------------------------------------------------------------
(* The invariant and the theorems.                                          *)

\* Nothing has happened in any session.
LEMMA PipeInit == Init => PipeInv
<1>. SUFFICES ASSUME Init PROVE PipeInv
  BY Zenon
<1>1. BackendTypeOK /\ \A k \in Sessions : StreamOK(k, 0, Count(0), FALSE, 0)
  BY StreamInit, Zenon DEF Init
<1>2. PipeType
  BY <1>1, Zenon DEF Init, PipeType, Torn
<1>3. ASSUME NEW k \in Sessions PROVE SomePipe(k)
  <2>1. source[k] = "start" /\ scanner[k] = "none" /\ drainer[k] = "none" /\ produced[k] = 0
    BY Zenon DEF Init
  <2>2. Sent(k) = 0 /\ Last(k) = 0
    BY <2>1, Zenon DEF Sent, Passed, Last
  <2>3. GoroutinesOK(k)
    BY <2>1, Zenon DEF GoroutinesOK, PipeClosed
  <2>4. StreamOK(k, 0, Count(0), FALSE, 0)
    BY <1>1, Zenon
  <2>5. FALSE = (source[k] = "done")
    BY <2>1, Zenon
  <2>6. PipeOK(k, Count(0), FALSE, 0)
    BY <2>2, <2>3, <2>4, <2>5, Zenon DEF PipeOK
  <2>. QED
    BY <2>2, <2>6, Zenon DEF SomePipe
<1>. QED
  BY <1>2, <1>3, Zenon DEF PipeInv

\* Every step keeps the invariant.
LEMMA PipeStep == PipeInv /\ [Next]_vars => PipeInv'
<1>. SUFFICES ASSUME PipeInv, [Next]_vars PROVE PipeInv'
  BY Zenon
<1>1. PipeType /\ PipeType'
  <2>1. CASE UNCHANGED vars
    BY <2>1, Zenon DEF PipeInv, PipeType, BackendTypeOK, vars, backendVars, proxyVars,
       routeVars, streamVars
  <2>. QED
    BY <2>1, PipeTypeStep, Zenon DEF PipeInv
<1>2. ASSUME NEW k \in Sessions PROVE SomePipe(k)'
  <2>1. PICK done \in BOOLEAN, out \in {Count(Sent(k))}, p \in {Last(k)} :
           PipeOK(k, out, done, p)
    BY <1>2, Zenon DEF PipeInv, SomePipe
  <2>2. CASE \/ (Proxy \/ ReadLoop \/ WriteLoop \/ ReadError) /\ UNCHANGED streamVars
             \/ UNCHANGED vars
             \/ \E j \in Sessions : j # k /\ HandlerStep(j)
    <3>1. PipeOK(k, out, done, p)'
      BY <1>1, <2>1, <2>2, PipeOthers, Zenon
    <3>. QED
      BY <3>1, PipeAfter, Zenon DEF PipeOK
  <2>3. CASE HandlerStep(k)
    BY <1>1, <2>1, <2>3, HandleKeeps, ScanKeeps, DiscardKeeps, Zenon DEF HandlerStep
  <2>. QED
    BY <2>2, <2>3, Zenon DEF Next, HandlerStep
<1>. QED
  BY <1>1, <1>2, Zenon DEF PipeInv

\* PipeInv holds of every reachable state.
LEMMA PipeAlways == Spec => []PipeInv
  BY PipeInit, PipeStep, PTL DEF Spec

\* What the invariant says of the records a client received.
LEMMA PipeReceived ==
    ASSUME PipeInv, NEW k \in Sessions
    PROVE  /\ received[k] = [i \in 1 .. Len(received[k]) |-> i]
           /\ client[k] = "ended" => Len(received[k]) + 1 >= produced[k]
<1>1. PipeType
  BY Zenon DEF PipeInv
<1>2. PICK done \in BOOLEAN, out \in {Count(Sent(k))}, p \in {Last(k)} :
         PipeOK(k, out, done, p)
  BY Zenon DEF PipeInv, SomePipe
<1>3. /\ out = Count(Sent(k)) /\ done = (source[k] = "done") /\ p = Last(k)
      /\ StreamOK(k, 0, out, done, p) /\ GoroutinesOK(k)
  BY <1>2, Zenon DEF PipeOK
<1>4. /\ Sent(k) \in Nat /\ Passed(k) \in Nat /\ produced[k] \in Nat
      /\ received[k] \in Seq(Nat)
  BY <1>1, <1>3, PipeValues, Zenon DEF PipeType, BackendTypeOK
<1>5. /\ received[k] = Count(Len(received[k])) /\ Len(received[k]) \in Nat
      /\ Len(received[k]) <= Sent(k)
      /\ client[k] = "ended" /\ k \in handled =>
            done /\ \A i \in Len(received[k]) + 1 .. Sent(k) : i >= p
  BY <1>3, <1>4, CountReceived, Zenon
<1>6. ASSUME client[k] = "ended" PROVE Len(received[k]) + 1 >= produced[k]
  <2>1. CASE k \notin handled
    BY <1>3, <1>4, <1>5, <2>1 DEF GoroutinesOK
  <2>2. CASE k \in handled
    <3>1. source[k] = "done" /\ \A i \in Len(received[k]) + 1 .. Sent(k) : i >= p
      BY <1>3, <1>5, <1>6, <2>2, ZenonT(30)
    <3>2. p = produced[k] /\ Sent(k) + 1 >= produced[k]
      BY <1>3, <1>4, <3>1 DEF Last, Sent, Passed
    <3>. QED
      BY <1>4, <1>5, <3>1, <3>2
  <2>. QED
    BY <2>1, <2>2, Zenon
<1>. QED
  BY <1>5, <1>6, Zenon DEF Count

\* A client receives whole records, each once and in order: what the scanner makes of a
\* pipe that was closed in the middle of a Write never reaches it.
THEOREM OnlyWholeRecords == Spec => []RecordsWhole
<1>1. PipeInv => RecordsWhole
  BY PipeReceived, Zenon DEF RecordsWhole
<1>. QED
  BY <1>1, PipeAlways, PTL

\* A client whose session is ended has received all records, or all but the last one, which
\* Close has overtaken in the scanner.
THEOREM CloseOvertakesOneRecord == Spec => []AtMostOneLost
<1>1. PipeInv => AtMostOneLost
  BY PipeReceived, Zenon DEF AtMostOneLost
<1>. QED
  BY <1>1, PipeAlways, PTL
================================================================================
