---------------------------- MODULE HttpProxyProofs ----------------------------
(***************************************************************************)
(* Proofs about the proxied HTTP exchanges, for any number of sessions,    *)
(* capacities, and lengths of requests and answers.                        *)
(***************************************************************************)
EXTENDS HttpProxy, BackendProofs

HttpType == BackendTypeOK /\ http \in [Sessions -> Handler]

\* The read loop still has the messages of session k for its handler.
Alive(k) == k \in responders \/ Carries(toBackend, k, "Connect") \/ client[k] = "new"

\* The messages up to n that were sent for sure when n was: only pieces of the body can be
\* missing before the EOF.
Upto(n) == IF n = EOF THEN Request ELSE n

\* No message is missing between the last one the handler took and those on their way.
NoGap(k, low) ==
    /\ \A i \in DOMAIN incoming[k] :
          \/ incoming[k][i] = low + i
          \/ incoming[k][i] = EOF /\ low + i > Request
    /\ Alive(k) => \A n \in Bodies(toBackend, k) \union {sent[k]} :
          low + Len(incoming[k]) + 1 .. Upto(n) \subseteq Bodies(toBackend, k)

\* The body of the request, with zeros at pad; and how long it is when the messages up to
\* low are in it.
Padded(target, pad) == target = Body(pad, Len(target)) /\ pad <= Len(target)
Length(low, pad) == low - Request + (IF pad > 0 THEN 1 ELSE 0)

\* The one who reads the body has passed on all messages up to low.
BodyOK(h, low) ==
    \E pad \in 0 .. 2 :
        /\ Padded(h.target, pad)
        /\ pad > 0 => h.hijack /\ h.sized
        /\ h.pump = "read" => Len(h.target) = Length(low, pad)

\* Handle and the goroutine of a session, in the state h.
StepsOK(h, low) ==
    /\ h.step \in {"start", "request", "initial"} =>
          h.pump = "none" /\ h.target = <<>> /\ ~h.complete
    /\ h.step \in {"start", "request", "initial", "do", "header"} => h.produced = 0
    /\ h.step = "start" => low = 0
    /\ h.step \in {"request", "initial"} => low = Request
    /\ h.step = "initial" => h.hijack /\ h.sized
    /\ h.step \in {"do", "header"} => ~h.hijack
    /\ h.step = "write" => h.produced > 0

HandlerOK(k, low) ==
    /\ StepsOK(http[k], low) /\ BodyOK(http[k], low)
    /\ k \notin handled => http[k].step = "start"
    /\ http[k].complete => low = EOF \/ k \in chanClosed

\* An answer: its header, if there is one, and m pieces; and a whole answer.
Pieces(header, m) == [i \in 1 .. header + m |-> i - header]
Whole(header, m) == Append(Pieces(header, m), ResponseEOF)

\* What Handle may have sent when it is at step.
OutsAt(step, header, m) ==
    CASE step \in {"copy", "eof"}    -> {Pieces(header, m)}
      [] step = "write"              -> {Pieces(header, m - 1)}
      [] step = "wait"               -> {Whole(header, m)}
      [] step \in {"signal", "done"} -> {<<>>, Whole(header, m)}
      [] OTHER                       -> {<<>>}

Headers(h) == IF h.hijack THEN 0 ELSE 1
Outs(h) == OutsAt(h.step, Headers(h), h.produced)

\* A client whose connection was ended by Close misses nothing.
Last(h) == IF h.step = "done" THEN ResponseEOF + 1 ELSE 0

HttpOK(k, low, out, done, p) ==
    /\ out \in Outs(http[k]) /\ done = (http[k].step = "done") /\ p = Last(http[k])
    /\ StreamOK(k, low, out, done, p) /\ NoGap(k, low) /\ HandlerOK(k, low)

SomeHttp(k) ==
    \E low \in 0 .. sent[k], done \in BOOLEAN, out \in Outs(http[k]), p \in {Last(http[k])} :
        HttpOK(k, low, out, done, p)

HttpInv == HttpType /\ \A k \in Sessions : SomeHttp(k)

--------------------------------------------------------------------------------
(* Bodies and answers.                                                      *)

\* A body without pieces.
LEMMA BodyEmpty ==
    ASSUME NEW g, NEW low, g.target = <<>>, g.pump = "read" => low = Request
    PROVE  BodyOK(g, low)
<1>1. Len(<<>>) = 0 /\ Padded(<<>>, 0)
  BY DEF Padded, Body
<1>2. Length(Request, 0) = 0 /\ ~(0 > 0) /\ 0 \in 0 .. 2
  BY DEF Length, Request
<1>. QED
  BY <1>1, <1>2, Zenon DEF BodyOK

\* A body that stays as it is, read on only by the one who read it before.
LEMMA BodySame ==
    ASSUME NEW h, NEW g, NEW low, NEW n, BodyOK(h, low), g.target = h.target,
           g.hijack = h.hijack, g.sized = h.sized, g.pump = "read" => h.pump = "read" /\ n = low
    PROVE  BodyOK(g, n)
  BY Zenon DEF BodyOK

\* A sequence is the function of its elements.
LEMMA SequenceIsFunction ==
    ASSUME NEW S, NEW t \in Seq(S)
    PROVE  t = [i \in 1 .. Len(t) |-> t[i]]
  OBVIOUS

\* The next piece of the body.
LEMMA NextPiece ==
    ASSUME NEW s \in Seq(0 .. MaxBodies), NEW pad \in 0 .. 2, NEW low \in Nat,
           NEW n \in 0 .. MaxBodies, n = low + 1, Padded(s, pad), Len(s) = Length(low, pad),
           NEW t, t = Append(s, n)
    PROVE  Padded(t, pad) /\ Len(t) = Length(n, pad)
<1>. DEFINE L == Len(s)
<1>1. /\ t \in Seq(0 .. MaxBodies) /\ Len(t) = L + 1 /\ t[L + 1] = n /\ L \in Nat
      /\ \A i \in 1 .. L : t[i] = s[i]
  BY AppendProperties, LenProperties
<1>2. t = [i \in 1 .. Len(t) |-> t[i]]
  BY <1>1, SequenceIsFunction, Zenon
<1>3. s = Body(pad, L) /\ pad <= L /\ L = low - 1 + (IF pad > 0 THEN 1 ELSE 0)
  BY Zenon DEF Padded, Length, Request
<1>. HIDE DEF L
<1>4. ASSUME NEW i \in 1 .. L + 1
      PROVE  t[i] = CASE pad = 0 \/ i < pad -> i + Request
                      [] i = pad            -> Padding
                      [] OTHER              -> i - 1 + Request
  <2>1. CASE i \in 1 .. L
    <3>1. t[i] = Body(pad, L)[i]
      BY <1>1, <1>3, <2>1, Zenon
    <3>. QED
      BY <1>1, <2>1, <3>1, Zenon DEF Body
  <2>2. CASE i = L + 1
    BY <1>1, <1>3, <2>2 DEF Request
  <2>. QED
    BY <1>1, <2>1, <2>2
<1>5. t = Body(pad, Len(t))
  <2>1. \A i \in 1 .. Len(t) : Body(pad, Len(t))[i] = t[i]
    BY <1>1, <1>4, Zenon DEF Body
  <2>2. Body(pad, Len(t)) = [i \in 1 .. Len(t) |-> Body(pad, Len(t))[i]]
    BY DEF Body
  <2>. QED
    BY <1>2, <2>1, <2>2, Zenon
<1>6. pad <= Len(t) /\ Len(t) = Length(n, pad)
  BY <1>1, <1>3 DEF Length, Request
<1>. QED
  BY <1>5, <1>6, Zenon DEF Padded

\* It makes the body longer.
LEMMA BodyGrows ==
    ASSUME NEW h, NEW g, NEW low \in Nat, NEW n \in 0 .. MaxBodies, n = low + 1,
           BodyOK(h, low), h.pump = "read", h.target \in Seq(0 .. MaxBodies),
           g.target = Append(h.target, n), g.hijack = h.hijack, g.sized = h.sized
    PROVE  BodyOK(g, n)
<1>1. PICK pad \in 0 .. 2 :
         /\ Padded(h.target, pad) /\ (pad > 0 => h.hijack /\ h.sized)
         /\ Len(h.target) = Length(low, pad)
  BY Zenon DEF BodyOK
<1>2. Padded(g.target, pad) /\ Len(g.target) = Length(n, pad)
  BY <1>1, NextPiece, Zenon
<1>. QED
  BY <1>1, <1>2, Zenon DEF BodyOK

\* What doHijack sends with the request.
LEMMA BodyFirst ==
    ASSUME NEW g, NEW low,
           \/ g.target = <<Padding>> /\ (g.pump = "read" => low = 1)
           \/ g.target \in {<< 2 >>, <<2, Padding>>} /\ low = 2,
           g.hijack, g.sized
    PROVE  BodyOK(g, low)
<1>1. Body(1, 1) = <<Padding>> /\ Body(0, 1) = << 2 >> /\ Body(2, 2) = <<2, Padding>>
  <2>1. Body(1, 1) = <<Padding>>
    BY DEF Body
  <2>2. Body(0, 1) = << 2 >>
    BY DEF Body, Request
  <2>3. Body(2, 2) = <<2, Padding>>
    <3>1. \A i \in 1 .. 2 : Body(2, 2)[i] = <<2, Padding>>[i]
      BY DEF Body, Request
    <3>. QED
      BY <3>1 DEF Body
  <2>. QED
    BY <2>1, <2>2, <2>3, Zenon
<1>2. Len(<<Padding>>) = 1 /\ Len(<< 2 >>) = 1 /\ Len(<<2, Padding>>) = 2
  BY Zenon
<1>3. /\ Padded(<<Padding>>, 1) /\ Padded(<< 2 >>, 0) /\ Padded(<<2, Padding>>, 2)
  BY <1>1, <1>2 DEF Padded
<1>4. /\ Length(1, 1) = 1 /\ Length(2, 0) = 1 /\ Length(2, 2) = 2
      /\ 0 \in 0 .. 2 /\ 1 \in 0 .. 2 /\ 2 \in 0 .. 2 /\ ~(0 > 0)
  BY DEF Length, Request
<1>5. CASE g.target = <<Padding>> /\ (g.pump = "read" => low = 1)
  BY <1>2, <1>3, <1>4, <1>5, Zenon DEF BodyOK
<1>6. CASE g.target = << 2 >> /\ low = 2
  BY <1>2, <1>3, <1>4, <1>6, Zenon DEF BodyOK
<1>7. CASE g.target = <<2, Padding>> /\ low = 2
  BY <1>2, <1>3, <1>4, <1>7, Zenon DEF BodyOK
<1>. QED
  BY <1>5, <1>6, <1>7, Zenon

\* Answers grow by the header, by a piece and by the EOF.
LEMMA PiecesTo ==
    ASSUME NEW header \in 0 .. 1, NEW m \in Nat
    PROVE  /\ Pieces(header, m) \in Seq(Nat) /\ Len(Pieces(header, m)) = header + m
           /\ \A i \in 1 .. header + m : Pieces(header, m)[i] = i - header
           /\ Rising(Pieces(header, m))
           /\ \A i \in DOMAIN Pieces(header, m) :
                 Pieces(header, m)[i] < m + 1 /\ Pieces(header, m)[i] \in Nat
           /\ Append(Pieces(header, m), m + 1) = Pieces(header, m + 1)
<1>1. Pieces(header, m) \in Seq(Nat) /\ Len(Pieces(header, m)) = header + m
  BY DEF Pieces
<1>2. \A i \in 1 .. header + m : Pieces(header, m)[i] = i - header
  BY Zenon DEF Pieces
<1>3. /\ Rising(Pieces(header, m))
      /\ \A i \in DOMAIN Pieces(header, m) :
            Pieces(header, m)[i] < m + 1 /\ Pieces(header, m)[i] \in Nat
  BY DEF Pieces, Rising
<1>4. Append(Pieces(header, m), m + 1) = Pieces(header, m + 1)
  <2>1. /\ Append(Pieces(header, m), m + 1) \in Seq(Nat)
        /\ Len(Append(Pieces(header, m), m + 1)) = header + m + 1
        /\ \A i \in 1 .. header + m + 1 : Append(Pieces(header, m), m + 1)[i] = i - header
    BY <1>1, <1>2, AppendProperties
  <2>2. /\ Pieces(header, m + 1) \in Seq(Nat) /\ Len(Pieces(header, m + 1)) = header + m + 1
        /\ \A i \in 1 .. header + m + 1 : Pieces(header, m + 1)[i] = i - header
    BY DEF Pieces
  <2>. QED
    BY <2>1, <2>2, SeqEqual, Zenon
<1>. QED
  BY <1>1, <1>2, <1>3, <1>4, Zenon

\* An answer that has not begun, and one that has only its header.
LEMMA NoPieces == Pieces(0, 0) = <<>> /\ Append(<<>>, 0) = Pieces(1, 0)
  BY DEF Pieces

--------------------------------------------------------------------------------
(* The messages of a request have no gap.                                   *)

\* The proxy's and the loops' steps in session j.
LinkStep(j) ==
    \/ ClientConnect(j) \/ ClientClose(j) \/ WriteBody(j)
    \/ RouteConnect(j) \/ RouteBody(j) \/ RouteClose(j) \/ WriteMessage(j)

\* They are the steps the backend's lemmas are about.
LEMMA LinkIsBackend ==
    ASSUME BackendTypeOK, NEW j \in Sessions, LinkStep(j)
    PROVE  BackendStep(j)
<1>1. ASSUME WriteBody(j) PROVE \E n \in Nat : ProxySends(j, n)
  <2>1. PICK n \in {sent[j] + 1, EOF} :
           /\ n > sent[j] /\ n <= EOF /\ sent' = [sent EXCEPT ![j] = n]
           /\ toBackend' = Append(toBackend, Message(j, "Body", n))
    BY <1>1, Zenon DEF WriteBody
  <2>2. sent[j] \in 0 .. MaxBodies /\ n \in Nat /\ sent[j] < n /\ n <= MaxBodies
    BY <2>1, BackendAssumption DEF BackendTypeOK, EOF
  <2>3. ProxySends(j, n)
    BY <1>1, <2>1, <2>2, Zenon DEF WriteBody, ProxySends
  <2>. QED
    BY <2>2, <2>3, Zenon
<1>. QED
  BY <1>1, Zenon DEF LinkStep, BackendStep

\* A step that leaves the messages of k alone.
LEMMA GapSame ==
    ASSUME NEW k \in Sessions, NEW low, NoGap(k, low), incoming'[k] = incoming[k],
           sent'[k] = sent[k], Bodies(toBackend', k) = Bodies(toBackend, k),
           Alive(k)' => Alive(k)
    PROVE  NoGap(k, low)'
  BY Zenon DEF NoGap

\* The steps of other sessions.
LEMMA GapView ==
    ASSUME NEW k \in Sessions, NEW low, NoGap(k, low), SameView(k)
    PROVE  NoGap(k, low)'
<1>1. /\ incoming'[k] = incoming[k] /\ sent'[k] = sent[k]
      /\ Bodies(toBackend', k) = Bodies(toBackend, k)
  BY Zenon DEF SameView, SameQueue
<1>2. Alive(k)' => Alive(k)
  BY Zenon DEF SameView, SameQueue, Alive
<1>. QED
  BY <1>1, <1>2, GapSame, Zenon

\* serveHTTP sends the next message, or the EOF after the request.
LEMMA GapWrite ==
    ASSUME NEW k \in Sessions, NEW low \in Nat, BackendTypeOK, NoGap(k, low), WriteBody(k)
    PROVE  NoGap(k, low)'
<1>1. PICK n \in {sent[k] + 1, EOF} :
         /\ n > sent[k] /\ n <= EOF /\ (sent[k] = 0 => n = Request)
         /\ sent' = [sent EXCEPT ![k] = n]
         /\ toBackend' = Append(toBackend, Message(k, "Body", n))
  BY Zenon DEF WriteBody
<1>2. /\ sent[k] \in Nat /\ sent[k] <= MaxBodies /\ n \in Nat /\ sent'[k] = n
      /\ n = sent[k] + 1 \/ n = EOF
  <2>1. sent[k] \in 0 .. MaxBodies /\ sent'[k] = n
    BY <1>1, Zenon DEF BackendTypeOK
  <2>. QED
    BY <1>1, <2>1, BackendAssumption DEF EOF
<1>3. PutsBody(toBackend, toBackend', k, n)
  BY <1>1, <1>2, Queues, OwnSend, Zenon
<1>4. incoming'[k] = incoming[k] /\ responders' = responders /\ client'[k] = client[k]
  BY Zenon DEF WriteBody, routeVars
<1>5. Alive(k)' => Alive(k)
  BY <1>3, <1>4, Zenon DEF Alive, PutsBody
<1>6. PICK base \in Nat : base = low + Len(incoming[k])
  <2>1. Len(incoming[k]) \in Nat
    BY LenProperties, Zenon DEF BackendTypeOK
  <2>. QED
    BY <2>1
<1>7. PICK B : B = Bodies(toBackend, k)
  BY Zenon
<1>8. ASSUME Alive(k)', NEW x \in B \union {n} PROVE base + 1 .. Upto(x) \subseteq B \union {n}
  <2>1. /\ \A y \in B : base + 1 .. Upto(y) \subseteq B
        /\ base + 1 .. Upto(sent[k]) \subseteq B
    BY <1>5, <1>6, <1>7, <1>8, Zenon DEF NoGap
  <2>2. CASE x \in B
    BY <2>1, <2>2, Zenon
  <2>3. CASE x = n
    <3>1. sent[k] < EOF /\ EOF \in Nat /\ EOF > 1
      BY <1>1, <1>2, BackendAssumption, HttpProxyAssumption DEF EOF
    <3>2. base + 1 .. sent[k] \subseteq B
      BY <2>1, <3>1 DEF Upto
    <3>3. CASE n = EOF
      <4>1. sent[k] >= 1
        BY <1>1, <1>2, <3>1, <3>3 DEF Request
      <4>2. base + 1 .. 1 \subseteq B
        BY <1>2, <3>2, <4>1
      <4>. QED
        BY <2>3, <3>3, <4>2, Zenon DEF Upto, Request
    <3>4. CASE n # EOF
      <4>1. Upto(x) = n /\ n = sent[k] + 1
        BY <1>2, <2>3, <3>4, Zenon DEF Upto
      <4>. QED
        BY <1>2, <3>2, <4>1
    <3>. QED
      BY <3>3, <3>4, Zenon
  <2>. QED
    BY <1>8, <2>2, <2>3, Zenon
<1>9. Bodies(toBackend', k) = B \union {n}
  BY <1>3, <1>7, Zenon DEF PutsBody
<1>10. ASSUME Alive(k)', NEW x \in Bodies(toBackend', k) \union {sent'[k]}
       PROVE  low + Len(incoming'[k]) + 1 .. Upto(x) \subseteq Bodies(toBackend', k)
  <2>1. x \in B \union {n}
    BY <1>2, <1>9, <1>10, Zenon
  <2>2. base + 1 .. Upto(x) \subseteq B \union {n}
    BY <1>8, <1>10, <2>1, Zenon
  <2>. QED
    BY <1>4, <1>6, <1>9, <2>2, Zenon
<1>. QED
  BY <1>4, <1>10, Zenon DEF NoGap, Upto, EOF, Request

\* The next message on the websocket is the one the session's channel waits for.
LEMMA GapRoute ==
    ASSUME NEW k \in Sessions, NEW low \in Nat, BackendTypeOK, LinkOK(k), InputOK(k, low),
           NoGap(k, low), RouteBody(k)
    PROVE  NoGap(k, low)'
<1>1. PICK n \in Nat : n = Head(toBackend).Body
  BY ReadTakes, Zenon DEF RouteBody
<1>2. PICK B : B = Bodies(toBackend, k)
  BY Zenon
<1>3. /\ n \in B /\ Bodies(toBackend', k) = B \ {n} /\ (\A b \in B : n <= b)
      /\ ~Carries(toBackend', k, "Connect") /\ Carries(toBackend, k, "Body")
  <2>1. Takes(toBackend, toBackend', k, "Body", n)
    BY <1>1, ReadTakes, Zenon DEF RouteBody
  <2>. QED
    BY <1>2, <2>1, Zenon DEF Takes, InputOK, LinkOK
<1>4. /\ sent[k] \in Nat /\ sent[k] <= EOF /\ EOF \in Nat /\ EOF > 1
      /\ sent'[k] = sent[k] /\ client'[k] = client[k] /\ responders' = responders
  BY BackendAssumption, HttpProxyAssumption DEF BackendTypeOK, RouteBody, EOF, proxyVars
<1>5. CASE k \notin responders
  <2>1. ~Alive(k)'
    BY <1>3, <1>4, <1>5, Zenon DEF Alive, LinkOK
  <2>2. incoming' = incoming
    BY <1>5, Zenon DEF RouteBody
  <2>. QED
    BY <2>1, <2>2, Zenon DEF NoGap, Upto, EOF, Request
<1>6. CASE k \in responders
  <2>1. PICK s \in Seq(Nat) : s = incoming[k]
    BY Zenon DEF BackendTypeOK
  <2>2. PICK base \in Nat : base = low + Len(s)
    BY LenProperties
  <2>3. incoming'[k] = Append(s, n)
    BY <1>1, <1>6, <2>1, Zenon DEF RouteBody, BackendTypeOK
  <2>4. /\ Len(s) \in Nat /\ Len(incoming'[k]) = Len(s) + 1 /\ incoming'[k][Len(s) + 1] = n
        /\ DOMAIN incoming'[k] = 1 .. Len(s) + 1 /\ DOMAIN s = 1 .. Len(s)
        /\ \A i \in 1 .. Len(s) : incoming'[k][i] = s[i]
    BY <2>3, AppendProperties, LenProperties
  <2>5. /\ low < n /\ n <= sent[k] /\ (\A b \in B : b <= sent[k])
        /\ \A i \in 1 .. Len(s) : s[i] < n
    BY <1>2, <1>3, <2>1, <2>4, Zenon DEF InputOK
  <2>6. \A i \in 1 .. Len(s) : s[i] = low + i \/ (s[i] = EOF /\ low + i > Request)
    BY <2>1, <2>4, Zenon DEF NoGap
  <2>7. base < n
    <3>1. CASE Len(s) = 0
      BY <2>2, <2>5, <3>1
    <3>2. CASE Len(s) # 0
      <4>1. Len(s) \in 1 .. Len(s)
        BY <2>4, <3>2
      <4>2. s[Len(s)] < n /\ (s[Len(s)] = base \/ s[Len(s)] = EOF)
        BY <2>2, <2>5, <2>6, <4>1, Zenon
      <4>. QED
        BY <1>4, <2>5, <4>2
    <3>. QED
      BY <3>1, <3>2, Zenon
  <2>8. \A x \in B \union {sent[k]} : base + 1 .. Upto(x) \subseteq B
    BY <1>2, <1>6, <2>1, <2>2, Zenon DEF NoGap, Alive
  <2>9. n = base + 1 \/ (n = EOF /\ base + 1 > Request)
    <3>1. CASE n = EOF
      <4>1. base + 1 .. Request \subseteq B
        BY <1>3, <2>8, <3>1, Zenon DEF Upto
      <4>2. base # 0
        BY <1>3, <1>4, <3>1, <4>1 DEF Request
      <4>. QED
        BY <3>1, <4>2 DEF Request
    <3>2. CASE n # EOF
      <4>1. base + 1 .. n \subseteq B
        BY <1>3, <2>8, <3>2, Zenon DEF Upto
      <4>2. base + 1 \in B
        BY <2>7, <4>1
      <4>. QED
        BY <1>3, <2>7, <4>2
    <3>. QED
      BY <3>1, <3>2, Zenon
  <2>10. ASSUME NEW x \in (B \ {n}) \union {sent[k]}
         PROVE  base + 2 .. Upto(x) \subseteq B \ {n}
    <3>0. x \in Nat
      BY <1>2, <1>4, <2>10, Queues, NatBodies, Zenon
    <3>1. x \in B \union {sent[k]} /\ base + 1 .. Upto(x) \subseteq B
      BY <2>8, <2>10, Zenon
    <3>2. Upto(x) \in Nat
      BY <3>0, Zenon DEF Upto, Request
    <3>3. CASE n = base + 1
      BY <3>1, <3>2, <3>3
    <3>4. CASE n = EOF /\ base + 1 > Request
      <4>1. x = EOF
        <5>1. CASE x \in B
          <6>1. EOF <= x /\ x <= sent[k] /\ sent[k] <= EOF
            BY <1>3, <1>4, <2>5, <3>4, <5>1, Zenon
          <6>. QED
            BY <1>4, <3>0, <6>1
        <5>2. CASE x = sent[k]
          BY <1>4, <2>5, <3>4, <5>2
        <5>. QED
          BY <3>1, <5>1, <5>2, Zenon
      <4>. QED
        BY <3>4, <4>1 DEF Upto, Request
    <3>. QED
      BY <2>9, <3>3, <3>4, Zenon
  <2>11. ASSUME NEW x \in Bodies(toBackend', k) \union {sent'[k]}
         PROVE  low + Len(incoming'[k]) + 1 .. Upto(x) \subseteq Bodies(toBackend', k)
    <3>1. low + Len(incoming'[k]) + 1 = base + 2
      BY <2>2, <2>4
    <3>. QED
      BY <1>3, <1>4, <2>10, <2>11, <3>1, Zenon
  <2>12. ASSUME NEW i \in DOMAIN incoming'[k]
         PROVE  \/ incoming'[k][i] = low + i
                \/ incoming'[k][i] = EOF /\ low + i > Request
    <3>1. CASE i \in 1 .. Len(s)
      BY <2>4, <2>6, <3>1, Zenon
    <3>2. CASE i = Len(s) + 1
      BY <2>2, <2>4, <2>9, <3>2
    <3>. QED
      BY <2>4, <2>12, <3>1, <3>2
  <2>. QED
    BY <2>11, <2>12, Zenon DEF NoGap, Upto, EOF, Request
<1>. QED
  BY <1>5, <1>6, Zenon

\* The steps of k's own link.
LEMMA GapLink ==
    ASSUME NEW k \in Sessions, NEW low \in Nat, BackendTypeOK, LinkOK(k), InputOK(k, low),
           NoGap(k, low), LinkStep(k)
    PROVE  NoGap(k, low)'
<1>1. CASE ClientConnect(k)
  <2>1. PutsConnect(toBackend, toBackend', k)
    BY <1>1, Queues, OwnSend, Zenon DEF ClientConnect
  <2>2. Alive(k)
    BY <1>1, Zenon DEF ClientConnect, Alive
  <2>3. incoming' = incoming /\ sent' = sent
    BY <1>1, Zenon DEF ClientConnect, routeVars
  <2>4. Bodies(toBackend', k) = Bodies(toBackend, k)
    BY <2>1, Zenon DEF PutsConnect
  <2>. QED
    BY <2>2, <2>3, <2>4, GapSame, Zenon
<1>2. CASE ClientClose(k)
  <2>1. PutsClose(toBackend, toBackend', k)
    BY <1>2, Queues, OwnSend, Zenon DEF ClientClose
  <2>2. /\ incoming' = incoming /\ sent' = sent /\ responders' = responders
        /\ client'[k] = "closed"
    BY <1>2, Zenon DEF ClientClose, routeVars, BackendTypeOK
  <2>3. Bodies(toBackend', k) = Bodies(toBackend, k) /\ (Alive(k)' => Alive(k))
    BY <2>1, <2>2, Zenon DEF PutsClose, Alive
  <2>. QED
    BY <2>2, <2>3, GapSame, Zenon
<1>3. CASE RouteConnect(k)
  <2>1. Takes(toBackend, toBackend', k, "Connect", Head(toBackend).Body)
    BY <1>3, ReadTakes, Zenon DEF RouteConnect
  <2>2. incoming' = incoming /\ sent' = sent
    BY <1>3, Zenon DEF RouteConnect, proxyVars
  <2>3. Bodies(toBackend', k) = Bodies(toBackend, k) /\ Alive(k)
    BY <2>1, Zenon DEF Takes, Alive
  <2>. QED
    BY <2>2, <2>3, GapSame, Zenon
<1>4. CASE RouteClose(k)
  <2>1. Takes(toBackend, toBackend', k, "Close", Head(toBackend).Body)
    BY <1>4, ReadTakes, Zenon DEF RouteClose
  <2>2. incoming' = incoming /\ sent' = sent /\ client' = client /\ responders' \subseteq responders
    BY <1>4, Zenon DEF RouteClose, proxyVars
  <2>3. Bodies(toBackend', k) = Bodies(toBackend, k) /\ (Alive(k)' => Alive(k))
    BY <2>1, <2>2, Zenon DEF Takes, Alive
  <2>. QED
    BY <2>2, <2>3, GapSame, Zenon
<1>5. CASE WriteMessage(k)
  <2>1. incoming' = incoming /\ sent' = sent /\ responders' = responders
    BY <1>5, Zenon DEF WriteMessage, routeVars
  <2>2. PutsClose(toBackend, toBackend', k) \/ toBackend' = toBackend
    BY <1>5, Queues, OwnSend, Zenon DEF WriteMessage
  <2>3. client'[k] = "new" => client[k] = "new"
    BY <1>5, Zenon DEF WriteMessage, BackendTypeOK
  <2>4. Bodies(toBackend', k) = Bodies(toBackend, k) /\ (Alive(k)' => Alive(k))
    BY <2>1, <2>2, <2>3, Zenon DEF PutsClose, Alive
  <2>. QED
    BY <2>1, <2>4, GapSame, Zenon
<1>. QED
  BY <1>1, <1>2, <1>3, <1>4, <1>5, GapWrite, GapRoute, Zenon DEF LinkStep

\* A sequence without its first element.
LEMMA TailOf ==
    ASSUME NEW s \in Seq(Nat), s # <<>>
    PROVE  \E l \in Nat : /\ Len(s) = l + 1 /\ DOMAIN s = 1 .. l + 1 /\ Head(s) = s[1]
                          /\ Len(Tail(s)) = l /\ DOMAIN Tail(s) = 1 .. l
                          /\ \A i \in 1 .. l : Tail(s)[i] = s[i + 1]
<1>1. Len(s) \in Nat /\ Len(s) # 0 /\ DOMAIN s = 1 .. Len(s)
  BY EmptySeq, LenProperties, Zenon
<1>2. PICK l \in Nat : Len(s) = l + 1
  <2>1. Len(s) - 1 \in Nat /\ Len(s) = (Len(s) - 1) + 1
    BY <1>1
  <2>. QED
    BY <2>1, Zenon
<1>3. Tail(s) \in Seq(Nat) /\ Len(Tail(s)) = l /\ \A i \in 1 .. l : Tail(s)[i] = s[i + 1]
  BY <1>2, HeadTailProperties
<1>4. DOMAIN Tail(s) = 1 .. l /\ Head(s) = s[1]
  BY <1>3, HeadTailProperties, LenProperties
<1>. QED
  BY <1>1, <1>2, <1>3, <1>4, Zenon

\* The handler takes the message after the last one.
LEMMA GapReceive ==
    ASSUME NEW k \in Sessions, NEW low \in Nat, BackendTypeOK, InputOK(k, low),
           NoGap(k, low), ReceiveMessage(k)
    PROVE  \E n \in 0 .. MaxBodies :
              /\ n = Head(incoming[k]) /\ low < EOF
              /\ n = low + 1 \/ (n = EOF /\ low + 1 > Request)
              /\ NoGap(k, n)'
<1>1. PICK s \in Seq(Nat) : s = incoming[k]
  BY Zenon DEF BackendTypeOK
<1>2. s # <<>> /\ incoming'[k] = Tail(s)
  BY <1>1, Zenon DEF ReceiveMessage, BackendTypeOK
<1>3. PICK l \in Nat :
         /\ Len(s) = l + 1 /\ DOMAIN s = 1 .. l + 1 /\ Head(s) = s[1]
         /\ Len(Tail(s)) = l /\ DOMAIN Tail(s) = 1 .. l
         /\ \A i \in 1 .. l : Tail(s)[i] = s[i + 1]
  BY <1>2, TailOf, Zenon
<1>4. \A i \in 1 .. l + 1 : s[i] = low + i \/ (s[i] = EOF /\ low + i > Request)
  BY <1>1, <1>3, Zenon DEF NoGap
<1>5. /\ \A i \in 1 .. l + 1 : low < s[i] /\ s[i] <= sent[k]
      /\ \A i, j \in 1 .. l + 1 : i < j => s[i] < s[j]
  BY <1>1, <1>3, Zenon DEF InputOK
<1>6. /\ sent[k] \in Nat /\ sent[k] <= EOF /\ EOF \in Nat /\ EOF > 1
      /\ sent' = sent /\ toBackend' = toBackend /\ (Alive(k)' => Alive(k))
  BY BackendAssumption, HttpProxyAssumption
     DEF BackendTypeOK, ReceiveMessage, EOF, proxyVars, Alive
<1>7. PICK n \in Nat : n = s[1]
  BY <1>3, ElementOfSeq
<1>8. 1 \in 1 .. l + 1
  OBVIOUS
<1>9. /\ n = low + 1 \/ (n = EOF /\ low + 1 > Request)
      /\ low < n /\ n <= sent[k] /\ n <= EOF /\ low < EOF
  BY <1>4, <1>5, <1>6, <1>7, <1>8
<1>10. ASSUME NEW i \in 1 .. l
       PROVE  Tail(s)[i] = n + i \/ (Tail(s)[i] = EOF /\ n + i > Request)
  <2>1. i + 1 \in 1 .. l + 1 /\ 1 < i + 1
    OBVIOUS
  <2>2. PICK m \in Nat : m = s[i + 1]
    BY <1>3, <2>1, ElementOfSeq, Zenon
  <2>3. n < m /\ m <= sent[k] /\ (m = low + (i + 1) \/ (m = EOF /\ low + (i + 1) > Request))
    BY <1>4, <1>5, <1>7, <1>8, <2>1, <2>2, Zenon
  <2>4. n = low + 1
    BY <1>6, <1>9, <2>3
  <2>5. m = n + i \/ (m = EOF /\ n + i > Request)
    BY <2>3, <2>4 DEF Request
  <2>. QED
    BY <1>3, <2>2, <2>5, Zenon
<1>11. ASSUME Alive(k)', NEW x \in Bodies(toBackend', k) \union {sent'[k]}
       PROVE  n + l + 1 .. Upto(x) \subseteq Bodies(toBackend', k)
  <2>1. CASE n = low + 1
    <3>1. low + (l + 1) + 1 .. Upto(x) \subseteq Bodies(toBackend, k)
      BY <1>1, <1>3, <1>6, <1>11, Zenon DEF NoGap
    <3>2. n + l + 1 = low + (l + 1) + 1
      BY <2>1
    <3>. QED
      BY <1>6, <3>1, <3>2, Zenon
  <2>2. CASE n = EOF
    <3>1. x \in Nat /\ x <= sent[k]
      BY <1>6, <1>11, Queues, NatBodies DEF InputOK
    <3>2. Upto(x) \in Nat /\ Upto(x) <= EOF
      BY <1>6, <3>1 DEF Upto, Request
    <3>3. n + l + 1 .. Upto(x) = {}
      BY <1>6, <2>2, <3>2
    <3>. QED
      BY <3>3, Zenon
  <2>. QED
    BY <1>9, <2>1, <2>2, Zenon
<1>12. NoGap(k, n)'
  <2>1. /\ DOMAIN incoming'[k] = 1 .. l /\ Len(incoming'[k]) = l
        /\ \A i \in 1 .. l : incoming'[k][i] = Tail(s)[i]
    BY <1>2, <1>3, Zenon
  <2>. QED
    BY <1>10, <1>11, <2>1, Zenon DEF NoGap, Upto, EOF, Request
<1>13. n \in 0 .. MaxBodies
  BY <1>6, <1>9 DEF EOF
<1>. QED
  BY <1>1, <1>3, <1>7, <1>9, <1>12, <1>13, Zenon

--------------------------------------------------------------------------------
(* Handle and its goroutine, as steps of the record of a session.           *)

Steps == {"start", "request", "initial", "do", "header", "copy", "write", "eof", "wait",
          "signal", "done"}

\* Only the record of session k changes.
Sets(k) == http' \in [Sessions -> Handler] /\ \A i \in Sessions \ {k} : http'[i] = http[i]

\* The steps that leave the kind of the exchange, its bodies and the answer alone.
Kept(h, g) ==
    /\ g.hijack = h.hijack /\ g.sized = h.sized /\ g.produced = h.produced
    /\ g.target = h.target /\ g.complete = h.complete

Moved(h, g, step, pump) == Kept(h, g) /\ g.step = step /\ g.pump = pump

\* Handle learns the kind of the exchange.
KindSet(h, g) ==
    /\ g.step = "request" /\ g.pump = h.pump /\ g.target = h.target
    /\ g.complete = h.complete /\ g.produced = h.produced

\* The container gets a piece of the body.
TargetSet(h, g, step, target, pump) ==
    /\ g.step = step /\ g.pump = pump /\ g.target = target /\ g.complete = h.complete
    /\ g.produced = h.produced /\ g.hijack = h.hijack /\ g.sized = h.sized

\* A piece of the answer arrives.
ProducedSet(h, g, m) ==
    /\ g.step = "write" /\ g.pump = h.pump /\ g.target = h.target /\ g.complete = h.complete
    /\ g.produced = m /\ g.hijack = h.hijack /\ g.sized = h.sized

\* The transport ends the body.
CompleteSet(h, g) ==
    /\ g.step = h.step /\ g.pump = "done" /\ g.target = h.target
    /\ g.produced = h.produced /\ g.hijack = h.hijack /\ g.sized = h.sized

\* A step that sets the record of session k.
LEMMA SetHandler ==
    ASSUME http \in [Sessions -> Handler], NEW k \in Sessions, NEW g \in Handler,
           http' = [http EXCEPT ![k] = g]
    PROVE  Sets(k) /\ http'[k] = g
  BY Zenon DEF Sets

\* Steps of Handle, of the connection and of the goroutine.
LEMMA MovesTo ==
    ASSUME http \in [Sessions -> Handler], NEW k \in Sessions, NEW step \in Steps,
           NEW conn \in {"none", "open", "closed"}, NEW pump \in {"none", "read", "drain", "done"},
           http' = [http EXCEPT ![k] = [http[k] EXCEPT !.step = step, !.conn = conn, !.pump = pump]]
    PROVE  Sets(k) /\ Moved(http[k], http'[k], step, pump)
<1>1. ASSUME NEW h \in Handler
      PROVE  /\ [h EXCEPT !.step = step, !.conn = conn, !.pump = pump] \in Handler
             /\ Moved(h, [h EXCEPT !.step = step, !.conn = conn, !.pump = pump], step, pump)
  BY ZenonT(30) DEF Handler, Moved, Kept, Steps
<1>2. http[k] \in Handler
  BY Zenon
<1>. QED
  BY <1>1, <1>2, SetHandler, Zenon

\* Steps that change nothing the invariant speaks of.
LEMMA Expires ==
    ASSUME http \in [Sessions -> Handler], NEW k \in Sessions,
           http' = [http EXCEPT ![k] = [http[k] EXCEPT !.expired = TRUE]]
    PROVE  Sets(k) /\ Moved(http[k], http'[k], http[k].step, http[k].pump)
<1>1. ASSUME NEW h \in Handler
      PROVE  /\ [h EXCEPT !.expired = TRUE] \in Handler
             /\ Moved(h, [h EXCEPT !.expired = TRUE], h.step, h.pump)
  BY Zenon DEF Handler, Moved, Kept
<1>2. http[k] \in Handler
  BY Zenon
<1>. QED
  BY <1>1, <1>2, SetHandler, Zenon

\* The other ways a record changes.
LEMMA SetsKind ==
    ASSUME http \in [Sessions -> Handler], NEW k \in Sessions, NEW hijack \in BOOLEAN,
           NEW sized \in BOOLEAN,
           http' = [http EXCEPT ![k] = [http[k] EXCEPT !.step = "request", !.hijack = hijack,
                                                       !.sized = sized]]
    PROVE  Sets(k) /\ KindSet(http[k], http'[k])
<1>1. ASSUME NEW h \in Handler
      PROVE  /\ [h EXCEPT !.step = "request", !.hijack = hijack, !.sized = sized] \in Handler
             /\ KindSet(h, [h EXCEPT !.step = "request", !.hijack = hijack, !.sized = sized])
  BY Zenon DEF Handler, KindSet
<1>2. http[k] \in Handler
  BY Zenon
<1>. QED
  BY <1>1, <1>2, SetHandler, Zenon

\* A step that hands the container a piece of the body.
LEMMA SetsTarget ==
    ASSUME http \in [Sessions -> Handler], NEW k \in Sessions, NEW step \in Steps,
           NEW target \in Seq(0 .. MaxBodies), NEW pump \in {"none", "read", "drain", "done"},
           http' = [http EXCEPT ![k] = [http[k] EXCEPT !.step = step, !.target = target,
                                                       !.pump = pump]]
    PROVE  Sets(k) /\ TargetSet(http[k], http'[k], step, target, pump)
<1>1. ASSUME NEW h \in Handler
      PROVE  /\ [h EXCEPT !.step = step, !.target = target, !.pump = pump] \in Handler
             /\ TargetSet(h, [h EXCEPT !.step = step, !.target = target, !.pump = pump],
                          step, target, pump)
  BY Zenon DEF Handler, TargetSet, Steps
<1>2. http[k] \in Handler
  BY Zenon
<1>. QED
  BY <1>1, <1>2, SetHandler, Zenon

\* A step that reads a piece of the answer.
LEMMA SetsProduced ==
    ASSUME http \in [Sessions -> Handler], NEW k \in Sessions, NEW m \in 0 .. MaxReads,
           http' = [http EXCEPT ![k] = [http[k] EXCEPT !.step = "write", !.produced = m]]
    PROVE  Sets(k) /\ ProducedSet(http[k], http'[k], m)
<1>1. ASSUME NEW h \in Handler
      PROVE  /\ [h EXCEPT !.step = "write", !.produced = m] \in Handler
             /\ ProducedSet(h, [h EXCEPT !.step = "write", !.produced = m], m)
  BY Zenon DEF Handler, ProducedSet
<1>2. http[k] \in Handler
  BY Zenon
<1>. QED
  BY <1>1, <1>2, SetHandler, Zenon

\* A step that ends the body.
LEMMA SetsComplete ==
    ASSUME http \in [Sessions -> Handler], NEW k \in Sessions, NEW complete \in BOOLEAN,
           http' = [http EXCEPT ![k] = [http[k] EXCEPT !.pump = "done", !.complete = complete]]
    PROVE  Sets(k) /\ CompleteSet(http[k], http'[k])
<1>1. ASSUME NEW h \in Handler
      PROVE  /\ [h EXCEPT !.pump = "done", !.complete = complete] \in Handler
             /\ CompleteSet(h, [h EXCEPT !.pump = "done", !.complete = complete])
  BY Zenon DEF Handler, CompleteSet
<1>2. http[k] \in Handler
  BY Zenon
<1>. QED
  BY <1>1, <1>2, SetHandler, Zenon

--------------------------------------------------------------------------------
(* What the steps do to the record of a session.                            *)

\* What the handler h has done, when it has taken the messages up to low and sent out.
Part(h, low, out) == StepsOK(h, low) /\ BodyOK(h, low) /\ out \in Outs(h)

\* Steps that keep the exchange as it is.
LEMMA StepsKept ==
    ASSUME NEW h, NEW g, NEW low, StepsOK(h, low), Kept(h, g)
    PROVE  /\ g.step = h.step /\ g.pump = h.pump => StepsOK(g, low)
           /\ \A n : h.pump # "none" /\ g.step = h.step => StepsOK(g, n)
           /\ \A n : h.step = "do" /\ g.step = "header" => StepsOK(g, n)
           /\ \A n : g.step \in {"copy", "eof", "wait", "signal", "done"} => StepsOK(g, n)
<1>1. g.step = h.step /\ g.pump = h.pump => StepsOK(g, low)
  BY Zenon DEF StepsOK, Kept
<1>2. \A n : h.pump # "none" /\ g.step = h.step => StepsOK(g, n)
  BY Zenon DEF StepsOK, Kept
<1>3. \A n : h.step = "do" /\ g.step = "header" => StepsOK(g, n)
  BY Zenon DEF StepsOK, Kept
<1>4. \A n : g.step \in {"copy", "eof", "wait", "signal", "done"} => StepsOK(g, n)
  BY Zenon DEF StepsOK
<1>. QED
  BY <1>1, <1>2, <1>3, <1>4, Zenon

\* Steps that do not start to read the body.
LEMMA MovePart ==
    ASSUME NEW h \in Handler, NEW g \in Handler, NEW low, NEW n, NEW step, NEW pump,
           StepsOK(h, low), BodyOK(h, low), Moved(h, g, step, pump),
           pump = "read" => h.pump = "read" /\ n = low,
           \/ step \in {"copy", "eof", "wait", "signal", "done"}
           \/ step = "header" /\ h.step = "do"
           \/ step = h.step /\ pump = h.pump /\ n = low
           \/ step = h.step /\ h.pump # "none"
    PROVE  StepsOK(g, n) /\ BodyOK(g, n)
<1>1. BodyOK(g, n)
  BY BodySame, Zenon DEF Moved, Kept
<1>2. g.step = step /\ g.pump = pump /\ Kept(h, g)
  BY Zenon DEF Moved
<1>3. /\ g.step = h.step /\ g.pump = h.pump => StepsOK(g, low)
      /\ h.pump # "none" /\ g.step = h.step => StepsOK(g, n)
      /\ h.step = "do" /\ g.step = "header" => StepsOK(g, n)
      /\ g.step \in {"copy", "eof", "wait", "signal", "done"} => StepsOK(g, n)
  BY <1>2, StepsKept
<1>4. StepsOK(g, n)
  BY <1>2, <1>3, Zenon
<1>. QED
  BY <1>1, <1>4, Zenon

\* They leave what was sent as it is.
LEMMA MoveOuts ==
    ASSUME NEW h \in Handler, NEW g \in Handler, NEW out, NEW step, NEW pump,
           out \in Outs(h), Moved(h, g, step, pump),
           \/ step = h.step
           \/ h.step \in {"start", "request", "initial", "do"} /\
                 step \in {"request", "initial", "do", "header", "signal"}
           \/ (h.step = "copy" /\ step = "eof") \/ (h.step = "wait" /\ step = "signal")
           \/ h.step = "signal" /\ step = "done"
    PROVE  out \in Outs(g)
<1>1. g.step = step /\ Headers(g) = Headers(h) /\ g.produced = h.produced
  BY Zenon DEF Moved, Kept, Headers
<1>2. out \in OutsAt(h.step, Headers(h), h.produced)
  BY Zenon DEF Outs
<1>3. out \in OutsAt(step, Headers(h), h.produced)
  BY <1>2, Zenon DEF OutsAt
<1>. QED
  BY <1>1, <1>3, Zenon DEF Outs

\* doHttp starts an exchange.
LEMMA DoPart ==
    ASSUME NEW h \in Handler, NEW g \in Handler, NEW low, NEW out, Part(h, low, out),
           h.step = "request", ~h.hijack, Moved(h, g, "do", "read")
    PROVE  Part(g, low, out)
<1>1. g.step = "do" /\ ~g.hijack /\ g.produced = 0 /\ g.target = <<>> /\ low = Request
  BY Zenon DEF Part, Moved, Kept, StepsOK
<1>2. StepsOK(g, low)
  BY <1>1, Zenon DEF StepsOK
<1>3. BodyOK(g, low)
  BY <1>1, BodyEmpty, Zenon
<1>4. out \in Outs(g)
  BY MoveOuts, Zenon DEF Part
<1>. QED
  BY <1>2, <1>3, <1>4, Zenon DEF Part

\* doHijack writes the request.
LEMMA HijackPart ==
    ASSUME NEW h \in Handler, NEW g \in Handler, NEW low, NEW out, Part(h, low, out),
           h.step = "request", h.hijack,
           \/ h.sized /\ Moved(h, g, "initial", "none")
           \/ Moved(h, g, "copy", "read")
    PROVE  Part(g, low, out)
<1>1. /\ g.hijack /\ g.produced = 0 /\ g.target = <<>> /\ low = Request /\ ~g.complete
      /\ g.sized = h.sized
  BY Zenon DEF Part, Moved, Kept, StepsOK
<1>2. CASE h.sized /\ Moved(h, g, "initial", "none")
  <2>1. g.step = "initial" /\ g.pump = "none" /\ g.sized
    BY <1>1, <1>2, Zenon DEF Moved
  <2>2. StepsOK(g, low)
    BY <1>1, <2>1, Zenon DEF StepsOK
  <2>3. BodyOK(g, low)
    BY <1>1, BodyEmpty, Zenon
  <2>4. out \in Outs(g)
    BY <1>2, MoveOuts, Zenon DEF Part
  <2>. QED
    BY <2>2, <2>3, <2>4, Zenon DEF Part
<1>3. CASE Moved(h, g, "copy", "read")
  <2>1. g.step = "copy" /\ g.pump = "read"
    BY <1>3, Zenon DEF Moved
  <2>2. StepsOK(g, low)
    BY <1>1, <2>1, Zenon DEF StepsOK
  <2>3. BodyOK(g, low)
    BY <1>1, BodyEmpty, Zenon
  <2>4. out \in Outs(g)
    <3>1. out = <<>>
      BY Zenon DEF Part, Outs, OutsAt
    <3>2. Headers(g) = 0
      BY <1>1, Zenon DEF Headers
    <3>3. Pieces(0, 0) = <<>>
      BY NoPieces, Zenon
    <3>4. <<>> \in OutsAt("copy", 0, 0)
      BY <3>3, Zenon DEF OutsAt
    <3>. QED
      BY <1>1, <2>1, <3>1, <3>2, <3>4, Zenon DEF Outs
  <2>. QED
    BY <2>2, <2>3, <2>4, Zenon DEF Part
<1>. QED
  BY <1>2, <1>3, Zenon

\* The request is read.
LEMMA KindPart ==
    ASSUME NEW h \in Handler, NEW g \in Handler, NEW low, NEW out, Part(h, low, out),
           h.step = "start", KindSet(h, g)
    PROVE  Part(g, Request, out)
<1>1. /\ g.step = "request" /\ g.pump = "none" /\ g.target = <<>> /\ ~g.complete
      /\ g.produced = 0
  BY Zenon DEF Part, StepsOK, KindSet
<1>2. StepsOK(g, Request)
  BY <1>1, Zenon DEF StepsOK
<1>3. BodyOK(g, Request)
  BY <1>1, BodyEmpty, Zenon
<1>4. out = <<>>
  BY Zenon DEF Part, Outs, OutsAt
<1>5. <<>> \in OutsAt("request", Headers(g), g.produced)
  BY Zenon DEF OutsAt
<1>. QED
  BY <1>1, <1>2, <1>3, <1>4, <1>5, Zenon DEF Part, Outs

\* doHijack sends the first piece of the body with the request.
LEMMA InitialPart ==
    ASSUME NEW h \in Handler, NEW g \in Handler, NEW low, NEW out, NEW n, NEW target, NEW pump,
           Part(h, low, out), h.step = "initial", TargetSet(h, g, "copy", target, pump),
           \/ target = <<Padding>> /\ (pump = "read" => n = 1)
           \/ target \in {<< 2 >>, <<2, Padding>>} /\ n = 2
    PROVE  Part(g, n, out)
<1>1. /\ g.step = "copy" /\ g.pump = pump /\ g.target = target /\ g.produced = 0
      /\ g.hijack /\ g.sized
  BY Zenon DEF Part, StepsOK, TargetSet
<1>2. StepsOK(g, n)
  BY <1>1, Zenon DEF StepsOK
<1>3. BodyOK(g, n)
  BY <1>1, BodyFirst, Zenon
<1>4. out \in Outs(g)
  <2>1. out = <<>>
    BY Zenon DEF Part, Outs, OutsAt
  <2>2. Headers(g) = 0
    BY <1>1, Zenon DEF Headers
  <2>3. Pieces(0, 0) = <<>>
    BY NoPieces, Zenon
  <2>4. <<>> \in OutsAt("copy", 0, 0)
    BY <2>3, Zenon DEF OutsAt
  <2>. QED
    BY <1>1, <2>1, <2>2, <2>4, Zenon DEF Outs
<1>. QED
  BY <1>2, <1>3, <1>4, Zenon DEF Part

\* The goroutine passes on the next piece of the body.
LEMMA GrowPart ==
    ASSUME NEW h \in Handler, NEW g \in Handler, NEW low \in Nat, NEW out,
           NEW n \in 0 .. MaxBodies, n = low + 1, NEW target, target = Append(h.target, n),
           Part(h, low, out), h.pump = "read", TargetSet(h, g, h.step, target, "read")
    PROVE  Part(g, n, out)
<1>1. /\ g.step = h.step /\ g.target = target /\ g.hijack = h.hijack
      /\ g.sized = h.sized /\ g.produced = h.produced
  BY Zenon DEF TargetSet
<1>2. StepsOK(g, n)
  BY <1>1, Zenon DEF StepsOK, Part
<1>3. h.target \in Seq(0 .. MaxBodies)
  BY Zenon DEF Handler
<1>4. BodyOK(g, n)
  BY <1>1, <1>3, BodyGrows, Zenon DEF Part
<1>5. out \in Outs(g)
  BY <1>1, Zenon DEF Part, Outs, Headers
<1>. QED
  BY <1>2, <1>4, <1>5, Zenon DEF Part

\* A piece of the answer has arrived, and is not sent yet.
LEMMA ProducedPart ==
    ASSUME NEW h \in Handler, NEW g \in Handler, NEW low, NEW out, Part(h, low, out),
           h.step = "copy", NEW m \in Nat, m = h.produced + 1, ProducedSet(h, g, m)
    PROVE  Part(g, low, out)
<1>1. /\ g.step = "write" /\ g.pump = h.pump /\ g.target = h.target /\ g.hijack = h.hijack
      /\ g.sized = h.sized /\ g.produced = m
  BY Zenon DEF ProducedSet
<1>2. m > 0 /\ m - 1 = h.produced
  BY DEF Handler
<1>3. StepsOK(g, low)
  BY <1>1, <1>2, Zenon DEF StepsOK
<1>4. BodyOK(g, low)
  BY <1>1, BodySame, Zenon DEF Part
<1>5. Headers(g) = Headers(h)
  BY <1>1, Zenon DEF Headers
<1>6. out = Pieces(Headers(h), h.produced)
  BY Zenon DEF Part, Outs, OutsAt
<1>7. OutsAt("write", Headers(h), m) = {Pieces(Headers(h), m - 1)}
  BY Zenon DEF OutsAt
<1>8. out \in Outs(g)
  BY <1>1, <1>2, <1>5, <1>6, <1>7, Zenon DEF Outs
<1>. QED
  BY <1>3, <1>4, <1>8, Zenon DEF Part

\* The transport has read the body to its end.
LEMMA CompletePart ==
    ASSUME NEW h \in Handler, NEW g \in Handler, NEW low, NEW out, Part(h, low, out),
           h.pump = "read", CompleteSet(h, g), NEW n
    PROVE  Part(g, n, out)
<1>1. /\ g.step = h.step /\ g.pump = "done" /\ g.target = h.target /\ g.hijack = h.hijack
      /\ g.sized = h.sized /\ g.produced = h.produced
  BY Zenon DEF CompleteSet
<1>2. StepsOK(g, n)
  BY <1>1, Zenon DEF StepsOK, Part
<1>3. BodyOK(g, n)
  BY <1>1, BodySame, Zenon DEF Part
<1>4. out \in Outs(g)
  BY <1>1, Zenon DEF Part, Outs, Headers
<1>. QED
  BY <1>2, <1>3, <1>4, Zenon DEF Part

\* The header, a piece and the EOF are sent.
LEMMA SentPart ==
    ASSUME NEW h \in Handler, NEW g \in Handler, NEW low, NEW out, Part(h, low, out)
    PROVE  /\ h.step = "header" /\ Moved(h, g, "copy", h.pump) => Part(g, low, Append(out, Header))
           /\ h.step = "write" /\ Moved(h, g, "copy", h.pump) => Part(g, low, Append(out, h.produced))
           /\ \A step \in {"wait", "signal"} :
                 h.step = "eof" /\ Moved(h, g, step, h.pump) => Part(g, low, Append(out, ResponseEOF))
<1>1. h.produced \in Nat /\ Headers(h) \in 0 .. 1
  BY DEF Handler, Headers
<1>2. \A step : Moved(h, g, step, h.pump) =>
         g.step = step /\ Headers(g) = Headers(h) /\ g.produced = h.produced
  BY Zenon DEF Moved, Kept, Headers
<1>3. \A step \in {"copy", "wait", "signal"} :
         Moved(h, g, step, h.pump) => StepsOK(g, low) /\ BodyOK(g, low)
  BY MovePart, Zenon DEF Part
<1>4. ASSUME h.step = "header", Moved(h, g, "copy", h.pump)
      PROVE  Part(g, low, Append(out, Header))
  <2>1. out = <<>>
    BY <1>4, Zenon DEF Part, Outs, OutsAt
  <2>2. h.produced = 0 /\ Headers(h) = 1
    BY <1>4, Zenon DEF Part, StepsOK, Headers
  <2>3. Append(<<>>, Header) = Pieces(1, 0)
    BY NoPieces, Zenon DEF Header
  <2>4. OutsAt("copy", 1, 0) = {Pieces(1, 0)}
    BY Zenon DEF OutsAt
  <2>5. Append(out, Header) \in Outs(g)
    BY <1>2, <1>4, <2>1, <2>2, <2>3, <2>4, Zenon DEF Outs
  <2>. QED
    BY <1>3, <1>4, <2>5, Zenon DEF Part
<1>5. ASSUME h.step = "write", Moved(h, g, "copy", h.pump)
      PROVE  Part(g, low, Append(out, h.produced))
  <2>1. out = Pieces(Headers(h), h.produced - 1)
    BY <1>5, Zenon DEF Part, Outs, OutsAt
  <2>2. h.produced > 0
    BY <1>5, Zenon DEF Part, StepsOK
  <2>3. PICK m \in Nat : h.produced = m + 1 /\ m = h.produced - 1
    BY <1>1, <2>2
  <2>4. Append(Pieces(Headers(h), m), m + 1) = Pieces(Headers(h), m + 1)
    BY <1>1, PiecesTo, Zenon
  <2>5. OutsAt("copy", Headers(h), h.produced) = {Pieces(Headers(h), h.produced)}
    BY Zenon DEF OutsAt
  <2>6. Append(out, h.produced) \in Outs(g)
    BY <1>2, <1>5, <2>1, <2>3, <2>4, <2>5, Zenon DEF Outs
  <2>. QED
    BY <1>3, <1>5, <2>6, Zenon DEF Part
<1>6. ASSUME NEW step \in {"wait", "signal"}, h.step = "eof", Moved(h, g, step, h.pump)
      PROVE  Part(g, low, Append(out, ResponseEOF))
  <2>1. out = Pieces(Headers(h), h.produced)
    BY <1>6, Zenon DEF Part, Outs, OutsAt
  <2>2. Append(out, ResponseEOF) = Whole(Headers(h), h.produced)
    BY <2>1, Zenon DEF Whole
  <2>3. Whole(Headers(h), h.produced) \in OutsAt(step, Headers(h), h.produced)
    BY <1>6, Zenon DEF OutsAt
  <2>4. Append(out, ResponseEOF) \in Outs(g)
    BY <1>2, <1>6, <2>2, <2>3, Zenon DEF Outs
  <2>. QED
    BY <1>3, <1>6, <2>4, Zenon DEF Part
<1>. QED
  BY <1>4, <1>5, <1>6, Zenon

\* What was sent counts up, and is below what is sent next.
LEMMA OutsRise ==
    ASSUME NEW h \in Handler, NEW low, NEW out, Part(h, low, out)
    PROVE  /\ out \in Seq(Nat) /\ Rising(out)
           /\ \A i \in DOMAIN out : out[i] <= ResponseEOF
           /\ h.step = "header" => \A i \in DOMAIN out : out[i] < Header
           /\ h.step = "write" => \A i \in DOMAIN out : out[i] < h.produced
           /\ h.step = "eof" => \A i \in DOMAIN out : out[i] < ResponseEOF
<1>1. PICK m \in 0 .. MaxReads : m = h.produced
  BY Zenon DEF Handler
<1>2. PICK header \in 0 .. 1 : header = Headers(h)
  BY DEF Headers
<1>3. m \in Nat /\ ResponseEOF \in Nat /\ m < ResponseEOF
  BY HttpProxyAssumption DEF ResponseEOF
<1>4. out \in OutsAt(h.step, header, m)
  BY <1>1, <1>2, Zenon DEF Part, Outs
<1>5. CASE out = <<>>
  BY <1>5 DEF Rising
<1>6. CASE h.step \in {"copy", "eof"} /\ out = Pieces(header, m)
  <2>1. /\ Pieces(header, m) \in Seq(Nat) /\ Rising(Pieces(header, m))
        /\ \A i \in DOMAIN Pieces(header, m) :
              Pieces(header, m)[i] < m + 1 /\ Pieces(header, m)[i] \in Nat
    BY <1>3, PiecesTo, Zenon
  <2>2. \A i \in DOMAIN out : out[i] < ResponseEOF /\ out[i] <= ResponseEOF
    BY <1>3, <1>6, <2>1
  <2>. QED
    BY <1>6, <2>1, <2>2, Zenon
<1>7. CASE h.step = "write" /\ out = Pieces(header, m - 1)
  <2>1. m > 0
    BY <1>1, <1>7, Zenon DEF Part, StepsOK
  <2>2. PICK l \in Nat : l = m - 1 /\ m = l + 1
    BY <1>3, <2>1
  <2>3. /\ Pieces(header, l) \in Seq(Nat) /\ Rising(Pieces(header, l))
        /\ \A i \in DOMAIN Pieces(header, l) :
              Pieces(header, l)[i] < l + 1 /\ Pieces(header, l)[i] \in Nat
    BY PiecesTo, Zenon
  <2>4. out = Pieces(header, l)
    BY <1>7, <2>2, Zenon
  <2>5. \A i \in DOMAIN out : out[i] < m /\ out[i] <= ResponseEOF
    BY <1>3, <2>2, <2>3, <2>4
  <2>. QED
    BY <1>1, <1>7, <2>3, <2>4, <2>5, Zenon
<1>8. CASE h.step \in {"wait", "signal", "done"} /\ out = Whole(header, m)
  <2>1. PICK s \in Seq(Nat) :
           /\ s = Pieces(header, m) /\ Rising(s)
           /\ \A i \in DOMAIN s : s[i] < m + 1 /\ s[i] \in Nat
    BY <1>3, PiecesTo, Zenon
  <2>2. Whole(header, m) = Append(s, ResponseEOF)
    BY <2>1, Zenon DEF Whole
  <2>3. PICK l \in Nat : l = Len(s) /\ DOMAIN s = 1 .. l
    BY LenProperties, Zenon
  <2>4. \A i \in 1 .. l : s[i] \in Nat /\ s[i] < m + 1
    BY <2>1, <2>3, Zenon
  <2>0. \A i \in 1 .. l : s[i] < ResponseEOF /\ s[i] <= ResponseEOF
    BY <1>3, <2>4
  <2>5. PICK t \in Seq(Nat) : t = Append(s, ResponseEOF)
    BY <1>3, AppendProperties, Zenon
  <2>6. /\ DOMAIN t = 1 .. l + 1 /\ t[l + 1] = ResponseEOF
        /\ \A i \in 1 .. l : t[i] = s[i]
    BY <1>3, <2>3, <2>5, AppendProperties, LenProperties
  <2>7. \A i \in 1 .. l + 1 : i \in 1 .. l \/ i = l + 1
    OBVIOUS
  <2>8. \A i \in DOMAIN t : t[i] <= ResponseEOF
    BY <1>3, <2>0, <2>6, <2>7
  <2>9. \A i, j \in 1 .. l : i < j => t[i] < t[j]
    BY <2>1, <2>3, <2>6, Zenon DEF Rising
  <2>10. \A i, j \in 1 .. l + 1 : i < j => t[i] < t[j]
    <3>1. ASSUME NEW i \in 1 .. l + 1, NEW j \in 1 .. l + 1, i < j PROVE t[i] < t[j]
      <4>1. i \in 1 .. l
        BY <3>1
      <4>2. CASE j \in 1 .. l
        BY <2>9, <3>1, <4>1, <4>2, Zenon
      <4>3. CASE j = l + 1
        BY <2>0, <2>6, <4>1, <4>3, Zenon
      <4>. QED
        BY <2>7, <4>2, <4>3, Zenon
    <3>. QED
      BY <3>1, Zenon
  <2>11. Rising(t)
    BY <2>6, <2>10, Zenon DEF Rising
  <2>12. out = t
    BY <1>8, <2>2, <2>5, Zenon
  <2>. QED
    BY <1>8, <2>8, <2>11, <2>12, Zenon
<1>. QED
  BY <1>4, <1>5, <1>6, <1>7, <1>8, Zenon DEF OutsAt

--------------------------------------------------------------------------------
(* The steps of a session keep its invariant.                               *)

\* A state of a session whose handler runs.
LEMMA RunningHttp ==
    ASSUME NEW k \in Sessions, NEW low \in Nat, low <= sent'[k], sent'[k] \in Nat, NEW out,
           NEW done \in BOOLEAN, NEW p, done = (http'[k].step = "done"), p = Last(http'[k]),
           StreamOK(k, low, out, done, p)', NoGap(k, low)', Part(http'[k], low, out),
           k \in handled', http'[k].complete => low = EOF \/ k \in chanClosed'
    PROVE  SomeHttp(k)'
<1>1. low \in 0 .. sent'[k]
  OBVIOUS
<1>2. HandlerOK(k, low)'
  BY Zenon DEF HandlerOK, Part, StepsOK, BodyOK, Padded, Length, EOF, Body, Request, Padding
<1>3. out \in Outs(http'[k])
  BY Zenon DEF Part
<1>4. HttpOK(k, low, out, done, p)'
  BY <1>2, <1>3, Zenon DEF HttpOK
<1>. QED
  BY <1>1, <1>3, <1>4, Zenon DEF SomeHttp

\* The types of what the invariant speaks of.
LEMMA HttpTyped ==
    ASSUME HttpType, NEW k \in Sessions, NEW low \in 0 .. sent[k], NEW done, NEW out, NEW p,
           HttpOK(k, low, out, done, p)
    PROVE  /\ BackendTypeOK /\ sent[k] \in Nat /\ low \in Nat /\ low <= sent[k] /\ p \in Nat
           /\ http[k] \in Handler /\ Part(http[k], low, out) /\ out \in Seq(Nat) /\ Rising(out)
<1>1. BackendTypeOK /\ http[k] \in Handler
  BY Zenon DEF HttpType
<1>2. sent[k] \in Nat
  BY <1>1 DEF BackendTypeOK
<1>3. low \in Nat /\ low <= sent[k]
  BY <1>2
<1>4. p = 0 \/ p = ResponseEOF + 1
  BY Zenon DEF HttpOK, Last
<1>5. ResponseEOF + 1 \in Nat /\ 0 \in Nat
  BY HttpProxyAssumption DEF ResponseEOF
<1>6. Part(http[k], low, out)
  BY Zenon DEF HttpOK, HandlerOK, Part
<1>7. out \in Seq(Nat) /\ Rising(out)
  BY <1>1, <1>6, OutsRise, Zenon
<1>. QED
  BY <1>1, <1>2, <1>3, <1>4, <1>5, <1>6, <1>7, Zenon

\* Steps that use neither channel.
LEMMA QuietKeeps ==
    ASSUME HttpType, NEW k \in Sessions, NEW low \in 0 .. sent[k], NEW done \in BOOLEAN,
           NEW out, NEW p, HttpOK(k, low, out, done, p), UNCHANGED backendVars, k \in handled,
           Part(http'[k], low, out), http'[k].step = "done" <=> http[k].step = "done",
           http'[k].complete => http[k].complete \/ k \in chanClosed
    PROVE  SomeHttp(k)'
<1>1. BackendTypeOK /\ sent[k] \in Nat /\ low \in Nat /\ low <= sent[k]
  BY HttpTyped, Zenon
<1>2. SameView(k)
  BY <1>1, OtherSession, Zenon
<1>3. StreamOK(k, low, out, done, p)' /\ NoGap(k, low)'
  BY <1>2, SameViewKeeps, GapView, Zenon DEF HttpOK
<1>4. done = (http'[k].step = "done") /\ p = Last(http'[k])
  BY Zenon DEF HttpOK, Last
<1>5. http'[k].complete => low = EOF \/ k \in chanClosed
  BY Zenon DEF HttpOK, HandlerOK
<1>6. sent' = sent /\ handled' = handled /\ chanClosed' = chanClosed
  BY Zenon DEF backendVars, proxyVars, routeVars
<1>. QED
  BY <1>1, <1>3, <1>4, <1>5, <1>6, RunningHttp, Zenon

\* Steps that take the next message.
LEMMA TakeKeeps ==
    ASSUME HttpType, NEW k \in Sessions, NEW low \in 0 .. sent[k], NEW done \in BOOLEAN,
           NEW out, NEW p, HttpOK(k, low, out, done, p), ReceiveMessage(k), k \in handled,
           NEW n, n = Head(incoming[k]), NoGap(k, n)', low < EOF,
           Part(http'[k], n, out), http'[k].step = "done" <=> http[k].step = "done",
           http'[k].complete => http[k].complete \/ n = EOF
    PROVE  SomeHttp(k)'
<1>1. BackendTypeOK /\ sent[k] \in Nat /\ low \in Nat /\ low <= sent[k] /\ p \in Nat
  BY HttpTyped, Zenon
<1>2. out \in Seq(Nat)
  BY HttpTyped, Zenon
<1>3. n \in Nat /\ n <= sent[k] /\ StreamOK(k, n, out, done, p)'
  <2>1. StreamOK(k, low, out, done, p)
    BY Zenon DEF HttpOK
  <2>2. /\ Head(incoming[k]) \in Nat /\ Head(incoming[k]) <= sent[k]
        /\ \A m \in Nat : m <= Head(incoming[k]) => StreamOK(k, m, out, done, p)'
    BY <1>1, <1>2, <2>1, ReceiveStep, Zenon
  <2>3. n \in Nat /\ n <= sent[k] /\ n <= n
    BY <2>2
  <2>. QED
    BY <2>2, <2>3, Zenon
<1>4. done = (http'[k].step = "done") /\ p = Last(http'[k])
  BY Zenon DEF HttpOK, Last
<1>5. http'[k].complete => n = EOF \/ k \in chanClosed
  <2>1. http[k].complete => low = EOF \/ k \in chanClosed
    BY Zenon DEF HttpOK, HandlerOK
  <2>2. low # EOF
    BY <1>1
  <2>. QED
    BY <2>1, <2>2, Zenon
<1>6. sent' = sent /\ handled' = handled /\ chanClosed' = chanClosed
  BY Zenon DEF ReceiveMessage, proxyVars
<1>. QED
  BY <1>1, <1>3, <1>4, <1>5, <1>6, RunningHttp, Zenon

\* Steps that send the next message of the answer.
LEMMA SendKeeps ==
    ASSUME HttpType, NEW k \in Sessions, NEW low \in 0 .. sent[k], NEW done \in BOOLEAN,
           NEW out, NEW p, HttpOK(k, low, out, done, p), NEW n \in Nat,
           SendResponse(k, "Body", n), k \in handled, http[k].step # "done",
           \A i \in DOMAIN out : out[i] < n,
           Part(http'[k], low, Append(out, n)), http'[k].step # "done",
           http'[k].complete = http[k].complete
    PROVE  SomeHttp(k)'
<1>1. BackendTypeOK /\ sent[k] \in Nat /\ low \in Nat /\ low <= sent[k] /\ p \in Nat
  BY HttpTyped, Zenon
<1>2. out \in Seq(Nat)
  BY HttpTyped, Zenon
<1>3. /\ ~done /\ ~(http'[k].step = "done")
      /\ done = (http'[k].step = "done") /\ p = Last(http'[k])
  BY Zenon DEF HttpOK, Last
<1>4. StreamOK(k, low, Append(out, n), done, p)'
  <2>1. StreamOK(k, low, out, done, p)
    BY Zenon DEF HttpOK
  <2>. QED
    BY <1>1, <1>2, <1>3, <2>1, SendStep, Zenon
<1>5. sent' = sent /\ handled' = handled /\ chanClosed' = chanClosed
  BY Zenon DEF SendResponse, proxyVars, routeVars
<1>6. NoGap(k, low)'
  <2>1. /\ incoming' = incoming /\ toBackend' = toBackend /\ responders' = responders
        /\ client' = client
    BY Zenon DEF SendResponse, proxyVars, routeVars
  <2>2. Alive(k)' => Alive(k)
    BY <2>1, Zenon DEF Alive
  <2>3. NoGap(k, low)
    BY Zenon DEF HttpOK
  <2>. QED
    BY <1>5, <2>1, <2>2, <2>3, GapSame, Zenon
<1>7. http'[k].complete => low = EOF \/ k \in chanClosed
  BY Zenon DEF HttpOK, HandlerOK
<1>. QED
  BY <1>1, <1>3, <1>4, <1>5, <1>6, <1>7, RunningHttp, Zenon

\* SignalHandlerClosed.
LEMMA SignalKeeps ==
    ASSUME HttpType, NEW k \in Sessions, NEW low \in 0 .. sent[k], NEW done \in BOOLEAN,
           NEW out, NEW p, HttpOK(k, low, out, done, p), SendResponse(k, "Close", 0),
           k \in handled, http[k].step # "done", Part(http'[k], low, out),
           http'[k].step = "done", http'[k].complete = http[k].complete
    PROVE  SomeHttp(k)'
<1>1. BackendTypeOK /\ sent[k] \in Nat /\ low \in Nat /\ low <= sent[k] /\ p \in Nat
  BY HttpTyped, Zenon
<1>2. out \in Seq(Nat)
  BY HttpTyped, Zenon
<1>3. TRUE = (http'[k].step = "done") /\ Last(http'[k]) = ResponseEOF + 1
  BY Zenon DEF Last
<1>4. PICK q \in Nat : q = ResponseEOF + 1
  BY HttpProxyAssumption DEF ResponseEOF
<1>5. StreamOK(k, low, out, TRUE, q)'
  <2>1. StreamOK(k, low, out, FALSE, p)
    <3>1. done = FALSE /\ StreamOK(k, low, out, done, p)
      BY Zenon DEF HttpOK
    <3>. QED
      BY <3>1, Zenon
  <2>. QED
    BY <1>1, <1>2, <2>1, SignalStep, Zenon
<1>6. sent' = sent /\ handled' = handled /\ chanClosed' = chanClosed
  BY Zenon DEF SendResponse, proxyVars, routeVars
<1>7. NoGap(k, low)'
  <2>1. /\ incoming' = incoming /\ toBackend' = toBackend /\ responders' = responders
        /\ client' = client
    BY Zenon DEF SendResponse, proxyVars, routeVars
  <2>2. Alive(k)' => Alive(k)
    BY <2>1, Zenon DEF Alive
  <2>3. NoGap(k, low)
    BY Zenon DEF HttpOK
  <2>. QED
    BY <1>6, <2>1, <2>2, <2>3, GapSame, Zenon
<1>8. http'[k].complete => low = EOF \/ k \in chanClosed
  BY Zenon DEF HttpOK, HandlerOK
<1>9. q = Last(http'[k]) /\ TRUE \in BOOLEAN
  BY <1>3, <1>4, Zenon
<1>. QED
  BY <1>1, <1>3, <1>5, <1>6, <1>7, <1>8, <1>9, RunningHttp, Zenon

\* The steps that neither start the exchange nor change its bodies or its answer.
Allowed(h, step, pump) ==
    \/ step = "signal" /\ h.step \in {"start", "request", "initial", "do", "wait"} /\ pump = h.pump
    \/ step = "header" /\ h.step = "do" /\ pump = h.pump
    \/ step = "eof" /\ h.step = "copy" /\ pump = h.pump
    \/ step = h.step /\ pump = h.pump
    \/ step = h.step /\ h.pump # "none" /\ pump # "read"

\* They keep the handler's part of the invariant.
LEMMA AllowedPart ==
    ASSUME NEW h \in Handler, NEW g \in Handler, NEW low, NEW out, NEW step, NEW pump,
           Part(h, low, out), Allowed(h, step, pump), Moved(h, g, step, pump)
    PROVE  /\ Part(g, low, out) /\ g.complete = h.complete
           /\ g.step = "done" <=> h.step = "done"
<1>1. out \in Outs(g)
  BY MoveOuts, Zenon DEF Allowed, Part
<1>2. StepsOK(g, low) /\ BodyOK(g, low)
  BY MovePart, Zenon DEF Allowed, Part
<1>3. g.complete = h.complete /\ g.step = step
  BY Zenon DEF Moved, Kept
<1>4. step = "done" <=> h.step = "done"
  BY Zenon DEF Allowed
<1>. QED
  BY <1>1, <1>2, <1>3, <1>4, Zenon DEF Part

\* A handler that does not read the body any more may take any message.
LEMMA TakenPart ==
    ASSUME NEW h \in Handler, NEW g \in Handler, NEW low, NEW out, NEW step, NEW pump,
           Part(h, low, out), Allowed(h, step, pump), Moved(h, g, step, pump),
           pump # "read", step = "signal" \/ h.pump # "none", NEW n
    PROVE  Part(g, n, out)
<1>1. out \in Outs(g)
  BY MoveOuts, Zenon DEF Allowed, Part
<1>2. \/ step \in {"copy", "eof", "wait", "signal", "done"}
      \/ step = "header" /\ h.step = "do"
      \/ step = h.step /\ h.pump # "none"
  BY Zenon DEF Allowed
<1>3. StepsOK(g, n) /\ BodyOK(g, n)
  BY <1>2, MovePart, Zenon DEF Part
<1>. QED
  BY <1>1, <1>3, Zenon DEF Part

\* Such a step, when it uses neither channel.
LEMMA QuietMove ==
    ASSUME HttpType, NEW k \in Sessions, NEW low \in 0 .. sent[k], NEW done \in BOOLEAN,
           NEW out, NEW p, HttpOK(k, low, out, done, p), UNCHANGED backendVars, k \in handled,
           NEW step, NEW pump, Sets(k), Moved(http[k], http'[k], step, pump),
           Allowed(http[k], step, pump)
    PROVE  SomeHttp(k)'
<1>1. http[k] \in Handler /\ Part(http[k], low, out)
  BY HttpTyped, Zenon
<1>2. http'[k] \in Handler
  BY Zenon DEF Sets
<1>3. /\ Part(http'[k], low, out) /\ http'[k].complete = http[k].complete
      /\ http'[k].step = "done" <=> http[k].step = "done"
  BY <1>1, <1>2, AllowedPart, Zenon
<1>. QED
  BY <1>3, QuietKeeps, Zenon

\* Such a step, when it takes a message that nobody reads on from.
LEMMA TakeMove ==
    ASSUME HttpType, NEW k \in Sessions, NEW low \in 0 .. sent[k], NEW done \in BOOLEAN,
           NEW out, NEW p, HttpOK(k, low, out, done, p), ReceiveMessage(k), k \in handled,
           NEW step, NEW pump, Sets(k), Moved(http[k], http'[k], step, pump),
           Allowed(http[k], step, pump), pump # "read", step = "signal" \/ http[k].pump # "none"
    PROVE  SomeHttp(k)'
<1>1. http[k] \in Handler /\ Part(http[k], low, out) /\ BackendTypeOK /\ low \in Nat
  BY HttpTyped, Zenon
<1>2. http'[k] \in Handler
  BY Zenon DEF Sets
<1>3. PICK n \in 0 .. MaxBodies : n = Head(incoming[k]) /\ low < EOF /\ NoGap(k, n)'
  <2>1. InputOK(k, low) /\ NoGap(k, low)
    BY Zenon DEF HttpOK, StreamOK
  <2>. QED
    BY <1>1, <2>1, GapReceive, Zenon
<1>4. Part(http'[k], n, out)
  BY <1>1, <1>2, TakenPart, Zenon
<1>5. /\ http'[k].complete = http[k].complete
      /\ http'[k].step = "done" <=> http[k].step = "done"
  BY <1>1, <1>2, AllowedPart, Zenon
<1>. QED
  BY <1>3, <1>4, <1>5, TakeKeeps, Zenon

\* The session of a handler that has begun was started by the read loop.
LEMMA BegunHandled ==
    ASSUME NEW k \in Sessions, NEW low, NEW out, NEW done, NEW p, HttpOK(k, low, out, done, p),
           http[k].step # "start" \/ http[k].pump # "none"
    PROVE  k \in handled
  BY Zenon DEF HttpOK, HandlerOK, StepsOK

\* Handle's steps that use neither channel, and the timer.
LEMMA HandleMoves ==
    ASSUME HttpType, NEW k \in Sessions, NEW low \in 0 .. sent[k], NEW done \in BOOLEAN,
           NEW out, NEW p, HttpOK(k, low, out, done, p),
           Reject(k) \/ Expire(k) \/ DoFails(k) \/ Answer(k) \/ ReadEnds(k) \/ Wait(k)
    PROVE  Sets(k) /\ SomeHttp(k)'
<1>1. http[k] \in Handler /\ http \in [Sessions -> Handler]
  BY Zenon DEF HttpType
<1>2. PICK conn \in {"none", "open", "closed"} : conn = http[k].conn
  BY <1>1, Zenon DEF Handler
<1>3. PICK pump \in {"none", "read", "drain", "done"} : pump = http[k].pump
  BY <1>1, Zenon DEF Handler
<1>4. http[k].step \in Steps
  BY <1>1, Zenon DEF Handler, Steps
<1>5. CASE Reject(k)
  <2>1. http' = [http EXCEPT ![k] = [http[k] EXCEPT !.step = "signal", !.conn = http[k].conn,
                                                    !.pump = http[k].pump]]
    BY <1>1, <1>5, Zenon DEF Reject, Handler
  <2>2. Sets(k) /\ Moved(http[k], http'[k], "signal", pump)
    BY <1>1, <1>2, <1>3, <2>1, MovesTo, Zenon DEF Steps
  <2>3. Allowed(http[k], "signal", pump) /\ http[k].step # "start" /\ UNCHANGED backendVars
    BY <1>3, <1>5, Zenon DEF Reject, Allowed
  <2>. QED
    BY <2>2, <2>3, BegunHandled, QuietMove, Zenon
<1>6. CASE Expire(k)
  <2>1. http' = [http EXCEPT ![k] = [http[k] EXCEPT !.expired = TRUE]]
    BY <1>6, Zenon DEF Expire
  <2>2. Sets(k) /\ Moved(http[k], http'[k], http[k].step, http[k].pump)
    BY <1>1, <2>1, Expires, Zenon
  <2>3. /\ Allowed(http[k], http[k].step, http[k].pump) /\ http[k].step # "start"
        /\ UNCHANGED backendVars
    BY <1>6, Zenon DEF Expire, Allowed
  <2>. QED
    BY <2>2, <2>3, BegunHandled, QuietMove, Zenon
<1>7. CASE DoFails(k)
  <2>1. http' = [http EXCEPT ![k] = [http[k] EXCEPT !.step = "signal", !.conn = "closed",
                                                    !.pump = http[k].pump]]
    BY <1>1, <1>7, Zenon DEF DoFails, Handler
  <2>2. Sets(k) /\ Moved(http[k], http'[k], "signal", pump)
    BY <1>1, <1>3, <2>1, MovesTo, Zenon DEF Steps
  <2>3. Allowed(http[k], "signal", pump) /\ http[k].step # "start" /\ UNCHANGED backendVars
    BY <1>3, <1>7, Zenon DEF DoFails, Allowed
  <2>. QED
    BY <2>2, <2>3, BegunHandled, QuietMove, Zenon
<1>8. CASE Answer(k)
  <2>1. http' = [http EXCEPT ![k] = [http[k] EXCEPT !.step = "header", !.conn = http[k].conn,
                                                    !.pump = http[k].pump]]
    BY <1>1, <1>8, Zenon DEF Answer, Handler
  <2>2. Sets(k) /\ Moved(http[k], http'[k], "header", pump)
    BY <1>1, <1>2, <1>3, <2>1, MovesTo, Zenon DEF Steps
  <2>3. Allowed(http[k], "header", pump) /\ http[k].step # "start" /\ UNCHANGED backendVars
    BY <1>3, <1>8, Zenon DEF Answer, Allowed
  <2>. QED
    BY <2>2, <2>3, BegunHandled, QuietMove, Zenon
<1>9. CASE ReadEnds(k)
  <2>1. PICK c \in {"none", "open", "closed"} :
           c = IF http[k].hijack THEN http[k].conn ELSE "closed"
    BY <1>2, Zenon
  <2>2. http' = [http EXCEPT ![k] = [http[k] EXCEPT !.step = "eof", !.conn = c,
                                                    !.pump = http[k].pump]]
    BY <1>1, <1>9, <2>1, Zenon DEF ReadEnds, Handler
  <2>3. Sets(k) /\ Moved(http[k], http'[k], "eof", pump)
    BY <1>1, <1>3, <2>2, MovesTo, ZenonT(30) DEF Steps
  <2>4. Allowed(http[k], "eof", pump) /\ http[k].step # "start" /\ UNCHANGED backendVars
    BY <1>3, <1>9, Zenon DEF ReadEnds, Allowed
  <2>. QED
    BY <2>3, <2>4, BegunHandled, QuietMove, Zenon
<1>10. CASE Wait(k)
  <2>1. http' = [http EXCEPT ![k] = [http[k] EXCEPT !.step = "signal", !.conn = http[k].conn,
                                                    !.pump = http[k].pump]]
    BY <1>1, <1>10, ZenonT(30) DEF Wait, Handler
  <2>2. Sets(k) /\ Moved(http[k], http'[k], "signal", pump)
    BY <1>1, <1>2, <1>3, <2>1, MovesTo, Zenon DEF Steps
  <2>3. Allowed(http[k], "signal", pump) /\ http[k].step # "start" /\ UNCHANGED backendVars
    BY <1>3, <1>10, Zenon DEF Wait, Allowed
  <2>. QED
    BY <2>2, <2>3, BegunHandled, QuietMove, Zenon
<1>. QED
  BY <1>5, <1>6, <1>7, <1>8, <1>9, <1>10, Zenon

\* What the handler takes from its channel.
LEMMA TakesNext ==
    ASSUME HttpType, NEW k \in Sessions, NEW low \in 0 .. sent[k], NEW done, NEW out, NEW p,
           HttpOK(k, low, out, done, p), ReceiveMessage(k)
    PROVE  \E n \in 0 .. MaxBodies :
              /\ n = Head(incoming[k]) /\ low < EOF
              /\ n = low + 1 \/ (n = EOF /\ low + 1 > Request)
              /\ NoGap(k, n)'
<1>1. BackendTypeOK /\ low \in Nat
  BY HttpTyped, Zenon
<1>2. InputOK(k, low) /\ NoGap(k, low)
  BY Zenon DEF HttpOK, StreamOK
<1>. QED
  BY <1>1, <1>2, GapReceive, Zenon

\* Handle reads the request.
LEMMA ReadRequestKeeps ==
    ASSUME HttpType, NEW k \in Sessions, NEW low \in 0 .. sent[k], NEW done \in BOOLEAN,
           NEW out, NEW p, HttpOK(k, low, out, done, p), ReadRequest(k)
    PROVE  Sets(k) /\ SomeHttp(k)'
<1>1. /\ http[k] \in Handler /\ http \in [Sessions -> Handler]
      /\ Part(http[k], low, out) /\ low \in Nat
  BY HttpTyped, Zenon DEF HttpType
<1>2. k \in handled /\ http[k].step = "start" /\ low = 0 /\ http[k].pump = "none"
  BY <1>1, Zenon DEF ReadRequest, Part, StepsOK
<1>3. CASE ReceiveMessage(k) /\ \E hijack, sized \in BOOLEAN :
              http' = [http EXCEPT ![k].step = "request", ![k].hijack = hijack,
                                   ![k].sized = sized]
  <2>1. PICK hijack \in BOOLEAN, sized \in BOOLEAN :
              http' = [http EXCEPT ![k].step = "request", ![k].hijack = hijack,
                                   ![k].sized = sized]
    BY <1>3, Zenon
  <2>2. http' = [http EXCEPT ![k] = [http[k] EXCEPT !.step = "request", !.hijack = hijack,
                                                    !.sized = sized]]
    BY <1>1, <2>1, Zenon
  <2>3. Sets(k) /\ KindSet(http[k], http'[k])
    BY <1>1, <2>2, SetsKind, Zenon
  <2>4. http'[k] \in Handler
    BY <2>3, Zenon DEF Sets
  <2>5. Part(http'[k], Request, out)
    BY <1>1, <1>2, <2>3, <2>4, KindPart, Zenon
  <2>6. PICK n \in 0 .. MaxBodies :
           /\ n = Head(incoming[k]) /\ low < EOF /\ NoGap(k, n)'
           /\ n = low + 1 \/ (n = EOF /\ low + 1 > Request)
    BY <1>3, TakesNext, Zenon
  <2>7. n = Request
    BY <1>2, <2>6 DEF Request
  <2>8. /\ http'[k].step # "done" /\ http[k].step # "done"
        /\ http'[k].complete = http[k].complete
    BY <1>2, <2>3, Zenon DEF KindSet
  <2>9. SomeHttp(k)'
    BY <1>2, <1>3, <2>5, <2>6, <2>7, <2>8, TakeKeeps, ZenonT(30)
  <2>. QED
    BY <2>3, <2>9, Zenon
<1>4. CASE /\ http' = [http EXCEPT ![k].step = "signal"] /\ UNCHANGED backendVars
  <2>1. http' = [http EXCEPT ![k] = [http[k] EXCEPT !.step = "signal", !.conn = http[k].conn,
                                                    !.pump = http[k].pump]]
    BY <1>1, <1>4, Zenon DEF Handler
  <2>2. http[k].conn \in {"none", "open", "closed"} /\ "signal" \in Steps
    BY <1>1, Zenon DEF Handler, Steps
  <2>3. http[k].pump \in {"none", "read", "drain", "done"}
    BY <1>1, Zenon DEF Handler
  <2>4. Sets(k) /\ Moved(http[k], http'[k], "signal", http[k].pump)
    BY <1>1, <2>1, <2>2, <2>3, MovesTo, Zenon
  <2>5. Allowed(http[k], "signal", http[k].pump)
    BY <1>2, Zenon DEF Allowed
  <2>. QED
    BY <1>2, <1>4, <2>4, <2>5, QuietMove, Zenon
<1>. QED
  BY <1>3, <1>4, Zenon DEF ReadRequest

\* doHttp and doHijack start the exchange.
LEMMA StartKeeps ==
    ASSUME HttpType, NEW k \in Sessions, NEW low \in 0 .. sent[k], NEW done \in BOOLEAN,
           NEW out, NEW p, HttpOK(k, low, out, done, p), Do(k) \/ WriteRequest(k)
    PROVE  Sets(k) /\ SomeHttp(k)'
<1>1. /\ http[k] \in Handler /\ http \in [Sessions -> Handler] /\ Part(http[k], low, out)
  BY HttpTyped, Zenon DEF HttpType
<1>2. /\ http[k].step = "request" /\ UNCHANGED backendVars /\ k \in handled
  BY BegunHandled, Zenon DEF Do, WriteRequest
<1>3. {"do", "initial", "copy"} \subseteq Steps
  BY Zenon DEF Steps
<1>4. CASE Do(k)
  <2>1. http' = [http EXCEPT ![k] = [http[k] EXCEPT !.step = "do", !.conn = "open",
                                                    !.pump = "read"]]
    BY <1>1, <1>4, Zenon DEF Do
  <2>2. Sets(k) /\ Moved(http[k], http'[k], "do", "read")
    BY <1>1, <1>3, <2>1, MovesTo, Zenon
  <2>3. ~http[k].hijack /\ http'[k] \in Handler
    BY <1>4, <2>2, Zenon DEF Do, Sets
  <2>4. Part(http'[k], low, out)
    BY <1>1, <1>2, <2>2, <2>3, DoPart, ZenonT(30)
  <2>5. /\ http'[k].step # "done" /\ http[k].step # "done"
        /\ http'[k].complete = http[k].complete
    BY <1>2, <2>2, Zenon DEF Moved, Kept
  <2>6. SomeHttp(k)'
    BY <1>2, <2>4, <2>5, QuietKeeps, Zenon
  <2>. QED
    BY <2>2, <2>6, Zenon
<1>5. CASE WriteRequest(k)
  <2>1. \/ /\ http[k].sized
           /\ http' = [http EXCEPT ![k] = [http[k] EXCEPT !.step = "initial", !.conn = "open",
                                                          !.pump = "none"]]
        \/ http' = [http EXCEPT ![k] = [http[k] EXCEPT !.step = "copy", !.conn = "open",
                                                       !.pump = "read"]]
    BY <1>1, <1>5 DEF WriteRequest, Handler
  <2>2. /\ Sets(k)
        /\ \/ http[k].sized /\ Moved(http[k], http'[k], "initial", "none")
           \/ Moved(http[k], http'[k], "copy", "read")
    <3>1. CASE http[k].sized /\ http' = [http EXCEPT ![k] =
                  [http[k] EXCEPT !.step = "initial", !.conn = "open", !.pump = "none"]]
      BY <1>1, <1>3, <3>1, MovesTo, ZenonT(30)
    <3>2. CASE http' = [http EXCEPT ![k] =
                  [http[k] EXCEPT !.step = "copy", !.conn = "open", !.pump = "read"]]
      BY <1>1, <1>3, <3>2, MovesTo, Zenon
    <3>. QED
      BY <2>1, <3>1, <3>2, ZenonT(30)
  <2>3. http[k].hijack /\ http'[k] \in Handler
    BY <1>5, <2>2, Zenon DEF WriteRequest, Sets
  <2>4. Part(http'[k], low, out)
    BY <1>1, <1>2, <2>2, <2>3, HijackPart, Zenon
  <2>5. /\ http'[k].step # "done" /\ http[k].step # "done"
        /\ http'[k].complete = http[k].complete
    BY <1>2, <2>2, Zenon DEF Moved, Kept
  <2>6. SomeHttp(k)'
    BY <1>2, <2>4, <2>5, QuietKeeps, Zenon
  <2>. QED
    BY <2>2, <2>6, Zenon
<1>. QED
  BY <1>4, <1>5, Zenon

\* doHijack reads the body that goes with the request.
LEMMA ReadInitialKeeps ==
    ASSUME HttpType, NEW k \in Sessions, NEW low \in 0 .. sent[k], NEW done \in BOOLEAN,
           NEW out, NEW p, HttpOK(k, low, out, done, p), ReadInitial(k)
    PROVE  Sets(k) /\ SomeHttp(k)'
<1>1. /\ http[k] \in Handler /\ http \in [Sessions -> Handler] /\ Part(http[k], low, out)
      /\ low \in Nat
  BY HttpTyped, Zenon DEF HttpType
<1>2. http[k].step = "initial" /\ k \in handled /\ low = Request
  BY <1>1, BegunHandled, Zenon DEF ReadInitial, Part, StepsOK
<1>3. "copy" \in Steps /\ <<Padding>> \in Seq(0 .. MaxBodies)
  BY BackendAssumption DEF Steps, Padding
<1>4. ASSUME NEW target \in Seq(0 .. MaxBodies), NEW pump \in {"none", "read", "drain", "done"},
             http' = [http EXCEPT ![k].step = "copy", ![k].target = target, ![k].pump = pump]
      PROVE  /\ Sets(k) /\ TargetSet(http[k], http'[k], "copy", target, pump)
             /\ http'[k] \in Handler /\ http'[k].step # "done" /\ http[k].step # "done"
             /\ http'[k].complete = http[k].complete
  <2>1. http' = [http EXCEPT ![k] = [http[k] EXCEPT !.step = "copy", !.target = target,
                                                    !.pump = pump]]
    BY <1>1, <1>4, Zenon
  <2>2. Sets(k) /\ TargetSet(http[k], http'[k], "copy", target, pump)
    BY <1>1, <1>3, <2>1, SetsTarget, Zenon
  <2>3. http'[k] \in Handler
    BY <2>2, Zenon DEF Sets
  <2>4. http'[k].step = "copy" /\ http'[k].complete = http[k].complete
    BY <2>2, Zenon DEF TargetSet
  <2>. QED
    BY <1>2, <2>2, <2>3, <2>4, Zenon
<1>5. ASSUME ReceiveMessage(k), NEW body,
             body \in (IF Head(incoming[k]) = EOF THEN {<<Padding>>}
                       ELSE {<<Head(incoming[k])>>, <<Head(incoming[k]), Padding>>}),
             http' = [http EXCEPT ![k].step = "copy", ![k].target = body,
                          ![k].pump = IF Head(incoming[k]) = EOF THEN "drain" ELSE "read"]
      PROVE  Sets(k) /\ SomeHttp(k)'
  <2>1. PICK n \in 0 .. MaxBodies :
           /\ n = Head(incoming[k]) /\ low < EOF /\ NoGap(k, n)'
           /\ n = low + 1 \/ (n = EOF /\ low + 1 > Request)
    BY <1>5, TakesNext, Zenon
  <2>2. n = EOF \/ n = 2
    BY <1>2, <2>1 DEF Request
  <2>3. PICK pump \in {"none", "read", "drain", "done"} :
           pump = IF n = EOF THEN "drain" ELSE "read"
    BY Zenon
  <2>4. body \in (IF n = EOF THEN {<<Padding>>} ELSE {<<n>>, <<n, Padding>>})
    BY <1>5, <2>1, Zenon
  <2>5. /\ \/ body = <<Padding>> /\ pump # "read"
           \/ body \in {<< 2 >>, <<2, Padding>>} /\ n = 2
        /\ body \in Seq(0 .. MaxBodies)
    <3>1. <<n>> \in Seq(0 .. MaxBodies) /\ <<n, Padding>> \in Seq(0 .. MaxBodies)
      BY BackendAssumption DEF Padding
    <3>2. CASE n = EOF
      BY <1>3, <2>3, <2>4, <3>2, Zenon
    <3>3. CASE n # EOF
      <4>1. n = 2 /\ body \in {<<n>>, <<n, Padding>>}
        BY <2>2, <2>4, <3>3, Zenon
      <4>. QED
        BY <3>1, <4>1, Zenon
    <3>. QED
      BY <3>2, <3>3, Zenon
  <2>6. http' = [http EXCEPT ![k].step = "copy", ![k].target = body, ![k].pump = pump]
    BY <1>5, <2>1, <2>3, Zenon
  <2>7. /\ Sets(k) /\ TargetSet(http[k], http'[k], "copy", body, pump)
        /\ http'[k] \in Handler /\ http'[k].step # "done" /\ http[k].step # "done"
        /\ http'[k].complete = http[k].complete
    BY <1>4, <2>3, <2>5, <2>6, Zenon
  <2>8. Part(http'[k], n, out)
    BY <1>1, <1>2, <2>5, <2>7, InitialPart, Zenon
  <2>9. SomeHttp(k)'
    BY <1>2, <1>5, <2>1, <2>7, <2>8, TakeKeeps, ZenonT(30)
  <2>. QED
    BY <2>7, <2>9, Zenon
<1>6. ASSUME http' = [http EXCEPT ![k].step = "copy", ![k].target = <<Padding>>,
                                  ![k].pump = "read"],
             UNCHANGED backendVars
      PROVE  Sets(k) /\ SomeHttp(k)'
  <2>1. /\ Sets(k) /\ TargetSet(http[k], http'[k], "copy", <<Padding>>, "read")
        /\ http'[k] \in Handler /\ http'[k].step # "done" /\ http[k].step # "done"
        /\ http'[k].complete = http[k].complete
    BY <1>3, <1>4, <1>6, Zenon
  <2>2. low = 1
    BY <1>2, Zenon DEF Request
  <2>3. Part(http'[k], low, out)
    BY <1>1, <1>2, <2>1, <2>2, InitialPart, Zenon
  <2>4. SomeHttp(k)'
    BY <1>2, <1>6, <2>1, <2>3, QuietKeeps, Zenon
  <2>. QED
    BY <2>1, <2>4, Zenon
<1>. QED
  BY <1>5, <1>6, Zenon DEF ReadInitial

\* The request of a hijacked exchange cannot be written.
LEMMA WriteRequestFailsKeeps ==
    ASSUME HttpType, NEW k \in Sessions, NEW low \in 0 .. sent[k], NEW done \in BOOLEAN,
           NEW out, NEW p, HttpOK(k, low, out, done, p), WriteRequestFails(k)
    PROVE  Sets(k) /\ SomeHttp(k)'
<1>1. /\ http[k] \in Handler /\ http \in [Sessions -> Handler] /\ Part(http[k], low, out)
  BY HttpTyped, Zenon DEF HttpType
<1>2. http[k].step = "initial" /\ k \in handled /\ http[k].pump = "none"
  BY <1>1, BegunHandled, Zenon DEF WriteRequestFails, Part, StepsOK
<1>3. http' = [http EXCEPT ![k] = [http[k] EXCEPT !.step = "signal", !.conn = "closed",
                                                  !.pump = http[k].pump]]
  BY <1>1, Zenon DEF WriteRequestFails, Handler
<1>4. "signal" \in Steps /\ http[k].pump \in {"none", "read", "drain", "done"}
  BY <1>2, Zenon DEF Steps
<1>5. Sets(k) /\ Moved(http[k], http'[k], "signal", http[k].pump)
  BY <1>1, <1>3, <1>4, MovesTo, Zenon
<1>6. Allowed(http[k], "signal", http[k].pump) /\ http[k].pump # "read"
  BY <1>2, Zenon DEF Allowed
<1>7. ReceiveMessage(k) \/ UNCHANGED backendVars
  BY Zenon DEF WriteRequestFails
<1>8. CASE ReceiveMessage(k)
  BY <1>2, <1>5, <1>6, <1>8, TakeMove, Zenon
<1>9. CASE UNCHANGED backendVars
  BY <1>2, <1>5, <1>6, <1>9, QuietMove, Zenon
<1>. QED
  BY <1>5, <1>7, <1>8, <1>9, Zenon

\* A piece of the answer arrives.
LEMMA ReadResponseKeeps ==
    ASSUME HttpType, NEW k \in Sessions, NEW low \in 0 .. sent[k], NEW done \in BOOLEAN,
           NEW out, NEW p, HttpOK(k, low, out, done, p), ReadResponse(k)
    PROVE  Sets(k) /\ SomeHttp(k)'
<1>1. /\ http[k] \in Handler /\ http \in [Sessions -> Handler] /\ Part(http[k], low, out)
  BY HttpTyped, Zenon DEF HttpType
<1>2. /\ http[k].step = "copy" /\ k \in handled /\ UNCHANGED backendVars
      /\ http[k].produced < MaxReads
  BY BegunHandled, Zenon DEF ReadResponse
<1>3. http[k].produced \in Nat
  BY <1>1 DEF Handler
<1>4. PICK m \in 0 .. MaxReads : m = http[k].produced + 1
  BY <1>2, <1>3, HttpProxyAssumption
<1>5. m \in Nat
  BY <1>4
<1>6. http' = [http EXCEPT ![k] = [http[k] EXCEPT !.step = "write", !.produced = m]]
  BY <1>1, <1>4, Zenon DEF ReadResponse
<1>7. Sets(k) /\ ProducedSet(http[k], http'[k], m)
  BY <1>1, <1>6, SetsProduced, Zenon
<1>8. http'[k] \in Handler
  BY <1>7, Zenon DEF Sets
<1>9. Part(http'[k], low, out)
  BY <1>1, <1>2, <1>4, <1>5, <1>7, <1>8, ProducedPart, ZenonT(30)
<1>10. /\ http'[k].step # "done" /\ http[k].step # "done"
       /\ http'[k].complete = http[k].complete
  BY <1>2, <1>7, Zenon DEF ProducedSet
<1>11. SomeHttp(k)'
  BY <1>2, <1>9, <1>10, QuietKeeps, Zenon
<1>. QED
  BY <1>7, <1>11, Zenon

\* The answer is sent.
LEMMA AnswerKeeps ==
    ASSUME HttpType, NEW k \in Sessions, NEW low \in 0 .. sent[k], NEW done \in BOOLEAN,
           NEW out, NEW p, HttpOK(k, low, out, done, p),
           WriteHeader(k) \/ Write(k) \/ WriteEOF(k) \/ SignalHandlerClosed(k)
    PROVE  Sets(k) /\ SomeHttp(k)'
<1>1. /\ http[k] \in Handler /\ http \in [Sessions -> Handler] /\ Part(http[k], low, out)
  BY HttpTyped, Zenon DEF HttpType
<1>2. http[k].step \in {"header", "write", "eof", "signal"} /\ k \in handled
  <2>1. http[k].step \in {"header", "write", "eof", "signal"}
    BY Zenon DEF WriteHeader, Write, WriteEOF, SignalHandlerClosed
  <2>. QED
    BY <2>1, BegunHandled, Zenon
<1>3. ASSUME NEW step \in {"copy", "wait", "signal", "done"},
             http' = [http EXCEPT ![k].step = step]
      PROVE  /\ Sets(k) /\ Moved(http[k], http'[k], step, http[k].pump)
             /\ http'[k] \in Handler /\ http'[k].step = step
             /\ http'[k].complete = http[k].complete
  <2>1. http' = [http EXCEPT ![k] = [http[k] EXCEPT !.step = step, !.conn = http[k].conn,
                                                    !.pump = http[k].pump]]
    BY <1>1, <1>3, Zenon DEF Handler
  <2>2. step \in Steps /\ http[k].conn \in {"none", "open", "closed"}
    BY <1>1, Zenon DEF Steps, Handler
  <2>3. http[k].pump \in {"none", "read", "drain", "done"}
    BY <1>1, Zenon DEF Handler
  <2>4. Sets(k) /\ Moved(http[k], http'[k], step, http[k].pump)
    BY <1>1, <2>1, <2>2, <2>3, MovesTo, ZenonT(30)
  <2>. QED
    BY <2>4, Zenon DEF Sets, Moved, Kept
<1>4. http[k].produced \in Nat /\ ResponseEOF \in Nat /\ Header \in Nat
  BY <1>1, HttpProxyAssumption DEF Handler, ResponseEOF, Header
<1>5. CASE WriteHeader(k)
  <2>1. /\ http[k].step = "header" /\ SendResponse(k, "Body", Header)
        /\ http' = [http EXCEPT ![k].step = "copy"]
    BY <1>5, Zenon DEF WriteHeader
  <2>2. /\ Sets(k) /\ Moved(http[k], http'[k], "copy", http[k].pump)
        /\ http'[k] \in Handler /\ http'[k].step = "copy"
        /\ http'[k].complete = http[k].complete
    BY <1>3, <2>1, Zenon
  <2>3. Part(http'[k], low, Append(out, Header))
    BY <1>1, <2>1, <2>2, SentPart, Zenon
  <2>4. \A i \in DOMAIN out : out[i] < Header
    BY <1>1, <2>1, OutsRise, Zenon
  <2>5. SomeHttp(k)'
    BY <1>2, <1>4, <2>1, <2>2, <2>3, <2>4, SendKeeps, ZenonT(30)
  <2>. QED
    BY <2>2, <2>5, Zenon
<1>6. CASE Write(k)
  <2>1. /\ http[k].step = "write" /\ SendResponse(k, "Body", http[k].produced)
        /\ http' = [http EXCEPT ![k].step = "copy"]
    BY <1>6, Zenon DEF Write
  <2>2. /\ Sets(k) /\ Moved(http[k], http'[k], "copy", http[k].pump)
        /\ http'[k] \in Handler /\ http'[k].step = "copy"
        /\ http'[k].complete = http[k].complete
    BY <1>3, <2>1, Zenon
  <2>3. Part(http'[k], low, Append(out, http[k].produced))
    BY <1>1, <2>1, <2>2, SentPart, Zenon
  <2>4. \A i \in DOMAIN out : out[i] < http[k].produced
    BY <1>1, <2>1, OutsRise, Zenon
  <2>5. SomeHttp(k)'
    BY <1>2, <1>4, <2>1, <2>2, <2>3, <2>4, SendKeeps, ZenonT(30)
  <2>. QED
    BY <2>2, <2>5, Zenon
<1>7. CASE WriteEOF(k)
  <2>1. PICK step \in {"wait", "signal"} :
           /\ http[k].step = "eof" /\ SendResponse(k, "Body", ResponseEOF)
           /\ http' = [http EXCEPT ![k].step = step]
    BY <1>7, Zenon DEF WriteEOF
  <2>2. /\ Sets(k) /\ Moved(http[k], http'[k], step, http[k].pump)
        /\ http'[k] \in Handler /\ http'[k].step = step
        /\ http'[k].complete = http[k].complete
    BY <1>3, <2>1, Zenon
  <2>3. Part(http'[k], low, Append(out, ResponseEOF))
    BY <1>1, <2>1, <2>2, SentPart, Zenon
  <2>4. \A i \in DOMAIN out : out[i] < ResponseEOF
    BY <1>1, <2>1, OutsRise, Zenon
  <2>5. step # "done"
    BY <2>1, Zenon
  <2>6. SomeHttp(k)'
    BY <1>2, <1>4, <2>1, <2>2, <2>3, <2>4, <2>5, SendKeeps, ZenonT(30)
  <2>. QED
    BY <2>2, <2>6, Zenon
<1>8. CASE SignalHandlerClosed(k)
  <2>1. /\ http[k].step = "signal" /\ SendResponse(k, "Close", 0)
        /\ http' = [http EXCEPT ![k].step = "done"]
    BY <1>8, Zenon DEF SignalHandlerClosed
  <2>2. /\ Sets(k) /\ Moved(http[k], http'[k], "done", http[k].pump)
        /\ http'[k] \in Handler /\ http'[k].step = "done"
        /\ http'[k].complete = http[k].complete
    BY <1>3, <2>1, Zenon
  <2>3. Part(http'[k], low, out)
    <3>1. StepsOK(http'[k], low) /\ BodyOK(http'[k], low)
      BY <1>1, <2>2, MovePart, Zenon DEF Part
    <3>2. out \in Outs(http'[k])
      BY <1>1, <2>1, <2>2, MoveOuts, ZenonT(30) DEF Part
    <3>. QED
      BY <3>1, <3>2, Zenon DEF Part
  <2>4. SomeHttp(k)'
    BY <1>2, <2>1, <2>2, <2>3, SignalKeeps, Zenon
  <2>. QED
    BY <2>2, <2>4, Zenon
<1>. QED
  BY <1>5, <1>6, <1>7, <1>8, Zenon

\* The goroutine stops to read, and perhaps closes the connection.
LEMMA PumpMoves ==
    ASSUME http \in [Sessions -> Handler], NEW k \in Sessions, http[k].pump # "none",
           NEW pump \in {"none", "read", "drain", "done"}, pump # "read",
           NEW conn \in {"none", "open", "closed"}
    PROVE  http' = [http EXCEPT ![k].pump = pump, ![k].conn = conn]
              => /\ Sets(k) /\ Moved(http[k], http'[k], http[k].step, pump)
                 /\ Allowed(http[k], http[k].step, pump)
<1>1. http[k] \in Handler
  BY Zenon
<1>2. ASSUME http' = [http EXCEPT ![k].pump = pump, ![k].conn = conn]
      PROVE  http' = [http EXCEPT ![k] = [http[k] EXCEPT !.step = http[k].step, !.conn = conn,
                                                         !.pump = pump]]
  BY <1>1, <1>2, Zenon DEF Handler
<1>3. http[k].step \in Steps
  BY <1>1, Zenon DEF Handler, Steps
<1>4. ASSUME http' = [http EXCEPT ![k] = [http[k] EXCEPT !.step = http[k].step, !.conn = conn,
                                                         !.pump = pump]]
      PROVE  Sets(k) /\ Moved(http[k], http'[k], http[k].step, pump)
  BY <1>3, <1>4, MovesTo, Zenon
<1>5. Allowed(http[k], http[k].step, pump)
  BY Zenon DEF Allowed
<1>. QED
  BY <1>2, <1>4, <1>5, Zenon

\* The goroutine takes a piece of the body.
LEMMA CopyBodyKeeps ==
    ASSUME HttpType, NEW k \in Sessions, NEW low \in 0 .. sent[k], NEW done \in BOOLEAN,
           NEW out, NEW p, HttpOK(k, low, out, done, p), CopyBody(k)
    PROVE  Sets(k) /\ SomeHttp(k)'
<1>1. /\ http[k] \in Handler /\ http \in [Sessions -> Handler] /\ Part(http[k], low, out)
      /\ low \in Nat
  BY HttpTyped, Zenon DEF HttpType
<1>2. http[k].pump = "read" /\ ReceiveMessage(k) /\ Head(incoming[k]) # EOF /\ k \in handled
  BY BegunHandled, Zenon DEF CopyBody
<1>3. CASE http' = [http EXCEPT ![k].target = Append(@, Head(incoming[k]))]
  <2>1. PICK n \in 0 .. MaxBodies :
           /\ n = Head(incoming[k]) /\ low < EOF /\ NoGap(k, n)'
           /\ n = low + 1 \/ (n = EOF /\ low + 1 > Request)
    BY <1>2, TakesNext, Zenon
  <2>2. n = low + 1
    BY <1>2, <2>1, Zenon
  <2>3. PICK target \in Seq(0 .. MaxBodies) : target = Append(http[k].target, n)
    <3>1. http[k].target \in Seq(0 .. MaxBodies)
      BY <1>1, Zenon DEF Handler
    <3>. QED
      BY <3>1, AppendProperties, ZenonT(30)
  <2>4. http' = [http EXCEPT ![k] = [http[k] EXCEPT !.step = http[k].step, !.target = target,
                                                    !.pump = "read"]]
    <3>1. http' = [http EXCEPT ![k] = [http[k] EXCEPT !.target = Append(http[k].target, n)]]
      BY <1>3, <2>1, Zenon
    <3>2. [http[k] EXCEPT !.target = target] =
             [http[k] EXCEPT !.step = http[k].step, !.target = target, !.pump = "read"]
      BY <1>1, <1>2, Zenon DEF Handler
    <3>. QED
      BY <2>3, <3>1, <3>2, Zenon
  <2>5. http[k].step \in Steps
    BY <1>1, Zenon DEF Handler, Steps
  <2>6. Sets(k) /\ TargetSet(http[k], http'[k], http[k].step, target, "read")
    BY <1>1, <2>4, <2>5, SetsTarget, Zenon
  <2>7. /\ http'[k] \in Handler /\ http'[k].step = http[k].step
        /\ http'[k].complete = http[k].complete
    BY <2>6, Zenon DEF Sets, TargetSet
  <2>8. Part(http'[k], n, out)
    BY <1>1, <1>2, <2>2, <2>3, <2>6, <2>7, GrowPart, ZenonT(30)
  <2>9. SomeHttp(k)'
    BY <1>2, <2>1, <2>7, <2>8, TakeKeeps, ZenonT(30)
  <2>. QED
    BY <2>6, <2>9, Zenon
<1>4. CASE http' = [http EXCEPT ![k].pump = StopPump(k),
                                ![k].conn = IF http[k].hijack THEN @ ELSE "closed"]
  <2>1. PICK conn \in {"none", "open", "closed"} :
           conn = IF http[k].hijack THEN http[k].conn ELSE "closed"
    BY <1>1, Zenon DEF Handler
  <2>2. PICK pump \in {"none", "read", "drain", "done"} :
           pump = StopPump(k) /\ pump # "read"
    BY Zenon DEF StopPump
  <2>3. http' = [http EXCEPT ![k].pump = pump, ![k].conn = conn]
    BY <1>1, <1>4, <2>1, <2>2, ZenonT(30)
  <2>4. /\ Sets(k) /\ Moved(http[k], http'[k], http[k].step, pump)
        /\ Allowed(http[k], http[k].step, pump) /\ pump # "read" /\ http[k].pump # "none"
    BY <1>1, <1>2, <2>2, <2>3, PumpMoves, Zenon
  <2>5. SomeHttp(k)'
    BY <1>2, <2>4, TakeMove, Zenon
  <2>. QED
    BY <2>4, <2>5, Zenon
<1>. QED
  BY <1>3, <1>4, Zenon DEF CopyBody

\* The goroutine reads the end of the body.
LEMMA BodyEOFKeeps ==
    ASSUME HttpType, NEW k \in Sessions, NEW low \in 0 .. sent[k], NEW done \in BOOLEAN,
           NEW out, NEW p, HttpOK(k, low, out, done, p), BodyEOF(k)
    PROVE  Sets(k) /\ SomeHttp(k)'
<1>1. /\ http[k] \in Handler /\ http \in [Sessions -> Handler] /\ Part(http[k], low, out)
      /\ low \in Nat
  BY HttpTyped, Zenon DEF HttpType
<1>2. /\ http[k].pump = "read" /\ k \in handled /\ BodyEnds(k)
      /\ \/ ReceiveMessage(k) /\ Head(incoming[k]) = EOF
         \/ k \in chanClosed /\ UNCHANGED backendVars
  BY BegunHandled, Zenon DEF BodyEOF, ChannelEOF
<1>3. ASSUME NEW pump \in {"none", "read", "drain", "done"}, pump # "read",
             NEW conn \in {"none", "open", "closed"},
             http' = [http EXCEPT ![k].pump = pump, ![k].conn = conn]
      PROVE  Sets(k) /\ SomeHttp(k)'
  <2>1. /\ Sets(k) /\ Moved(http[k], http'[k], http[k].step, pump)
        /\ Allowed(http[k], http[k].step, pump) /\ pump # "read" /\ http[k].pump # "none"
    BY <1>1, <1>2, <1>3, PumpMoves, Zenon
  <2>2. SomeHttp(k)'
    BY <1>2, <2>1, TakeMove, QuietMove, Zenon
  <2>. QED
    BY <2>1, <2>2, Zenon
<1>4. CASE http' = [http EXCEPT ![k].pump = "drain"]
  <2>1. http' = [http EXCEPT ![k].pump = "drain", ![k].conn = http[k].conn]
    BY <1>1, <1>4, Zenon DEF Handler
  <2>2. http[k].conn \in {"none", "open", "closed"}
    BY <1>1, Zenon DEF Handler
  <2>. QED
    BY <1>3, <2>1, <2>2, Zenon
<1>5. CASE http' = [http EXCEPT ![k].pump = "done", ![k].conn = "closed"]
  BY <1>3, <1>5, Zenon
<1>6. CASE http' = [http EXCEPT ![k].pump = "done", ![k].complete = (http[k].conn = "open")]
  <2>1. PICK complete \in BOOLEAN : complete = (http[k].conn = "open")
    BY Zenon
  <2>2. http' = [http EXCEPT ![k] = [http[k] EXCEPT !.pump = "done", !.complete = complete]]
    BY <1>1, <1>6, <2>1, Zenon
  <2>3. Sets(k) /\ CompleteSet(http[k], http'[k])
    BY <1>1, <2>2, SetsComplete, Zenon
  <2>4. http'[k] \in Handler /\ http'[k].step = http[k].step
    BY <2>3, Zenon DEF Sets, CompleteSet
  <2>5. \A n : Part(http'[k], n, out)
    BY <1>1, <1>2, <2>3, <2>4, CompletePart, Zenon
  <2>6. CASE ReceiveMessage(k) /\ Head(incoming[k]) = EOF
    <3>1. PICK n \in 0 .. MaxBodies :
             n = Head(incoming[k]) /\ low < EOF /\ NoGap(k, n)'
      BY <2>6, TakesNext, Zenon
    <3>. QED
      BY <1>2, <2>3, <2>4, <2>5, <2>6, <3>1, TakeKeeps, ZenonT(30)
  <2>7. CASE k \in chanClosed /\ UNCHANGED backendVars
    BY <1>2, <2>3, <2>4, <2>5, <2>7, QuietKeeps, ZenonT(30)
  <2>. QED
    BY <1>2, <2>6, <2>7, Zenon
<1>. QED
  BY <1>2, <1>4, <1>5, <1>6, Zenon DEF BodyEnds

\* The goroutine of doHijack waits for its channel to close.
LEMMA DrainKeeps ==
    ASSUME HttpType, NEW k \in Sessions, NEW low \in 0 .. sent[k], NEW done \in BOOLEAN,
           NEW out, NEW p, HttpOK(k, low, out, done, p), Drain(k)
    PROVE  Sets(k) /\ SomeHttp(k)'
<1>1. http \in [Sessions -> Handler]
  BY Zenon DEF HttpType
<1>2. http[k].pump = "drain" /\ k \in handled
  BY BegunHandled, Zenon DEF Drain
<1>3. CASE ReceiveMessage(k) /\ UNCHANGED http
  <2>1. Sets(k) /\ Moved(http[k], http'[k], http[k].step, http[k].pump)
    BY <1>1, <1>3, Zenon DEF Sets, Moved, Kept
  <2>2. Allowed(http[k], http[k].step, http[k].pump) /\ http[k].pump # "read" /\ http[k].pump # "none"
    BY <1>2, Zenon DEF Allowed
  <2>3. SomeHttp(k)'
    BY <1>2, <1>3, <2>1, <2>2, TakeMove, Zenon
  <2>. QED
    BY <2>1, <2>3, Zenon
<1>4. CASE /\ http' = [http EXCEPT ![k].pump = "done", ![k].conn = "closed"]
           /\ UNCHANGED backendVars
  <2>1. /\ Sets(k) /\ Moved(http[k], http'[k], http[k].step, "done")
        /\ Allowed(http[k], http[k].step, "done")
    BY <1>1, <1>2, <1>4, PumpMoves, Zenon
  <2>2. SomeHttp(k)'
    BY <1>2, <1>4, <2>1, QuietMove, Zenon
  <2>. QED
    BY <2>1, <2>2, Zenon
<1>. QED
  BY <1>3, <1>4, Zenon DEF Drain

--------------------------------------------------------------------------------
(* Every step keeps the invariant.                                          *)

\* The steps of Handle and of its goroutine.
HandlerStep(j) == Handle(j) \/ Expire(j) \/ Exchange(j) \/ Pump(j)

\* They change the record of their own session only, and keep its invariant.
LEMMA OwnHttp ==
    ASSUME HttpType, NEW k \in Sessions, SomeHttp(k), HandlerStep(k)
    PROVE  Sets(k) /\ SomeHttp(k)'
<1>1. PICK low \in 0 .. sent[k], done \in BOOLEAN, out \in Outs(http[k]),
           p \in {Last(http[k])} : HttpOK(k, low, out, done, p)
  BY Zenon DEF SomeHttp
<1>2. CASE Handle(k)
  <2>1. CASE ReadRequest(k)
    BY <1>1, <2>1, ReadRequestKeeps, Zenon
  <2>2. CASE Reject(k) \/ Wait(k)
    BY <1>1, <2>2, HandleMoves, Zenon
  <2>3. CASE Do(k) \/ WriteRequest(k)
    BY <1>1, <2>3, StartKeeps, Zenon
  <2>4. CASE WriteHeader(k) \/ Write(k) \/ WriteEOF(k) \/ SignalHandlerClosed(k)
    BY <1>1, <2>4, AnswerKeeps, ZenonT(30)
  <2>5. CASE ReadInitial(k)
    BY <1>1, <2>5, ReadInitialKeeps, Zenon
  <2>6. CASE WriteRequestFails(k)
    BY <1>1, <2>6, WriteRequestFailsKeeps, Zenon
  <2>. QED
    BY <1>2, <2>1, <2>2, <2>3, <2>4, <2>5, <2>6, ZenonT(30) DEF Handle
<1>3. CASE Expire(k) \/ DoFails(k) \/ Answer(k) \/ ReadEnds(k)
  BY <1>1, <1>3, HandleMoves, ZenonT(30)
<1>4. CASE ReadResponse(k)
  BY <1>1, <1>4, ReadResponseKeeps, Zenon
<1>5. CASE Pump(k)
  <2>1. CASE CopyBody(k)
    BY <1>1, <2>1, CopyBodyKeeps, Zenon
  <2>2. CASE BodyEOF(k)
    BY <1>1, <2>2, BodyEOFKeeps, Zenon
  <2>3. CASE Drain(k)
    BY <1>1, <2>3, DrainKeeps, Zenon
  <2>. QED
    BY <1>5, <2>1, <2>2, <2>3, ZenonT(30) DEF Pump
<1>. QED
  BY <1>2, <1>3, <1>4, <1>5, Zenon DEF HandlerStep, Exchange

\* What a handler does with its channels.
LEMMA HandlerChannels ==
    ASSUME HttpType, NEW j \in Sessions, HandlerStep(j)
    PROVE  \/ UNCHANGED backendVars \/ ReceiveMessage(j)
           \/ \E type \in {"Body", "Close"}, n \in Nat : SendResponse(j, type, n)
<1>1. ASSUME NEW type \in {"Body", "Close"}, NEW n \in Nat, SendResponse(j, type, n)
      PROVE  \E t \in {"Body", "Close"}, m \in Nat : SendResponse(j, t, m)
  BY <1>1, Zenon
<1>2. /\ http[j].produced \in Nat /\ ResponseEOF \in Nat /\ Header \in Nat /\ 0 \in Nat
  BY HttpProxyAssumption DEF HttpType, Handler, ResponseEOF, Header
<1>3. CASE WriteHeader(j) \/ Write(j) \/ WriteEOF(j) \/ SignalHandlerClosed(j)
  BY <1>1, <1>2, <1>3, Zenon DEF WriteHeader, Write, WriteEOF, SignalHandlerClosed
<1>4. CASE \/ ReadRequest(j) \/ ReadInitial(j) \/ WriteRequestFails(j) \/ CopyBody(j)
           \/ BodyEOF(j) \/ Drain(j)
  BY <1>4, Zenon DEF ReadRequest, ReadInitial, WriteRequestFails, CopyBody, BodyEOF, Drain
<1>5. CASE \/ Reject(j) \/ Do(j) \/ WriteRequest(j) \/ Wait(j) \/ Expire(j) \/ Answer(j)
           \/ DoFails(j) \/ ReadResponse(j) \/ ReadEnds(j)
  BY <1>5, Zenon DEF Reject, Do, WriteRequest, Wait, Expire, Answer, DoFails, ReadResponse,
       ReadEnds
<1>. QED
  BY <1>3, <1>4, <1>5, Zenon DEF HandlerStep, Handle, Exchange, Pump

\* Nothing has happened in any session.
LEMMA HttpInit == Init => HttpInv
<1>. SUFFICES ASSUME Init PROVE HttpInv
  BY Zenon
<1>1. BackendTypeOK /\ \A k \in Sessions : StreamOK(k, 0, Count(0), FALSE, 0)
  BY StreamInit, Zenon DEF Init
<1>2. Count(0) = <<>>
  BY DEF Count
<1>3. http \in [Sessions -> Handler]
  BY HttpProxyAssumption DEF Init, Handler
<1>4. ASSUME NEW k \in Sessions PROVE SomeHttp(k)
  <2>1. /\ http[k].step = "start" /\ http[k].pump = "none" /\ http[k].target = <<>>
        /\ http[k].complete = FALSE /\ http[k].produced = 0
    BY Zenon DEF Init
  <2>2. StepsOK(http[k], 0)
    BY <2>1, Zenon DEF StepsOK
  <2>3. BodyOK(http[k], 0)
    BY <2>1, BodyEmpty, Zenon
  <2>4. HandlerOK(k, 0)
    BY <2>1, <2>2, <2>3, Zenon DEF HandlerOK
  <2>5. <<>> \in Outs(http[k])
    BY <2>1, Zenon DEF Outs, OutsAt
  <2>6. 0 = Last(http[k]) /\ FALSE = (http[k].step = "done")
    BY <2>1, Zenon DEF Last
  <2>7. NoGap(k, 0)
    <3>1. incoming[k] = <<>> /\ toBackend = <<>> /\ sent[k] = 0
      BY Zenon DEF Init, BackendInit
    <3>2. Bodies(<<>>, k) = {} /\ Len(<<>>) = 0 /\ DOMAIN <<>> = {}
      BY DEF Bodies
    <3>3. 0 + 0 + 1 .. Upto(0) = {}
      BY BackendAssumption, HttpProxyAssumption DEF Upto, EOF
    <3>. QED
      BY <3>1, <3>2, <3>3, Zenon DEF NoGap
  <2>8. StreamOK(k, 0, <<>>, FALSE, 0)
    BY <1>1, <1>2, Zenon
  <2>9. 0 \in 0 .. sent[k] /\ FALSE \in BOOLEAN
    BY DEF Init, BackendInit
  <2>10. HttpOK(k, 0, <<>>, FALSE, 0)
    BY <2>4, <2>5, <2>6, <2>7, <2>8, ZenonT(30) DEF HttpOK
  <2>. QED
    BY <2>5, <2>6, <2>9, <2>10, ZenonT(30) DEF SomeHttp
<1>. QED
  BY <1>1, <1>3, <1>4, Zenon DEF HttpInv, HttpType

\* What a step is.
LEMMA HttpSteps ==
    ASSUME BackendTypeOK, [Next]_vars
    PROVE  \/ UNCHANGED vars \/ (ReadError /\ UNCHANGED http)
           \/ \E j \in Sessions : LinkStep(j) /\ UNCHANGED http
           \/ \E j \in Sessions : HandlerStep(j)
<1>1. ASSUME ReadLoop \/ WriteLoop PROVE \E j \in Sessions : LinkStep(j)
  BY <1>1, Zenon DEF ReadLoop, WriteLoop, LinkStep
<1>2. ASSUME NEW j \in Sessions, ProxyHTTP(j) \/ WriteBody(j)
      PROVE  LinkStep(j) /\ UNCHANGED http
  BY <1>2, Zenon DEF ProxyHTTP, WriteBody, LinkStep
<1>. QED
  BY <1>1, <1>2, Zenon DEF Next, HandlerStep

\* Types are kept.
LEMMA HttpTypeStep ==
    ASSUME HttpInv, [Next]_vars
    PROVE  HttpType'
<1>1. HttpType /\ BackendTypeOK /\ http \in [Sessions -> Handler]
  BY Zenon DEF HttpInv, HttpType
<1>2. CASE UNCHANGED vars \/ (ReadError /\ UNCHANGED http)
  <2>1. http' = http /\ UNCHANGED <<proxyVars, toBackend, routeVars, responseChannel>>
        /\ connected' \in BOOLEAN
    BY <1>1, <1>2, Zenon DEF ReadError, vars, backendVars, BackendTypeOK
  <2>2. BackendTypeOK'
    BY <1>1, <2>1, Zenon DEF BackendTypeOK, proxyVars, routeVars
  <2>3. http' \in [Sessions -> Handler]
    BY <1>1, <2>1, Zenon
  <2>. QED
    BY <2>2, <2>3, Zenon DEF HttpType, Handler
<1>3. ASSUME NEW j \in Sessions, LinkStep(j), UNCHANGED http PROVE HttpType'
  <2>1. BackendTypeOK'
    BY <1>1, <1>3, LinkIsBackend, BackendStepType, Zenon
  <2>2. http' \in [Sessions -> Handler]
    BY <1>1, <1>3, Zenon
  <2>. QED
    BY <2>1, <2>2, Zenon DEF HttpType, Handler
<1>4. ASSUME NEW j \in Sessions, HandlerStep(j) PROVE HttpType'
  <2>1. http' \in [Sessions -> Handler]
    BY <1>1, <1>4, OwnHttp, Zenon DEF Sets, HttpInv
  <2>2. BackendTypeOK'
    <3>1. CASE UNCHANGED backendVars
      BY <1>1, <3>1, Zenon DEF BackendTypeOK, backendVars, proxyVars, routeVars
    <3>. QED
      BY <1>1, <1>4, <3>1, HandlerChannels, HandlerStepType, Zenon
  <2>. QED
    BY <2>1, <2>2, Zenon DEF HttpType, Handler
<1>. QED
  BY <1>1, <1>2, <1>3, <1>4, HttpSteps, ZenonT(30)

\* A session whose own handler does not move.
LEMMA HttpRests ==
    ASSUME HttpType, NEW k \in Sessions, NEW low \in 0 .. sent[k], NEW done \in BOOLEAN,
           NEW out, NEW p, HttpOK(k, low, out, done, p), http'[k] = http[k],
           StreamOK(k, low, out, done, p)', NoGap(k, low)',
           k \in handled => k \in handled', k \in chanClosed => k \in chanClosed',
           sent'[k] \in Nat, sent[k] <= sent'[k]
    PROVE  SomeHttp(k)'
<1>1. low \in 0 .. sent'[k]
  BY HttpTyped
<1>2. http'[k].complete => low = EOF \/ k \in chanClosed'
  BY Zenon DEF HttpOK, HandlerOK
<1>3. Part(http'[k], low, out)
  BY HttpTyped, Zenon
<1>4. HandlerOK(k, low)'
  <2>1. k \notin handled' => http'[k].step = "start"
    BY Zenon DEF HttpOK, HandlerOK
  <2>. QED
    BY <1>2, <1>3, <2>1, Zenon
       DEF HandlerOK, Part, StepsOK, BodyOK, Padded, Length, EOF, Body, Request, Padding
<1>5. out \in Outs(http'[k]) /\ done = (http'[k].step = "done") /\ p = Last(http'[k])
  BY Zenon DEF HttpOK
<1>6. HttpOK(k, low, out, done, p)'
  BY <1>4, <1>5, Zenon DEF HttpOK
<1>. QED
  BY <1>1, <1>5, <1>6, ZenonT(30) DEF SomeHttp

\* The backend's steps in a session, and the steps of other sessions.
LEMMA HttpOthers ==
    ASSUME HttpInv, NEW k \in Sessions,
           \/ UNCHANGED vars \/ (ReadError /\ UNCHANGED http)
           \/ \E j \in Sessions : LinkStep(j) /\ UNCHANGED http
           \/ \E j \in Sessions : j # k /\ HandlerStep(j)
    PROVE  SomeHttp(k)'
<1>1. HttpType /\ BackendTypeOK
  BY Zenon DEF HttpInv, HttpType
<1>2. PICK low \in 0 .. sent[k], done \in BOOLEAN, out \in Outs(http[k]),
           p \in {Last(http[k])} : HttpOK(k, low, out, done, p)
  BY Zenon DEF HttpInv, SomeHttp
<1>3. /\ sent[k] \in Nat /\ low \in Nat /\ p \in Nat /\ out \in Seq(Nat) /\ Rising(out)
      /\ StreamOK(k, low, out, done, p) /\ NoGap(k, low)
  BY <1>1, <1>2, HttpTyped, Zenon DEF HttpOK
<1>4. ASSUME SameView(k), http'[k] = http[k] PROVE SomeHttp(k)'
  <2>1. StreamOK(k, low, out, done, p)' /\ NoGap(k, low)'
    BY <1>3, <1>4, SameViewKeeps, GapView, Zenon
  <2>2. sent'[k] = sent[k] /\ sent[k] <= sent[k]
    <3>1. sent'[k] = sent[k]
      BY <1>4, Zenon DEF SameView
    <3>2. \A n \in Nat : n <= n
      OBVIOUS
    <3>. QED
      BY <1>3, <3>1, <3>2, Zenon
  <2>. QED
    BY <1>1, <1>2, <1>3, <1>4, <2>1, <2>2, HttpRests, ZenonT(30) DEF SameView
<1>5. CASE UNCHANGED vars \/ (ReadError /\ UNCHANGED http)
  <2>1. SameView(k)
    BY <1>1, <1>5, OtherSession, Zenon DEF vars
  <2>2. http'[k] = http[k]
    BY <1>5, Zenon DEF vars
  <2>. QED
    BY <1>4, <2>1, <2>2, Zenon
<1>6. ASSUME NEW j \in Sessions, LinkStep(j), UNCHANGED http PROVE SomeHttp(k)'
  <2>1. BackendStep(j)
    BY <1>1, <1>6, LinkIsBackend, Zenon
  <2>2. CASE j # k
    <3>1. SameView(k)
      BY <1>1, <2>1, <2>2, OtherSession, Zenon
    <3>. QED
      BY <1>4, <1>6, <3>1, Zenon
  <2>3. CASE j = k
    <3>1. StreamOK(k, low, out, done, p)'
      BY <1>1, <1>3, <2>1, BackendKeeps, Zenon
    <3>2. NoGap(k, low)'
      BY <1>1, <1>3, <1>6, <2>3, GapLink, Zenon DEF StreamOK
    <3>3. /\ k \in handled => k \in handled'
          /\ k \in chanClosed => k \in chanClosed'
      BY <2>1, Zenon DEF BackendStep, ClientConnect, ClientClose, ProxySends, RouteConnect,
         RouteBody, RouteClose, WriteMessage, routeVars
    <3>4. sent'[k] \in Nat /\ sent[k] <= sent'[k]
      <4>1. \/ sent' = sent
            \/ \E n \in Nat : sent[j] < n /\ sent' = [sent EXCEPT ![j] = n]
        BY <2>1, Zenon DEF BackendStep, ClientConnect, ClientClose, ProxySends,
            RouteConnect,
           RouteBody, RouteClose, WriteMessage, proxyVars
      <4>2. sent \in [Sessions -> 0 .. MaxBodies]
        BY <1>1, ZenonT(30) DEF BackendTypeOK
      <4>. QED
        BY <1>3, <2>3, <4>1, <4>2
    <3>. QED
      BY <1>1, <1>2, <1>6, <3>1, <3>2, <3>3, <3>4, HttpRests, ZenonT(30)
  <2>. QED
    BY <2>2, <2>3, Zenon
<1>7. ASSUME NEW j \in Sessions, j # k, HandlerStep(j) PROVE SomeHttp(k)'
  <2>1. SameView(k)
    BY <1>1, <1>7, HandlerChannels, OtherSession, Zenon
  <2>2. http'[k] = http[k]
    BY <1>1, <1>7, OwnHttp, Zenon DEF Sets, HttpInv
  <2>. QED
    BY <1>4, <2>1, <2>2, Zenon
<1>. QED
  BY <1>5, <1>6, <1>7, Zenon

\* Every step keeps the invariant.
LEMMA HttpStep == HttpInv /\ [Next]_vars => HttpInv'
<1>. SUFFICES ASSUME HttpInv, [Next]_vars PROVE HttpInv'
  BY Zenon
<1>1. HttpType /\ BackendTypeOK
  BY Zenon DEF HttpInv, HttpType
<1>2. ASSUME NEW k \in Sessions PROVE SomeHttp(k)'
  <2>1. CASE HandlerStep(k)
    BY <1>1, <2>1, OwnHttp, Zenon DEF HttpInv
  <2>2. CASE ~HandlerStep(k)
    BY <1>1, <2>2, HttpSteps, HttpOthers, Zenon
  <2>. QED
    BY <2>1, <2>2, Zenon
<1>. QED
  BY <1>2, HttpTypeStep, Zenon DEF HttpInv

\* The invariant holds throughout.
LEMMA HttpAlways == Spec => []HttpInv
  BY HttpInit, HttpStep, PTL DEF Spec

--------------------------------------------------------------------------------
(* The properties.                                                          *)

\* The container gets the pieces of the request body in order and without a gap
\* (HttpReader.Read, the copy loops of doHijack and of the transport), with the padding
\* of doHijack in one place at most.
THEOREM BodyArrivesInOrder == Spec => []BodyInOrder
<1>1. HttpInv => BodyInOrder
  <2>. SUFFICES ASSUME HttpInv, NEW k \in Sessions
                PROVE  \E pad \in 0 .. 2 :
                          /\ http[k].target = Body(pad, Len(http[k].target))
                          /\ pad > 0 => http[k].hijack /\ http[k].sized
    BY Zenon DEF BodyInOrder
  <2>1. PICK low \in 0 .. sent[k] : BodyOK(http[k], low)
    BY Zenon DEF HttpInv, SomeHttp, HttpOK, HandlerOK
  <2>. QED
    BY <2>1, Zenon DEF BodyOK, Padded
<1>. QED
  BY <1>1, HttpAlways, PTL

\* A request is complete for the container only when the client's EOF was read behind all
\* the pieces, or the client had left and the channel was closed.
THEOREM CompleteRequestsAreWhole == Spec => []CompleteIsWhole
<1>1. HttpInv => CompleteIsWhole
  <2>. SUFFICES ASSUME HttpInv, NEW k \in Sessions, http[k].complete, k \notin chanClosed
                PROVE  sent[k] = EOF /\ incoming[k] = <<>>
    BY Zenon DEF CompleteIsWhole
  <2>1. PICK low \in 0 .. sent[k] : low = EOF /\ InputOK(k, low)
    BY Zenon DEF HttpInv, SomeHttp, HttpOK, HandlerOK, StreamOK
  <2>2. sent[k] \in 0 .. MaxBodies /\ incoming[k] \in Seq(Nat)
    BY Zenon DEF HttpInv, HttpType, BackendTypeOK
  <2>3. sent[k] = EOF /\ low = sent[k]
    BY <2>1, <2>2, BackendAssumption DEF EOF
  <2>4. \A i \in 1 .. Len(incoming[k]) : incoming[k][i] \in Nat
    BY <2>2, LenProperties, Zenon
  <2>5. \A i \in 1 .. Len(incoming[k]) : low < incoming[k][i] /\ incoming[k][i] <= sent[k]
    BY <2>1, <2>2, LenProperties, Zenon DEF InputOK
  <2>6. Len(incoming[k]) = 0
    BY <2>2, <2>3, <2>4, <2>5, SMTT(30)
  <2>7. incoming[k] = <<>>
    BY <2>2, <2>6
  <2>. QED
    BY <2>3, <2>7, Zenon
<1>. QED
  BY <1>1, HttpAlways, PTL

\* A whole answer, element by element.
LEMMA WholeIs ==
    ASSUME NEW header \in 0 .. 1, NEW m \in Nat
    PROVE  /\ Whole(header, m) \in Seq(Nat) /\ Len(Whole(header, m)) = header + m + 1
           /\ \A i \in 1 .. header + m : Whole(header, m)[i] = i - header
           /\ Whole(header, m)[header + m + 1] = ResponseEOF
<1>1. ResponseEOF \in Nat
  BY HttpProxyAssumption DEF ResponseEOF
<1>2. PICK s \in Seq(Nat) : s = Pieces(header, m)
  BY PiecesTo, Zenon
<1>3. Len(s) = header + m /\ \A i \in 1 .. header + m : s[i] = i - header
  BY <1>2, PiecesTo, Zenon
<1>4. /\ Append(s, ResponseEOF) \in Seq(Nat) /\ Len(Append(s, ResponseEOF)) = Len(s) + 1
      /\ \A i \in 1 .. Len(s) : Append(s, ResponseEOF)[i] = s[i]
      /\ Append(s, ResponseEOF)[Len(s) + 1] = ResponseEOF
  BY <1>1, AppendProperties
<1>5. Whole(header, m) = Append(s, ResponseEOF)
  BY <1>2, Zenon DEF Whole
<1>. QED
  BY <1>3, <1>4, <1>5, Zenon

\* A sequence of one number.
LEMMA Single ==
    ASSUME NEW n \in Nat
    PROVE  <<n>> \in Seq(Nat) /\ Len(<<n>>) = 1 /\ <<n>>[1] = n
  OBVIOUS

\* The concatenation of two sequences, element by element.
Joined(t, r, s) ==
    /\ Len(t) = Len(r) + Len(s) /\ \A i \in 1 .. Len(r) : t[i] = r[i]
    /\ \A i \in 1 .. Len(s) : t[Len(r) + i] = s[i]
    /\ \A i \in Len(r) + 1 .. Len(r) + Len(s) : t[i] = s[i - Len(r)]

\* A concatenation is joined.
LEMMA JoinedIs ==
    ASSUME NEW r \in Seq(Nat), NEW s \in Seq(Nat)
    PROVE  r \o s \in Seq(Nat) /\ Joined(r \o s, r, s)
<1>1. Len(r) \in Nat /\ Len(s) \in Nat
  BY LenProperties, Zenon
<1>. QED
  BY <1>1, ConcatProperties DEF Joined

\* It is the header, if there is one, the pieces and the EOF.
LEMMA WholeConcat ==
    ASSUME NEW m \in Nat
    PROVE  /\ <<Header>> \o [i \in 1 .. m |-> i] \o <<ResponseEOF>> = Whole(1, m)
           /\ <<>> \o [i \in 1 .. m |-> i] \o <<ResponseEOF>> = Whole(0, m)
<1>1. ResponseEOF \in Nat /\ Header = 0
  BY HttpProxyAssumption DEF ResponseEOF, Header
<1>2. PICK s \in Seq(Nat) : s = Count(m) /\ Len(s) = m /\ \A i \in 1 .. m : s[i] = i
  BY CountTo, Zenon
<1>3. PICK e \in Seq(Nat) : e = <<ResponseEOF>> /\ Len(e) = 1 /\ e[1] = ResponseEOF
  BY <1>1, Single, Zenon
<1>4. ASSUME NEW header \in 0 .. 1, NEW r \in Seq(Nat), Len(r) = header,
             \A i \in 1 .. Len(r) : r[i] = 0
      PROVE  r \o s \o e = Whole(header, m)
  <2>1. PICK t \in Seq(Nat) : t = r \o s /\ Joined(t, r, s)
    BY JoinedIs, Zenon
  <2>2. Len(t) = header + m
    BY <1>2, <1>4, <2>1, Zenon DEF Joined
  <2>3. \A i \in 1 .. header + m : t[i] = i - header
    <3>1. ASSUME NEW i \in 1 .. header + m PROVE t[i] = i - header
      <4>1. CASE i \in 1 .. header
        <5>1. t[i] = 0
          BY <1>4, <2>1, <4>1, Zenon DEF Joined
        <5>. QED
          BY <4>1, <5>1
      <4>2. CASE i \in header + 1 .. header + m
        <5>1. i - header \in 1 .. m
          BY <4>2
        <5>. QED
          BY <1>2, <1>4, <2>1, <4>2, <5>1, ZenonT(30) DEF Joined
      <4>. QED
        BY <4>1, <4>2
    <3>. QED
      BY <3>1, Zenon
  <2>4. PICK u \in Seq(Nat) : u = t \o e /\ Joined(u, t, e)
    BY JoinedIs, Zenon
  <2>5. /\ Len(u) = header + m + 1 /\ \A i \in 1 .. header + m : u[i] = i - header
        /\ u[header + m + 1] = ResponseEOF
    <3>1. 1 \in 1 .. 1
      OBVIOUS
    <3>. QED
      BY <1>3, <2>2, <2>3, <2>4, <3>1, ZenonT(30) DEF Joined
  <2>6. PICK w \in Seq(Nat) :
           /\ w = Whole(header, m) /\ Len(w) = header + m + 1
           /\ \A i \in 1 .. header + m : w[i] = i - header
           /\ w[header + m + 1] = ResponseEOF
    BY WholeIs, Zenon
  <2>7. \A i \in 1 .. header + m + 1 : i \in 1 .. header + m \/ i = header + m + 1
    OBVIOUS
  <2>8. \A i \in 1 .. Len(u) : u[i] = w[i]
    BY <2>5, <2>6, <2>7, Zenon
  <2>9. u = w
    BY <2>5, <2>6, <2>8, SeqEqual, ZenonT(30)
  <2>. QED
    BY <2>1, <2>4, <2>6, <2>9, Zenon
<1>5. /\ <<Header>> \in Seq(Nat) /\ Len(<<Header>>) = 1
      /\ \A i \in 1 .. Len(<<Header>>) : <<Header>>[i] = 0
  BY <1>1
<1>6. /\ <<>> \in Seq(Nat) /\ Len(<<>>) = 0 /\ \A i \in 1 .. Len(<<>>) : <<>>[i] = 0
  OBVIOUS
<1>7. 0 \in 0 .. 1 /\ 1 \in 0 .. 1
  OBVIOUS
<1>8. <<Header>> \o s \o e = Whole(1, m) /\ <<>> \o s \o e = Whole(0, m)
  BY <1>4, <1>5, <1>6, <1>7, Zenon
<1>. QED
  BY <1>2, <1>3, <1>8, Zenon DEF Count

\* What Handle has sent is a beginning of a whole answer.
LEMMA OutsBegin ==
    ASSUME NEW h \in Handler, NEW low, NEW out, Part(h, low, out)
    PROVE  /\ Len(out) <= Len(Whole(Headers(h), h.produced))
           /\ \A i \in 1 .. Len(out) : out[i] = Whole(Headers(h), h.produced)[i]
<1>1. PICK m \in Nat : m = h.produced
  BY HttpProxyAssumption DEF Handler
<1>2. PICK header \in 0 .. 1 : header = Headers(h)
  BY DEF Headers
<1>3. out \in OutsAt(h.step, header, m)
  BY <1>1, <1>2, Zenon DEF Part, Outs
<1>4. /\ Whole(header, m) \in Seq(Nat) /\ Len(Whole(header, m)) = header + m + 1
      /\ \A i \in 1 .. header + m : Whole(header, m)[i] = i - header
  BY WholeIs, Zenon
<1>5. CASE out = <<>>
  BY <1>1, <1>2, <1>4, <1>5, SMTT(30)
<1>6. CASE out = Pieces(header, m)
  <2>1. Len(out) = header + m /\ \A i \in 1 .. header + m : out[i] = i - header
    BY <1>6, PiecesTo, Zenon
  <2>. QED
    BY <1>1, <1>2, <1>4, <2>1
<1>7. CASE h.step = "write" /\ out = Pieces(header, m - 1)
  <2>1. m > 0
    BY <1>1, <1>7, Zenon DEF Part, StepsOK
  <2>2. PICK l \in Nat : l = m - 1 /\ m = l + 1
    BY <2>1
  <2>3. Len(out) = header + l /\ \A i \in 1 .. header + l : out[i] = i - header
    BY <1>7, <2>2, PiecesTo, Zenon
  <2>4. Len(out) <= header + m + 1 /\ \A i \in 1 .. Len(out) : i \in 1 .. header + m
    BY <2>2, <2>3
  <2>. QED
    BY <1>1, <1>2, <1>4, <2>3, <2>4, ZenonT(30)
<1>8. CASE out = Whole(header, m)
  BY <1>1, <1>2, <1>4, <1>8, SMTT(30)
<1>. QED
  BY <1>3, <1>5, <1>6, <1>7, <1>8, Zenon DEF OutsAt

\* The client gets the header once and first, every piece in order, and the EOF behind
\* them all; an answer that has begun is not ended by Close alone (HttpWriter.Write, .Close
\* and the two ways of Handle).
THEOREM AnswersAreWhole == Spec => []ResponseWhole
<1>1. HttpInv => ResponseWhole
  <2>. SUFFICES ASSUME HttpInv, NEW k \in Sessions
                PROVE  LET pieces == [i \in 1 .. http[k].produced |-> i]
                           whole == (IF http[k].hijack THEN <<>> ELSE <<Header>>)
                                       \o pieces \o <<ResponseEOF>>
                       IN  /\ received[k] = SubSeq(whole, 1, Len(received[k]))
                           /\ client[k] = "ended" /\ received[k] # <<>> => Answered(k)
    BY Zenon DEF ResponseWhole
  <2>. DEFINE h == http[k]
              r == received[k]
              whole == (IF h.hijack THEN <<>> ELSE <<Header>>)
                          \o [i \in 1 .. h.produced |-> i] \o <<ResponseEOF>>
  <2>1. HttpType /\ h \in Handler /\ r \in Seq(Nat)
    BY Zenon DEF HttpInv, HttpType, BackendTypeOK
  <2>2. PICK low \in 0 .. sent[k], done \in BOOLEAN, out \in Outs(h), p \in {Last(h)} :
           HttpOK(k, low, out, done, p)
    BY Zenon DEF HttpInv, SomeHttp
  <2>3. /\ out \in Seq(Nat) /\ Part(h, low, out) /\ OutputOK(k, out)
        /\ CloseOK(k, out, done, p) /\ done = (h.step = "done") /\ p = Last(h)
        /\ k \notin handled => h.step = "start"
    BY <2>1, <2>2, HttpTyped, ZenonT(30) DEF HttpOK, StreamOK, HandlerOK
  <2>4. PICK m \in Nat : m = h.produced
    BY <2>1, HttpProxyAssumption, SMTT(30) DEF Handler
  <2>5. PICK header \in 0 .. 1 : header = Headers(h)
    BY DEF Headers
  <2>6. whole = Whole(header, m)
    BY <2>1, <2>4, <2>5, WholeConcat, Zenon DEF Headers, Handler
  <2>7. /\ Len(out) <= Len(Whole(header, m))
        /\ \A i \in 1 .. Len(out) : out[i] = Whole(header, m)[i]
    BY <2>1, <2>3, <2>4, <2>5, OutsBegin, ZenonT(30)
  <2>8. /\ Whole(header, m) \in Seq(Nat) /\ Len(Whole(header, m)) = header + m + 1
        /\ Whole(header, m)[header + m + 1] = ResponseEOF
    BY WholeIs, Zenon
  <2>9. Len(r) <= Len(out) /\ \A i \in 1 .. Len(r) : r[i] = out[i]
    BY <2>3, Zenon DEF OutputOK
  <2>10. r = SubSeq(whole, 1, Len(r))
    <3>1. \A i \in 1 .. Len(r) : r[i] = Whole(header, m)[i]
      BY <2>1, <2>3, <2>7, <2>9, SMTT(30)
    <3>2. \A i \in 1 .. Len(r) : Whole(header, m)[i] \in Nat
      BY <2>1, <3>1, SMTT(30)
    <3>3. PICK w \in Seq(Nat) : w = Whole(header, m)
      BY <2>8, Zenon
    <3>4. /\ SubSeq(w, 1, Len(r)) \in Seq(Nat) /\ Len(SubSeq(w, 1, Len(r))) = Len(r)
          /\ \A i \in 1 .. Len(r) : SubSeq(w, 1, Len(r))[i] = w[i]
      BY <2>1, <3>2, <3>3, SubSeqProperties, SMTT(30)
    <3>5. r = SubSeq(w, 1, Len(r))
      BY <2>1, <3>1, <3>3, <3>4, SeqEqual, SMTT(30)
    <3>. QED
      BY <2>6, <3>3, <3>5, ZenonT(30)
  <2>11. ASSUME client[k] = "ended", r # <<>> PROVE Answered(k)
    <3>1. Len(r) > 0 /\ out # <<>>
      BY <2>1, <2>3, <2>9, <2>11, SMTT(30)
    <3>2. h.step = "done"
      <4>1. CASE k \in handled
        BY <2>3, <2>11, <4>1, Zenon DEF CloseOK
      <4>2. CASE k \notin handled
        BY <2>2, <2>3, <3>1, <4>2, Zenon DEF Outs, OutsAt
      <4>. QED
        BY <4>1, <4>2, Zenon
    <3>3. out = Whole(header, m)
      BY <2>2, <2>4, <2>5, <3>1, <3>2, Zenon DEF Outs, OutsAt
    <3>4. \A i \in Len(r) + 1 .. Len(out) : out[i] >= ResponseEOF + 1
      BY <2>3, <2>11, <3>2, ZenonT(30) DEF CloseOK, Last
    <3>5. ResponseEOF \in Nat
      BY HttpProxyAssumption DEF ResponseEOF
    <3>6. Len(r) = header + m + 1
      BY <2>1, <2>8, <2>9, <3>3, <3>4, <3>5, SMTT(30)
    <3>7. r[header + m + 1] = ResponseEOF /\ header + m + 1 \in DOMAIN r
      BY <2>1, <2>8, <2>9, <3>3, <3>6
    <3>. QED
      BY <3>7, Zenon DEF Answered
  <2>. QED
    BY <2>10, <2>11, Zenon
<1>. QED
  BY <1>1, HttpAlways, PTL
================================================================================
