----------------------------- MODULE BackendProofs -----------------------------
(***************************************************************************)
(* Facts about the multiplexed connection that the proofs of all handlers  *)
(* use: what the two queues of messages say of one session, and what the   *)
(* proxy and the two loops keep true of it whatever its handler is.        *)
(***************************************************************************)
EXTENDS Backend, SequenceTheorems, TLAPS

Messages == [Key : Sessions, Type : {"Connect", "Body", "Close"}, Body : Nat]

--------------------------------------------------------------------------------
(* What a queue of messages says of one session.                            *)

Carries(s, k, type) == \E i \in DOMAIN s : s[i].Key = k /\ s[i].Type = type

Bodies(s, k) ==
    {s[i].Body : i \in {j \in DOMAIN s : s[j].Key = k /\ s[j].Type = "Body"}}

\* The bodies of the session are in order.
Increasing(s, k) ==
    \A i, j \in DOMAIN s :
        i < j /\ s[i].Key = k /\ s[i].Type = "Body" /\ s[j].Key = k /\ s[j].Type = "Body"
            => s[i].Body < s[j].Body

\* Connect comes first, and only Close follows Close.
Sequenced(s, k) ==
    \A i, j \in DOMAIN s :
        i < j /\ s[i].Key = k /\ s[j].Key = k
            => s[j].Type # "Connect" /\ (s[i].Type = "Close" => s[j].Type = "Close")

\* Nothing follows Close.
EndsWithClose(s, k) ==
    \A i, j \in DOMAIN s : i < j /\ s[i].Key = k /\ s[j].Key = k => s[i].Type = "Body"

\* Connect comes before every other message of the session.
ConnectFirst(s, k) ==
    \A i, j \in DOMAIN s : i < j /\ s[i].Key = k /\ s[j].Key = k => s[j].Type # "Connect"

\* A body that comes after a Close of the session is at least p.
Behind(s, k, p) ==
    \A i, j \in DOMAIN s :
        i < j /\ s[i].Key = k /\ s[i].Type = "Close" /\ s[j].Key = k /\ s[j].Type = "Body"
            => s[j].Body >= p

\* The elements of a queue after a send.
LEMMA AppendQueue ==
    ASSUME NEW s \in Seq(Messages), NEW m \in Messages, NEW t, t = Append(s, m)
    PROVE  /\ t \in Seq(Messages) /\ Len(s) \in Nat /\ DOMAIN s = 1 .. Len(s)
           /\ DOMAIN t = 1 .. Len(s) + 1 /\ t[Len(s) + 1] = m
           /\ \A i \in DOMAIN s : i \in DOMAIN t /\ t[i] = s[i] /\ i < Len(s) + 1
           /\ \A i \in DOMAIN t : i \in DOMAIN s \/ i = Len(s) + 1
  BY AppendProperties

\* The elements of a queue after a receive.
LEMMA TailQueue ==
    ASSUME NEW s \in Seq(Messages), s # <<>>, NEW t, t = Tail(s)
    PROVE  /\ t \in Seq(Messages) /\ Len(s) \in Nat \ {0} /\ DOMAIN s = 1 .. Len(s)
           /\ DOMAIN t = 1 .. Len(s) - 1
           /\ Head(s) = s[1] /\ s[1] \in Messages /\ 1 \in DOMAIN s
           /\ \A i \in DOMAIN t : i \in Nat /\ i + 1 \in DOMAIN s /\ t[i] = s[i + 1] /\ 1 < i + 1
           /\ \A i \in DOMAIN s : i = 1 \/ (i - 1 \in DOMAIN t /\ t[i - 1] = s[i])
  BY HeadTailProperties

\* What a send adds to a queue.
LEMMA SendQueue ==
    ASSUME NEW s \in Seq(Messages), NEW m \in Messages, NEW t, t = Append(s, m), NEW k
    PROVE  /\ \A type : Carries(t, k, type) <=>
                           Carries(s, k, type) \/ (m.Key = k /\ m.Type = type)
           /\ m.Key = k /\ m.Type = "Body" => Bodies(t, k) = Bodies(s, k) \union {m.Body}
           /\ ~(m.Key = k /\ m.Type = "Body") => Bodies(t, k) = Bodies(s, k)
           /\ Increasing(s, k) /\ (m.Key = k /\ m.Type = "Body" =>
                                      \A n \in Bodies(s, k) : n < m.Body)
                 => Increasing(t, k)
           /\ Sequenced(s, k) /\ (m.Key = k =>
                 /\ m.Type = "Connect" => ~Carries(s, k, "Connect") /\ ~Carries(s, k, "Body")
                 /\ m.Type # "Close" => ~Carries(s, k, "Close"))
                 => Sequenced(t, k)
           /\ EndsWithClose(s, k) /\ (m.Key = k =>
                 ~Carries(s, k, "Close") /\ ~Carries(s, k, "Connect"))
                 => EndsWithClose(t, k)
<1>. DEFINE n == Len(s) + 1
<1>1. /\ DOMAIN s = 1 .. Len(s) /\ Len(s) \in Nat /\ t[n] = m /\ n \in DOMAIN t
      /\ \A i \in DOMAIN s : i \in DOMAIN t /\ t[i] = s[i] /\ i < n
      /\ \A i \in DOMAIN t : i \in DOMAIN s \/ i = n
  BY AppendQueue
<1>2. \A i \in DOMAIN s : s[i].Type \in {"Connect", "Body", "Close"}
  <2>1. \A i \in DOMAIN s : s[i] \in Messages
    BY LenProperties, Zenon
  <2>. QED
    BY <2>1, Zenon DEF Messages
<1>3. \A i, j \in DOMAIN t : i < j => i \in DOMAIN s
  BY <1>1
<1>. HIDE DEF n
<1>4. \A type : Carries(t, k, type) <=> Carries(s, k, type) \/ (m.Key = k /\ m.Type = type)
  BY <1>1, Zenon DEF Carries
<1>5. /\ m.Key = k /\ m.Type = "Body" => Bodies(t, k) = Bodies(s, k) \union {m.Body}
      /\ ~(m.Key = k /\ m.Type = "Body") => Bodies(t, k) = Bodies(s, k)
  BY <1>1 DEF Bodies
<1>6. ASSUME Increasing(s, k),
             m.Key = k /\ m.Type = "Body" => \A b \in Bodies(s, k) : b < m.Body
      PROVE  Increasing(t, k)
  <2>. SUFFICES ASSUME NEW i \in DOMAIN t, NEW j \in DOMAIN t, i < j,
                       t[i].Key = k, t[i].Type = "Body", t[j].Key = k, t[j].Type = "Body"
                PROVE  t[i].Body < t[j].Body
    BY Zenon DEF Increasing
  <2>1. i \in DOMAIN s /\ t[i] = s[i]
    BY <1>1, <1>3, Zenon
  <2>2. CASE j \in DOMAIN s
    BY <1>1, <1>6, <2>1, <2>2, Zenon DEF Increasing
  <2>3. CASE j = n
    BY <1>1, <1>6, <2>1, <2>3, Zenon DEF Bodies
  <2>. QED
    BY <1>1, <2>2, <2>3, Zenon
<1>7. ASSUME Sequenced(s, k),
             m.Key = k => /\ m.Type = "Connect" =>
                                ~Carries(s, k, "Connect") /\ ~Carries(s, k, "Body")
                          /\ m.Type # "Close" => ~Carries(s, k, "Close")
      PROVE  Sequenced(t, k)
  <2>. SUFFICES ASSUME NEW i \in DOMAIN t, NEW j \in DOMAIN t, i < j,
                       t[i].Key = k, t[j].Key = k
                PROVE  t[j].Type # "Connect" /\ (t[i].Type = "Close" => t[j].Type = "Close")
    BY Zenon DEF Sequenced
  <2>1. i \in DOMAIN s /\ t[i] = s[i]
    BY <1>1, <1>3, Zenon
  <2>2. CASE j \in DOMAIN s
    BY <1>1, <1>7, <2>1, <2>2, Zenon DEF Sequenced
  <2>3. CASE j = n
    BY <1>1, <1>2, <1>7, <2>1, <2>3, Zenon DEF Carries
  <2>. QED
    BY <1>1, <2>2, <2>3, Zenon
<1>8. ASSUME EndsWithClose(s, k),
             m.Key = k => ~Carries(s, k, "Close") /\ ~Carries(s, k, "Connect")
      PROVE  EndsWithClose(t, k)
  <2>. SUFFICES ASSUME NEW i \in DOMAIN t, NEW j \in DOMAIN t, i < j,
                       t[i].Key = k, t[j].Key = k
                PROVE  t[i].Type = "Body"
    BY Zenon DEF EndsWithClose
  <2>1. i \in DOMAIN s /\ t[i] = s[i]
    BY <1>1, <1>3, Zenon
  <2>2. CASE j \in DOMAIN s
    BY <1>1, <1>8, <2>1, <2>2, Zenon DEF EndsWithClose
  <2>3. CASE j = n
    BY <1>1, <1>2, <1>8, <2>1, <2>3, Zenon DEF Carries
  <2>. QED
    BY <1>1, <2>2, <2>3, Zenon
<1>. QED
  BY <1>4, <1>5, <1>6, <1>7, <1>8, Zenon

\* What a session's own send adds to a queue.
LEMMA SendCarries ==
    ASSUME NEW s \in Seq(Messages), NEW m \in Messages, NEW t, t = Append(s, m)
    PROVE  /\ \A type : Carries(t, m.Key, type) <=> Carries(s, m.Key, type) \/ m.Type = type
           /\ m.Type = "Body" => Bodies(t, m.Key) = Bodies(s, m.Key) \union {m.Body}
           /\ m.Type # "Body" => Bodies(t, m.Key) = Bodies(s, m.Key)
<1>. DEFINE n == Len(s) + 1
<1>1. /\ t[n] = m /\ n \in DOMAIN t
      /\ \A i \in DOMAIN s : i \in DOMAIN t /\ t[i] = s[i]
      /\ \A i \in DOMAIN t : i \in DOMAIN s \/ i = n
  BY AppendQueue
<1>. HIDE DEF n
<1>2. \A type : Carries(t, m.Key, type) <=> Carries(s, m.Key, type) \/ m.Type = type
  BY <1>1, Zenon DEF Carries
<1>3. /\ m.Type = "Body" => Bodies(t, m.Key) = Bodies(s, m.Key) \union {m.Body}
      /\ m.Type # "Body" => Bodies(t, m.Key) = Bodies(s, m.Key)
  BY <1>1 DEF Bodies
<1>. QED
  BY <1>2, <1>3, Zenon

\* A message of a queue is its head or in its tail.
LEMMA ReceiveCarries ==
    ASSUME NEW s \in Seq(Messages), s # <<>>, NEW t, t = Tail(s), NEW k, NEW type
    PROVE  Carries(s, k, type) <=>
              Carries(t, k, type) \/ (Head(s).Key = k /\ Head(s).Type = type)
<1>1. /\ Head(s) = s[1] /\ 1 \in DOMAIN s
      /\ \A i \in DOMAIN t : i + 1 \in DOMAIN s /\ t[i] = s[i + 1]
      /\ \A i \in DOMAIN s : i = 1 \/ (i - 1 \in DOMAIN t /\ t[i - 1] = s[i])
  BY TailQueue
<1>2. \A i \in DOMAIN t : \E j \in DOMAIN s : t[i] = s[j]
  BY <1>1, Zenon
<1>3. \A i \in DOMAIN s : i = 1 \/ \E j \in DOMAIN t : t[j] = s[i]
  BY <1>1, Zenon
<1>. QED
  BY <1>1, <1>2, <1>3 DEF Carries

\* What a receive leaves in a queue.
LEMMA ReceiveQueue ==
    ASSUME NEW s \in Seq(Messages), s # <<>>, NEW t, t = Tail(s), NEW k
    PROVE  /\ \A type : Carries(s, k, type) <=>
                  Carries(t, k, type) \/ (Head(s).Key = k /\ Head(s).Type = type)
           /\ Increasing(s, k) =>
                 /\ Increasing(t, k)
                 /\ ~(Head(s).Key = k /\ Head(s).Type = "Body") => Bodies(t, k) = Bodies(s, k)
                 /\ Head(s).Key = k /\ Head(s).Type = "Body" =>
                       /\ Bodies(t, k) = Bodies(s, k) \ {Head(s).Body}
                       /\ Head(s).Body \in Bodies(s, k)
                       /\ \A n \in Bodies(s, k) : Head(s).Body <= n
           /\ Sequenced(s, k) =>
                 /\ Sequenced(t, k)
                 /\ Head(s).Key = k => ~Carries(t, k, "Connect")
                 /\ Head(s).Key = k /\ Head(s).Type = "Close" => ~Carries(t, k, "Body")
           /\ EndsWithClose(s, k) =>
                 /\ EndsWithClose(t, k)
                 /\ Head(s).Key = k /\ Head(s).Type = "Close" =>
                       ~Carries(t, k, "Body") /\ ~Carries(t, k, "Close")
<1>1. /\ Head(s) = s[1] /\ s[1] \in Messages /\ 1 \in DOMAIN s
      /\ \A i \in DOMAIN t : i \in Nat /\ i + 1 \in DOMAIN s /\ t[i] = s[i + 1] /\ 1 < i + 1
      /\ \A i \in DOMAIN s : i = 1 \/ (i - 1 \in DOMAIN t /\ t[i - 1] = s[i])
  BY TailQueue
<1>2. \A i \in DOMAIN t : \E j \in DOMAIN s : 1 < j /\ t[i] = s[j]
  BY <1>1, Zenon
<1>3. \A i \in DOMAIN s : i = 1 \/ \E j \in DOMAIN t : t[j] = s[i]
  BY <1>1, Zenon
<1>4. \A i, j \in DOMAIN t : i < j =>
          \E u, v \in DOMAIN s : u < v /\ t[i] = s[u] /\ t[j] = s[v]
  BY <1>1
<1>5. \A type : Carries(s, k, type) <=>
          Carries(t, k, type) \/ (Head(s).Key = k /\ Head(s).Type = type)
  BY <1>1, <1>2, <1>3 DEF Carries
<1>6. Increasing(s, k) => Increasing(t, k)
  BY <1>4 DEF Increasing
<1>7. Sequenced(s, k) => Sequenced(t, k)
  BY <1>4 DEF Sequenced
<1>8. EndsWithClose(s, k) => EndsWithClose(t, k)
  BY <1>4 DEF EndsWithClose
<1>9. ASSUME Increasing(s, k), Head(s).Key = k, Head(s).Type = "Body"
      PROVE  /\ Head(s).Body \in Bodies(s, k) /\ Head(s).Body \in Nat
             /\ \A i \in DOMAIN t : t[i].Key = k /\ t[i].Type = "Body" => Head(s).Body < t[i].Body
  BY <1>1, <1>2, <1>9 DEF Increasing, Bodies, Messages
<1>10. /\ Head(s).Key = k /\ Head(s).Type = "Body" =>
              Bodies(s, k) = Bodies(t, k) \union {Head(s).Body}
       /\ ~(Head(s).Key = k /\ Head(s).Type = "Body") => Bodies(t, k) = Bodies(s, k)
  BY <1>1, <1>2, <1>3 DEF Bodies
<1>11. ASSUME Increasing(s, k), Head(s).Key = k, Head(s).Type = "Body"
       PROVE  /\ Head(s).Body \notin Bodies(t, k)
              /\ \A n \in Bodies(s, k) : Head(s).Body <= n
  <2>1. \A n \in Bodies(t, k) : Head(s).Body < n
    BY <1>9, <1>11, Zenon DEF Bodies
  <2>2. \A n \in Bodies(t, k) : n \in Nat
    <3>1. \A i \in DOMAIN t : t[i] \in Messages
      BY TailQueue, LenProperties
    <3>. QED
      BY <3>1, Zenon DEF Bodies, Messages
  <2>. QED
    BY <1>9, <1>10, <1>11, <2>1, <2>2
<1>12. ASSUME Sequenced(s, k), Head(s).Key = k
       PROVE  /\ ~Carries(t, k, "Connect")
              /\ Head(s).Type = "Close" => ~Carries(t, k, "Body")
  BY <1>1, <1>2, <1>12 DEF Sequenced, Carries
<1>13. ASSUME EndsWithClose(s, k), Head(s).Key = k, Head(s).Type = "Close"
       PROVE  ~Carries(t, k, "Body") /\ ~Carries(t, k, "Close")
  BY <1>1, <1>2, <1>13, Zenon DEF EndsWithClose, Carries
<1>. QED
  BY <1>5, <1>6, <1>7, <1>8, <1>9, <1>10, <1>11, <1>12, <1>13, Zenon

\* Bodies are numbers.
LEMMA NatBodies ==
    ASSUME NEW s \in Seq(Messages), NEW k
    PROVE  \A n \in Bodies(s, k) : n \in Nat
<1>1. \A i \in DOMAIN s : s[i] \in Messages
  BY LenProperties, Zenon
<1>. QED
  BY <1>1, Zenon DEF Bodies, Messages

\* A receive of another message keeps the bodies of a session.
LEMMA ReceiveBodies ==
    ASSUME NEW s \in Seq(Messages), s # <<>>, NEW t, t = Tail(s), NEW k,
           ~(Head(s).Key = k /\ Head(s).Type = "Body")
    PROVE  Bodies(t, k) = Bodies(s, k)
<1>1. /\ Head(s) = s[1] /\ 1 \in DOMAIN s
      /\ \A i \in DOMAIN t : i + 1 \in DOMAIN s /\ t[i] = s[i + 1]
      /\ \A i \in DOMAIN s : i = 1 \/ (i - 1 \in DOMAIN t /\ t[i - 1] = s[i])
  BY TailQueue
<1>2. \A i \in DOMAIN t : \E j \in DOMAIN s : t[i] = s[j]
  BY <1>1, Zenon
<1>3. \A i \in DOMAIN s : i = 1 \/ \E j \in DOMAIN t : t[j] = s[i]
  BY <1>1, Zenon
<1>. QED
  BY <1>1, <1>2, <1>3 DEF Bodies

\* A queue without a Body message of a session.
LEMMA NoBodies ==
    ASSUME NEW s, NEW k, ~Carries(s, k, "Body")
    PROVE  Bodies(s, k) = {}
  BY Zenon DEF Carries, Bodies

\* What a send keeps of the order of Connect and Close.
LEMMA SendOrder ==
    ASSUME NEW s \in Seq(Messages), NEW m \in Messages, NEW t, t = Append(s, m), NEW k
    PROVE  /\ ConnectFirst(s, k) /\ (m.Key = k => m.Type # "Connect") => ConnectFirst(t, k)
           /\ ~Carries(s, k, "Connect") /\ ~Carries(s, k, "Body") /\ ~Carries(s, k, "Close")
                 => ConnectFirst(t, k)
           /\ \A p : Behind(s, k, p) /\
                 (m.Key = k /\ m.Type = "Body" => m.Body >= p \/ ~Carries(s, k, "Close"))
                    => Behind(t, k, p)
<1>. DEFINE n == Len(s) + 1
<1>1. /\ t[n] = m /\ n \in DOMAIN t
      /\ \A i \in DOMAIN s : i \in DOMAIN t /\ t[i] = s[i] /\ i < n
      /\ \A i \in DOMAIN t : i \in DOMAIN s \/ i = n
      /\ \A i, j \in DOMAIN t : i < j => i \in DOMAIN s
  BY AppendQueue
<1>. HIDE DEF n
<1>2. ASSUME ConnectFirst(s, k), m.Key = k => m.Type # "Connect" PROVE ConnectFirst(t, k)
  BY <1>1, <1>2 DEF ConnectFirst
<1>3. ASSUME ~Carries(s, k, "Connect"), ~Carries(s, k, "Body"), ~Carries(s, k, "Close")
      PROVE  ConnectFirst(t, k)
  <2>1. \A i \in DOMAIN s : s[i] \in Messages
    BY LenProperties, Zenon
  <2>2. \A i \in DOMAIN s : s[i].Type \in {"Connect", "Body", "Close"}
    BY <2>1, Zenon DEF Messages
  <2>3. \A i \in DOMAIN s : s[i].Key # k
    BY <1>3, <2>2, Zenon DEF Carries
  <2>. QED
    BY <1>1, <2>3, Zenon DEF ConnectFirst
<1>4. ASSUME NEW p, Behind(s, k, p),
             m.Key = k /\ m.Type = "Body" => m.Body >= p \/ ~Carries(s, k, "Close")
      PROVE  Behind(t, k, p)
  <2>. SUFFICES ASSUME NEW i \in DOMAIN t, NEW j \in DOMAIN t, i < j, t[i].Key = k,
                       t[i].Type = "Close", t[j].Key = k, t[j].Type = "Body"
                PROVE  t[j].Body >= p
    BY Zenon DEF Behind
  <2>1. i \in DOMAIN s /\ t[i] = s[i]
    BY <1>1, Zenon
  <2>2. CASE j \in DOMAIN s
    BY <1>1, <1>4, <2>1, <2>2, Zenon DEF Behind
  <2>3. CASE j = n
    BY <1>1, <1>4, <2>1, <2>3, Zenon DEF Carries
  <2>. QED
    BY <1>1, <2>2, <2>3, Zenon
<1>. QED
  BY <1>2, <1>3, <1>4, Zenon

\* And what a receive keeps of it.
LEMMA ReceiveOrder ==
    ASSUME NEW s \in Seq(Messages), s # <<>>, NEW t, t = Tail(s), NEW k
    PROVE  /\ ConnectFirst(s, k) =>
                 ConnectFirst(t, k) /\ (Head(s).Key = k => ~Carries(t, k, "Connect"))
           /\ \A p : Behind(s, k, p) =>
                 /\ Behind(t, k, p)
                 /\ Head(s).Key = k /\ Head(s).Type = "Close" => \A n \in Bodies(t, k) : n >= p
<1>1. /\ Head(s) = s[1] /\ 1 \in DOMAIN s
      /\ \A i \in DOMAIN t : i \in Nat /\ i + 1 \in DOMAIN s /\ t[i] = s[i + 1] /\ 1 < i + 1
  BY TailQueue
<1>2. \A i \in DOMAIN t : \E j \in DOMAIN s : 1 < j /\ t[i] = s[j]
  BY <1>1, Zenon
<1>3. \A i, j \in DOMAIN t : i < j =>
          \E u, v \in DOMAIN s : u < v /\ t[i] = s[u] /\ t[j] = s[v]
  BY <1>1
<1>4. ConnectFirst(s, k) =>
         ConnectFirst(t, k) /\ (Head(s).Key = k => ~Carries(t, k, "Connect"))
  BY <1>1, <1>2, <1>3 DEF ConnectFirst, Carries
<1>5. ASSUME NEW p, Behind(s, k, p)
      PROVE  /\ Behind(t, k, p)
             /\ Head(s).Key = k /\ Head(s).Type = "Close" => \A n \in Bodies(t, k) : n >= p
  <2>1. Behind(t, k, p)
    BY <1>3, <1>5 DEF Behind
  <2>2. Head(s).Key = k /\ Head(s).Type = "Close" => \A n \in Bodies(t, k) : n >= p
    BY <1>1, <1>2, <1>5 DEF Behind, Bodies
  <2>. QED
    BY <2>1, <2>2, Zenon
<1>. QED
  BY <1>4, <1>5, Zenon

--------------------------------------------------------------------------------
(* The invariant of a session k, whatever its handler is.                   *)

Gone(k) == client[k] \in {"closed", "ended"}

Responded(k) == Carries(responseChannel, k, "Body") \/ Carries(responseChannel, k, "Close")

\* Nothing happens in a session before its Connect, the read loop starts its handler
\* with the Connect, and closes its channel only after the client is gone.
LinkOK(k) ==
    /\ ConnectFirst(toBackend, k)
    /\ client[k] = "new" =>
          /\ sent[k] = 0 /\ k \notin handled
          /\ ~Carries(toBackend, k, "Connect") /\ ~Carries(toBackend, k, "Body")
          /\ ~Carries(toBackend, k, "Close")
    /\ k \in handled => ~Carries(toBackend, k, "Connect")
    /\ client[k] = "open" =>
          ~Carries(toBackend, k, "Close") /\ (k \in handled => k \in responders)
    /\ k \in chanClosed => Gone(k)
    /\ k \notin handled => incoming[k] = <<>> /\ ~Carries(responseChannel, k, "Body")
    /\ Responded(k) \/ client[k] = "ended" =>
          client[k] # "new" /\ ~Carries(toBackend, k, "Connect")

\* What the client sent is on its way in order: the handler has taken messages up to
\* low, and behind it come those in the channel and those on the websocket.
InputOK(k, low) ==
    /\ low <= sent[k]
    /\ Increasing(toBackend, k)
    /\ \A n \in Bodies(toBackend, k) : low < n /\ n <= sent[k]
    /\ \A i \in DOMAIN incoming[k] :
          /\ low < incoming[k][i] /\ incoming[k][i] <= sent[k]
          /\ \A n \in Bodies(toBackend, k) : incoming[k][i] < n
    /\ \A i, j \in DOMAIN incoming[k] : i < j => incoming[k][i] < incoming[k][j]

\* The numbers from 1 to n, the bodies most handlers send.
Count(n) == [i \in 1 .. n |-> i]

\* The bodies the handler has sent, while there is a client for them.
Rising(out) == \A i, j \in DOMAIN out : i < j => out[i] < out[j]

\* The client has received a beginning of them, and the rest is in responseChannel.
OutputOK(k, out) ==
    /\ Len(received[k]) <= Len(out)
    /\ \A i \in 1 .. Len(received[k]) : received[k][i] = out[i]
    /\ client[k] \in {"new", "open"} =>
          /\ Increasing(responseChannel, k)
          /\ Bodies(responseChannel, k) = {out[i] : i \in Len(received[k]) + 1 .. Len(out)}

\* The handler signals Close when it is done, and sends only bodies from p on after it:
\* so a client whose connection that Close ended misses no body below p.
CloseOK(k, out, done, p) ==
    /\ client[k] = "open" =>
          /\ k \in handled /\ ~done => ~Carries(responseChannel, k, "Close")
          /\ Behind(responseChannel, k, p)
    /\ client[k] = "ended" =>
          /\ k \in handled => done
          /\ \A i \in Len(received[k]) + 1 .. Len(out) : out[i] >= p

StreamOK(k, low, out, done, p) ==
    LinkOK(k) /\ InputOK(k, low) /\ OutputOK(k, out) /\ CloseOK(k, out, done, p)

--------------------------------------------------------------------------------
(* The steps of the backend and of a handler on its two channels.           *)

\* The proxy passes on a message of a client.
ProxySends(j, n) ==
    /\ client[j] # "new" /\ sent[j] < n /\ n <= MaxBodies
    /\ sent' = [sent EXCEPT ![j] = n]
    /\ toBackend' = Append(toBackend, Message(j, "Body", n))
    /\ UNCHANGED <<client, received, routeVars, responseChannel, connected>>

BackendStep(j) ==
    \/ ClientConnect(j) \/ ClientClose(j) \/ \E n \in Nat : ProxySends(j, n)
    \/ RouteConnect(j) \/ RouteBody(j) \/ RouteClose(j) \/ WriteMessage(j)

\* What the modules of the handlers call the proxy and the two loops.
LEMMA BackendSteps ==
    ASSUME BackendTypeOK, Proxy \/ ReadLoop \/ WriteLoop
    PROVE  \E j \in Sessions : BackendStep(j)
<1>1. ASSUME NEW j \in Sessions, ClientSend(j) PROVE \E n \in Nat : ProxySends(j, n)
  <2>1. sent[j] \in 0 .. MaxBodies /\ sent[j] + 1 \in Nat /\ sent[j] < sent[j] + 1
    BY BackendAssumption DEF BackendTypeOK
  <2>2. sent' = [sent EXCEPT ![j] = sent[j] + 1] /\ sent'[j] = sent[j] + 1
    BY <1>1, Zenon DEF ClientSend, BackendTypeOK
  <2>3. client[j] # "new" /\ sent[j] + 1 <= MaxBodies
    BY <1>1, <2>1, BackendAssumption DEF ClientSend
  <2>4. ProxySends(j, sent[j] + 1)
    BY <1>1, <2>1, <2>2, <2>3, Zenon DEF ClientSend, ProxySends
  <2>. QED
    BY <2>1, <2>4, Zenon
<1>. QED
  BY <1>1, Zenon DEF Proxy, ReadLoop, WriteLoop, BackendStep

Responses == [Key : Sessions, Type : {"Body", "Close"}, Body : Nat]

\* The queues under the type invariant.
LEMMA Queues ==
    ASSUME BackendTypeOK
    PROVE  /\ toBackend \in Seq(Messages) /\ responseChannel \in Seq(Messages)
           /\ responseChannel \in Seq(Responses)
           /\ \A k \in Sessions, type \in {"Connect", "Body", "Close"}, n \in Nat :
                 Message(k, type, n) \in Messages
           /\ \A k \in Sessions, type \in {"Body", "Close"}, n \in Nat :
                 Message(k, type, n) \in Responses
<1>1. Responses \subseteq Messages
  BY Zenon DEF Responses, Messages
<1>2. toBackend \in Seq(Messages) /\ responseChannel \in Seq(Responses)
  BY Zenon DEF BackendTypeOK, Messages, Responses
<1>3. responseChannel \in Seq(Messages)
  BY <1>1, <1>2
<1>. QED
  BY <1>2, <1>3, Zenon DEF Messages, Responses, Message

\* The types of the variables, one by one.
LEMMA BackendTypes ==
    BackendTypeOK <=>
        /\ client \in [Sessions -> {"new", "open", "closed", "ended"}]
        /\ sent \in [Sessions -> 0 .. MaxBodies] /\ received \in [Sessions -> Seq(Nat)]
        /\ toBackend \in Seq(Messages)
        /\ responders \subseteq handled /\ chanClosed \subseteq handled
        /\ handled \subseteq Sessions
        /\ incoming \in [Sessions -> Seq(Nat)]
        /\ \A k \in Sessions : Len(incoming[k]) <= ChanSize
        /\ responseChannel \in Seq(Responses) /\ Len(responseChannel) <= RespSize
        /\ connected \in BOOLEAN
  BY Zenon DEF BackendTypeOK, Messages, Responses

\* A message on the websocket keeps its type.
LEMMA PutTyped ==
    ASSUME BackendTypeOK, NEW j \in Sessions, NEW type \in {"Connect", "Body", "Close"},
           NEW n \in Nat, toBackend' = Append(toBackend, Message(j, type, n))
    PROVE  toBackend' \in Seq(Messages)
  BY Queues, AppendProperties, Zenon

\* What the read loop takes off the websocket.
LEMMA ReadTyped ==
    ASSUME BackendTypeOK, NEW j, NEW type, ReadMessage(j, type)
    PROVE  /\ toBackend' \in Seq(Messages) /\ Head(toBackend) \in Messages
           /\ Head(toBackend).Body \in Nat
<1>1. toBackend \in Seq(Messages) /\ toBackend # <<>> /\ toBackend' = Tail(toBackend)
  BY Queues, Zenon DEF ReadMessage
<1>2. toBackend' \in Seq(Messages) /\ Head(toBackend) \in Messages
  BY <1>1, HeadTailProperties, Zenon
<1>. QED
  BY <1>2, Zenon DEF Messages

\* A response fits into responseChannel.
LEMMA RespondTyped ==
    ASSUME BackendTypeOK, NEW j \in Sessions, NEW type \in {"Body", "Close"}, NEW n \in Nat,
           Respond(j, type, n)
    PROVE  responseChannel' \in Seq(Responses) /\ Len(responseChannel') <= RespSize
<1>1. responseChannel \in Seq(Responses) /\ Message(j, type, n) \in Responses
  BY Queues, Zenon
<1>. QED
  BY <1>1, BackendAssumption, AppendProperties DEF Respond

\* The channel of one session after a send or a receive.
LEMMA IncomingTyped ==
    ASSUME BackendTypeOK, NEW j \in Sessions, NEW s \in Seq(Nat), Len(s) <= ChanSize,
           incoming' = [incoming EXCEPT ![j] = s]
    PROVE  incoming' \in [Sessions -> Seq(Nat)] /\ \A k \in Sessions : Len(incoming'[k]) <= ChanSize
  BY Zenon DEF BackendTypeOK

\* The backend keeps its types.
LEMMA BackendStepType ==
    ASSUME BackendTypeOK, NEW j \in Sessions, BackendStep(j)
    PROVE  BackendTypeOK'
<1>. USE BackendTypes
<1>1. CASE ClientConnect(j) \/ ClientClose(j)
  <2>1. toBackend' \in Seq(Messages)
    BY <1>1, PutTyped, Zenon DEF ClientConnect, ClientClose
  <2>2. client' \in [Sessions -> {"new", "open", "closed", "ended"}]
    BY <1>1, Zenon DEF ClientConnect, ClientClose
  <2>. QED
    BY <1>1, <2>1, <2>2, Zenon DEF BackendTypeOK, Messages, Responses, ClientConnect,
        ClientClose, routeVars
<1>2. ASSUME NEW n \in Nat, ProxySends(j, n) PROVE BackendTypeOK'
  <2>1. toBackend' \in Seq(Messages)
    BY <1>2, PutTyped, Zenon DEF ProxySends
  <2>2. sent' \in [Sessions -> 0 .. MaxBodies]
    BY <1>2, BackendAssumption DEF ProxySends
  <2>. QED
    BY <1>2, <2>1, <2>2, Zenon DEF BackendTypeOK, Messages, Responses, ProxySends, routeVars
<1>3. CASE RouteConnect(j)
  <2>1. toBackend' \in Seq(Messages)
    BY <1>3, ReadTyped, Zenon DEF RouteConnect
  <2>2. responseChannel' \in Seq(Responses) /\ Len(responseChannel') <= RespSize
    BY <1>3, RespondTyped, Zenon DEF RouteConnect
  <2>3. responders' \subseteq handled' /\ handled \subseteq handled' /\ handled' \subseteq Sessions
    BY <1>3, Zenon DEF RouteConnect
  <2>. QED
    BY <1>3, <2>1, <2>2, <2>3, Zenon DEF BackendTypeOK, Messages, Responses, RouteConnect,
        proxyVars
<1>4. CASE RouteBody(j)
  <2>1. toBackend' \in Seq(Messages) /\ Head(toBackend).Body \in Nat
    BY <1>4, ReadTyped, Zenon DEF RouteBody
  <2>2. responseChannel' \in Seq(Responses) /\ Len(responseChannel') <= RespSize
    BY <1>4, RespondTyped, Zenon DEF RouteBody
  <2>3. incoming' \in [Sessions -> Seq(Nat)] /\ \A k \in Sessions : Len(incoming'[k]) <= ChanSize
    <3>1. CASE UNCHANGED incoming
      BY <3>1, Zenon
    <3>2. CASE /\ Len(incoming[j]) < ChanSize
               /\ incoming' = [incoming EXCEPT ![j] = Append(@, Head(toBackend).Body)]
      <4>. DEFINE s == Append(incoming[j], Head(toBackend).Body)
      <4>1. s \in Seq(Nat) /\ Len(s) <= ChanSize
        BY <2>1, <3>2, BackendAssumption, AppendProperties
      <4>2. incoming' = [incoming EXCEPT ![j] = s]
        BY <3>2, Zenon
      <4>. QED
        BY <4>1, <4>2, IncomingTyped, Zenon
    <3>. QED
      BY <1>4, <3>1, <3>2, Zenon DEF RouteBody
  <2>. QED
    BY <1>4, <2>1, <2>2, <2>3, Zenon DEF BackendTypeOK, Messages, Responses, RouteBody,
        proxyVars
<1>5. CASE RouteClose(j)
  <2>1. toBackend' \in Seq(Messages)
    BY <1>5, ReadTyped, Zenon DEF RouteClose
  <2>2. responders' \subseteq handled /\ chanClosed' \subseteq handled
    BY <1>5, Zenon DEF RouteClose
  <2>. QED
    BY <1>5, <2>1, <2>2, Zenon DEF BackendTypeOK, Messages, Responses, RouteClose, proxyVars
<1>6. CASE WriteMessage(j)
  <2>1. /\ responseChannel # <<>> /\ responseChannel \in Seq(Responses)
        /\ responseChannel' = Tail(responseChannel)
    BY <1>6, Queues, Zenon DEF WriteMessage
  <2>2. /\ responseChannel' \in Seq(Responses) /\ Len(responseChannel') <= RespSize
        /\ Head(responseChannel) \in Responses
    BY <2>1, BackendAssumption, HeadTailProperties
  <2>3. Head(responseChannel).Body \in Nat
    BY <2>2, Zenon DEF Responses
  <2>4. client' \in [Sessions -> {"new", "open", "closed", "ended"}]
    BY <1>6, Zenon DEF WriteMessage
  <2>5. toBackend' \in Seq(Messages)
    <3>1. UNCHANGED toBackend \/ toBackend' = Append(toBackend, Message(j, "Close", 0))
      BY <1>6, Zenon DEF WriteMessage
    <3>. QED
      BY <3>1, PutTyped, Zenon
  <2>6. received' \in [Sessions -> Seq(Nat)]
    <3>1. \/ UNCHANGED received
          \/ received' = [received EXCEPT ![j] = Append(@, Head(responseChannel).Body)]
      BY <1>6, Zenon DEF WriteMessage
    <3>2. received[j] \in Seq(Nat) /\ received \in [Sessions -> Seq(Nat)]
      BY Zenon
    <3>3. Append(received[j], Head(responseChannel).Body) \in Seq(Nat)
      BY <2>3, <3>2, AppendProperties, Zenon
    <3>. QED
      BY <3>1, <3>2, <3>3, Zenon
  <2>. QED
    BY <1>6, <2>2, <2>4, <2>5, <2>6, Zenon
    DEF BackendTypeOK, Messages, Responses, WriteMessage, routeVars
<1>. QED
  BY <1>1, <1>2, <1>3, <1>4, <1>5, <1>6, Zenon DEF BackendStep

\* So does a handler that receives, and one that sends.
LEMMA HandlerStepType ==
    ASSUME BackendTypeOK, NEW j \in Sessions,
           \/ ReceiveMessage(j)
           \/ \E type \in {"Body", "Close"}, n \in Nat : SendResponse(j, type, n)
    PROVE  BackendTypeOK'
<1>. USE BackendTypes
<1>1. CASE ReceiveMessage(j)
  <2>. DEFINE s == Tail(incoming[j])
  <2>1. incoming[j] \in Seq(Nat) /\ incoming[j] # <<>> /\ Len(incoming[j]) <= ChanSize
    BY <1>1, Zenon DEF ReceiveMessage
  <2>2. s \in Seq(Nat) /\ Len(s) <= ChanSize /\ incoming' = [incoming EXCEPT ![j] = s]
    BY <1>1, <2>1, BackendAssumption, HeadTailProperties DEF ReceiveMessage
  <2>3. incoming' \in [Sessions -> Seq(Nat)] /\ \A k \in Sessions : Len(incoming'[k]) <= ChanSize
    BY <2>2, IncomingTyped, Zenon
  <2>. QED
    BY <1>1, <2>3, Zenon DEF BackendTypeOK, Messages, Responses, ReceiveMessage, proxyVars
<1>2. ASSUME NEW type \in {"Body", "Close"}, NEW n \in Nat, SendResponse(j, type, n)
      PROVE  BackendTypeOK'
  BY <1>2, RespondTyped, Zenon DEF BackendTypeOK, Messages, Responses, SendResponse,
      proxyVars, routeVars
<1>. QED
  BY <1>1, <1>2, Zenon

--------------------------------------------------------------------------------
(* Steps that do not concern session k.                                     *)

\* The queue t says of session k what the queue s says of it.
SameQueue(s, t, k) ==
    /\ \A type \in {"Connect", "Body", "Close"} : Carries(t, k, type) <=> Carries(s, k, type)
    /\ Bodies(t, k) = Bodies(s, k)
    /\ Increasing(s, k) => Increasing(t, k)
    /\ ConnectFirst(s, k) => ConnectFirst(t, k)
    /\ \A p : Behind(s, k, p) => Behind(t, k, p)

SameView(k) ==
    /\ client'[k] = client[k] /\ sent'[k] = sent[k] /\ received'[k] = received[k]
    /\ incoming'[k] = incoming[k]
    /\ (k \in handled') = (k \in handled) /\ (k \in responders') = (k \in responders)
    /\ (k \in chanClosed') = (k \in chanClosed)
    /\ SameQueue(toBackend, toBackend', k)
    /\ SameQueue(responseChannel, responseChannel', k)

\* A message of another session that joins or leaves a queue.
LEMMA OtherMessage ==
    ASSUME NEW s \in Seq(Messages), NEW t, NEW k,
           \/ t = s
           \/ \E m \in Messages : m.Key # k /\ t = Append(s, m)
           \/ s # <<>> /\ Head(s).Key # k /\ t = Tail(s)
    PROVE  SameQueue(s, t, k)
<1>1. CASE t = s
  BY <1>1, Zenon DEF SameQueue
<1>2. ASSUME NEW m \in Messages, m.Key # k, t = Append(s, m) PROVE SameQueue(s, t, k)
  <2>1. \A type : Carries(t, k, type) <=> Carries(s, k, type)
    BY <1>2, SendQueue, Zenon
  <2>2. Bodies(t, k) = Bodies(s, k)
    BY <1>2, SendQueue, ZenonT(30)
  <2>3. Increasing(s, k) => Increasing(t, k)
    BY <1>2, SendQueue, Zenon
  <2>4. ConnectFirst(s, k) => ConnectFirst(t, k)
    BY <1>2, SendOrder, Zenon
  <2>5. \A p : Behind(s, k, p) => Behind(t, k, p)
    BY <1>2, SendOrder, Zenon
  <2>. QED
    BY <2>1, <2>2, <2>3, <2>4, <2>5, Zenon DEF SameQueue
<1>3. CASE s # <<>> /\ Head(s).Key # k /\ t = Tail(s)
  <2>1. \A type : Carries(t, k, type) <=> Carries(s, k, type)
    BY <1>3, ReceiveQueue, Zenon
  <2>2. Bodies(t, k) = Bodies(s, k)
    BY <1>3, ReceiveBodies, Zenon
  <2>3. Increasing(s, k) => Increasing(t, k)
    BY <1>3, ReceiveQueue, Zenon
  <2>4. ConnectFirst(s, k) => ConnectFirst(t, k)
    BY <1>3, ReceiveOrder, Zenon
  <2>5. \A p : Behind(s, k, p) => Behind(t, k, p)
    BY <1>3, ReceiveOrder, Zenon
  <2>. QED
    BY <2>1, <2>2, <2>3, <2>4, <2>5, Zenon DEF SameQueue
<1>. QED
  BY <1>1, <1>2, <1>3, Zenon

\* The backend's work for another session, and a step of no session.
LEMMA OtherSession ==
    ASSUME BackendTypeOK, NEW k \in Sessions, NEW j \in Sessions,
           \/ UNCHANGED backendVars \/ ReadError
           \/ /\ j # k
              /\ \/ BackendStep(j) \/ ReceiveMessage(j)
                 \/ \E type \in {"Body", "Close"}, n \in Nat : SendResponse(j, type, n)
    PROVE  SameView(k)
<1>1. CASE UNCHANGED backendVars \/ ReadError
  <2>1. UNCHANGED <<proxyVars, toBackend, routeVars, responseChannel>>
    BY <1>1, Zenon DEF backendVars, ReadError
  <2>2. SameQueue(toBackend, toBackend', k) /\ SameQueue(responseChannel, responseChannel', k)
    BY <2>1, Zenon DEF SameQueue
  <2>. QED
    BY <2>1, <2>2, Zenon DEF SameView, proxyVars, routeVars
<1>2. ASSUME j # k, BackendStep(j) PROVE SameView(k)
  <2>. DEFINE Other(s, t) == \/ t = s
                             \/ \E m \in Messages : m.Key # k /\ t = Append(s, m)
                             \/ s # <<>> /\ Head(s).Key # k /\ t = Tail(s)
  <2>1. \A type \in {"Connect", "Body", "Close"}, n \in Nat :
           Message(j, type, n) \in Messages /\ Message(j, type, n).Key # k
    BY <1>2, Zenon DEF Message, Messages
  <2>2. /\ toBackend \in Seq(Messages) /\ responseChannel \in Seq(Messages)
        /\ client \in [Sessions -> {"new", "open", "closed", "ended"}]
        /\ sent \in [Sessions -> 0 .. MaxBodies] /\ received \in [Sessions -> Seq(Nat)]
        /\ incoming \in [Sessions -> Seq(Nat)]
    BY Queues, BackendTypes, Zenon
  <2>3. Other(toBackend, toBackend')
    BY <1>2, <2>1, Zenon DEF BackendStep, ClientConnect, ClientClose, ProxySends,
       RouteConnect, RouteBody, RouteClose, ReadMessage, WriteMessage
  <2>4. Other(responseChannel, responseChannel')
    BY <1>2, <2>1, Zenon DEF BackendStep, ClientConnect, ClientClose, ProxySends,
       RouteConnect, RouteBody, RouteClose, Respond, WriteMessage
  <2>5. SameQueue(toBackend, toBackend', k)
    BY <2>2, <2>3, OtherMessage, Zenon
  <2>6. SameQueue(responseChannel, responseChannel', k)
    BY <2>2, <2>4, OtherMessage, Zenon
  <2>7. client'[k] = client[k] /\ sent'[k] = sent[k] /\ received'[k] = received[k]
    BY <1>2, <2>2, Zenon DEF BackendStep, ClientConnect, ClientClose, ProxySends,
       RouteConnect, RouteBody, RouteClose, WriteMessage, proxyVars
  <2>8. incoming'[k] = incoming[k]
    BY <1>2, <2>2, Zenon DEF BackendStep, ClientConnect, ClientClose, ProxySends,
       RouteConnect, RouteBody, RouteClose, WriteMessage, routeVars
  <2>9. /\ (k \in handled') = (k \in handled) /\ (k \in responders') = (k \in responders)
        /\ (k \in chanClosed') = (k \in chanClosed)
    BY <1>2 DEF BackendStep, ClientConnect, ClientClose, ProxySends,
       RouteConnect, RouteBody, RouteClose, WriteMessage, routeVars
  <2>. QED
    BY <2>5, <2>6, <2>7, <2>8, <2>9, Zenon DEF SameView
<1>3. ASSUME j # k, ReceiveMessage(j) PROVE SameView(k)
  <2>1. incoming'[k] = incoming[k]
    BY <1>3, Zenon DEF ReceiveMessage, BackendTypeOK
  <2>2. SameQueue(toBackend, toBackend', k) /\ SameQueue(responseChannel, responseChannel', k)
    BY <1>3, Zenon DEF SameQueue, ReceiveMessage
  <2>. QED
    BY <1>3, <2>1, <2>2, Zenon DEF SameView, ReceiveMessage, proxyVars
<1>4. ASSUME j # k, NEW type \in {"Body", "Close"}, NEW n \in Nat, SendResponse(j, type, n)
      PROVE  SameView(k)
  <2>1. Message(j, type, n) \in Messages /\ Message(j, type, n).Key # k
    BY <1>4, Zenon DEF Message, Messages
  <2>2. responseChannel \in Seq(Messages)
    BY Queues, Zenon
  <2>3. responseChannel' = Append(responseChannel, Message(j, type, n))
    BY <1>4, Zenon DEF SendResponse, Respond
  <2>4. SameQueue(responseChannel, responseChannel', k)
    BY <2>1, <2>2, <2>3, OtherMessage, ZenonT(30)
  <2>5. SameQueue(toBackend, toBackend', k)
    BY <1>4, Zenon DEF SameQueue, SendResponse
  <2>. QED
    BY <1>4, <2>4, <2>5, Zenon DEF SameView, SendResponse, proxyVars, routeVars
<1>. QED
  BY <1>1, <1>2, <1>3, <1>4, Zenon

\* They keep the invariant of k.
LEMMA SameViewKeeps ==
    ASSUME NEW k \in Sessions, NEW low, NEW out, NEW done, NEW p,
           SameView(k), StreamOK(k, low, out, done, p)
    PROVE  StreamOK(k, low, out, done, p)'
<1>. USE DEF SameView, SameQueue
<1>1. LinkOK(k)'
  BY Zenon DEF StreamOK, LinkOK, Gone, Responded
<1>2. InputOK(k, low)'
  BY Zenon DEF StreamOK, InputOK
<1>3. OutputOK(k, out)'
  BY Zenon DEF StreamOK, OutputOK
<1>4. CloseOK(k, out, done, p)'
  BY Zenon DEF StreamOK, CloseOK
<1>. QED
  BY <1>1, <1>2, <1>3, <1>4, Zenon DEF StreamOK

--------------------------------------------------------------------------------
(* Steps of session k.                                                      *)

\* A Connect, a Close or a Body message of session k makes the queue s the queue t.
PutsConnect(s, t, k) ==
    /\ Carries(t, k, "Connect") /\ Bodies(t, k) = Bodies(s, k)
    /\ \A type \in {"Body", "Close"} : Carries(t, k, type) <=> Carries(s, k, type)
    /\ Increasing(s, k) => Increasing(t, k)
    /\ ~Carries(s, k, "Connect") /\ ~Carries(s, k, "Body") /\ ~Carries(s, k, "Close")
          => ConnectFirst(t, k)

PutsClose(s, t, k) ==
    /\ Carries(t, k, "Close") /\ Bodies(t, k) = Bodies(s, k)
    /\ \A type \in {"Connect", "Body"} : Carries(t, k, type) <=> Carries(s, k, type)
    /\ Increasing(s, k) => Increasing(t, k)
    /\ ConnectFirst(s, k) => ConnectFirst(t, k)
    /\ \A p : Behind(s, k, p) => Behind(t, k, p)

PutsBody(s, t, k, n) ==
    /\ Carries(t, k, "Body") /\ Bodies(t, k) = Bodies(s, k) \union {n}
    /\ \A type \in {"Connect", "Close"} : Carries(t, k, type) <=> Carries(s, k, type)
    /\ Increasing(s, k) /\ (\A b \in Bodies(s, k) : b < n) => Increasing(t, k)
    /\ ConnectFirst(s, k) => ConnectFirst(t, k)
    /\ \A p : Behind(s, k, p) /\ (n >= p \/ ~Carries(s, k, "Close")) => Behind(t, k, p)

\* What they say is what an Append does.
LEMMA OwnSend ==
    ASSUME NEW s \in Seq(Messages), NEW k \in Sessions, NEW n \in Nat, NEW t
    PROVE  /\ t = Append(s, Message(k, "Connect", n)) => PutsConnect(s, t, k)
           /\ t = Append(s, Message(k, "Close", n)) => PutsClose(s, t, k)
           /\ t = Append(s, Message(k, "Body", n)) => PutsBody(s, t, k, n)
<1>. SUFFICES ASSUME NEW type \in {"Connect", "Body", "Close"},
                     t = Append(s, Message(k, type, n))
              PROVE  /\ type = "Connect" => PutsConnect(s, t, k)
                     /\ type = "Close" => PutsClose(s, t, k)
                     /\ type = "Body" => PutsBody(s, t, k, n)
  BY Zenon
<1>0. PICK m \in Messages : m = Message(k, type, n)
  BY Zenon DEF Message, Messages
<1>1. m.Key = k /\ m.Type = type /\ m.Body = n /\ t = Append(s, m)
  BY <1>0, Zenon DEF Message
<1>2. \A u : Carries(t, k, u) <=> Carries(s, k, u) \/ type = u
  BY <1>1, SendQueue, ZenonT(30)
<1>3. /\ type = "Body" => Bodies(t, k) = Bodies(s, k) \union {n}
      /\ type # "Body" => Bodies(t, k) = Bodies(s, k)
  <2>1. /\ m.Type = "Body" => Bodies(t, m.Key) = Bodies(s, m.Key) \union {m.Body}
        /\ m.Type # "Body" => Bodies(t, m.Key) = Bodies(s, m.Key)
    BY <1>1, SendCarries, Zenon
  <2>. QED
    BY <1>1, <2>1, Zenon
<1>4. Increasing(s, k) /\ (type = "Body" => \A b \in Bodies(s, k) : b < n)
          => Increasing(t, k)
  BY <1>1, SendQueue, Zenon
<1>5. /\ ConnectFirst(s, k) /\ type # "Connect" => ConnectFirst(t, k)
      /\ ~Carries(s, k, "Connect") /\ ~Carries(s, k, "Body") /\ ~Carries(s, k, "Close")
            => ConnectFirst(t, k)
  BY <1>1, SendOrder, Zenon
<1>6. \A p : Behind(s, k, p) /\ (type = "Body" => n >= p \/ ~Carries(s, k, "Close"))
             => Behind(t, k, p)
  BY <1>1, SendOrder, Zenon
<1>7. ASSUME type = "Connect" PROVE PutsConnect(s, t, k)
  BY <1>2, <1>3, <1>4, <1>5, <1>7, Zenon DEF PutsConnect
<1>8. ASSUME type = "Close" PROVE PutsClose(s, t, k)
  BY <1>2, <1>3, <1>4, <1>5, <1>6, <1>8, Zenon DEF PutsClose
<1>9. ASSUME type = "Body" PROVE PutsBody(s, t, k, n)
  BY <1>2, <1>3, <1>4, <1>5, <1>6, <1>9, Zenon DEF PutsBody
<1>. QED
  BY <1>7, <1>8, <1>9, Zenon

\* A message of session k leaves the queue s, which becomes the queue t.
Takes(s, t, k, type, n) ==
    /\ Carries(s, k, type)
    /\ \A u \in {"Connect", "Body", "Close"} : Carries(t, k, u) => Carries(s, k, u)
    /\ type # "Body" => Bodies(t, k) = Bodies(s, k)
    /\ Increasing(s, k) => Increasing(t, k)
    /\ type = "Body" /\ Increasing(s, k) =>
          /\ n \in Bodies(s, k) /\ Bodies(t, k) = Bodies(s, k) \ {n}
          /\ \A b \in Bodies(s, k) : n <= b
    /\ ConnectFirst(s, k) => ConnectFirst(t, k) /\ ~Carries(t, k, "Connect")
    /\ \A p : Behind(s, k, p) =>
          Behind(t, k, p) /\ (type = "Close" => \A b \in Bodies(t, k) : b >= p)

\* What it says is what a receive does.
LEMMA OwnReceive ==
    ASSUME NEW s \in Seq(Messages), s # <<>>, NEW t, t = Tail(s), NEW k, Head(s).Key = k
    PROVE  Takes(s, t, k, Head(s).Type, Head(s).Body)
<1>1. \A u : Carries(s, k, u) <=> Carries(t, k, u) \/ Head(s).Type = u
  BY ReceiveCarries, Zenon
<1>2. Head(s).Type # "Body" => Bodies(t, k) = Bodies(s, k)
  BY ReceiveBodies, Zenon
<1>3. Increasing(s, k) => Increasing(t, k)
  BY ReceiveQueue, Zenon
<1>4. Head(s).Type = "Body" /\ Increasing(s, k) =>
         /\ Head(s).Body \in Bodies(s, k) /\ Bodies(t, k) = Bodies(s, k) \ {Head(s).Body}
         /\ \A b \in Bodies(s, k) : Head(s).Body <= b
  BY ReceiveQueue, Zenon
<1>5. ConnectFirst(s, k) => ConnectFirst(t, k) /\ ~Carries(t, k, "Connect")
  BY ReceiveOrder, Zenon
<1>6. \A p : Behind(s, k, p) =>
         Behind(t, k, p) /\ (Head(s).Type = "Close" => \A b \in Bodies(t, k) : b >= p)
  BY ReceiveOrder, Zenon
<1>. QED
  BY <1>1, <1>2, <1>3, <1>4, <1>5, <1>6, Zenon DEF Takes

\* The proxy's steps keep the invariant of their session.
LEMMA ProxyStep ==
    ASSUME NEW k \in Sessions, NEW low \in Nat, NEW out \in Seq(Nat), NEW done \in BOOLEAN,
           NEW p \in Nat, BackendTypeOK, StreamOK(k, low, out, done, p),
           ClientConnect(k) \/ ClientClose(k) \/ \E n \in Nat : ProxySends(k, n)
    PROVE  StreamOK(k, low, out, done, p)'
<1>. DEFINE s == toBackend
            t == toBackend'
<1>1. s \in Seq(Messages) /\ client[k] \in {"new", "open", "closed", "ended"} /\ sent[k] \in Nat
  <2>1. s \in Seq(Messages)
    BY Queues, Zenon
  <2>2. client[k] \in {"new", "open", "closed", "ended"} /\ sent[k] \in 0 .. MaxBodies
    BY Zenon DEF BackendTypeOK
  <2>. QED
    BY <2>1, <2>2, BackendAssumption
<1>2. LinkOK(k) /\ InputOK(k, low) /\ OutputOK(k, out) /\ CloseOK(k, out, done, p)
  BY Zenon DEF StreamOK
<1>3. /\ received'[k] = received[k] /\ incoming'[k] = incoming[k]
      /\ (k \in handled') = (k \in handled) /\ (k \in responders') = (k \in responders)
      /\ (k \in chanClosed') = (k \in chanClosed) /\ responseChannel' = responseChannel
  BY Zenon DEF ClientConnect, ClientClose, ProxySends, routeVars
<1>4. CASE ClientConnect(k)
  <2>1. /\ client[k] = "new" /\ client'[k] = "open" /\ sent'[k] = sent[k]
        /\ t = Append(s, Message(k, "Connect", 0))
    BY <1>4, Zenon DEF ClientConnect, BackendTypeOK
  <2>2. PutsConnect(s, t, k)
    BY <1>1, <2>1, OwnSend, Zenon
  <2>3. LinkOK(k)'
    BY <1>2, <1>3, <2>1, <2>2, Zenon DEF LinkOK, Gone, Responded, PutsConnect
  <2>4. InputOK(k, low)'
    BY <1>2, <1>3, <2>1, <2>2, Zenon DEF InputOK, PutsConnect
  <2>5. OutputOK(k, out)'
    BY <1>2, <1>3, <2>1, Zenon DEF OutputOK
  <2>6. CloseOK(k, out, done, p)'
    <3>1. ~Carries(responseChannel, k, "Close") /\ k \notin handled
      BY <1>2, <2>1, Zenon DEF LinkOK, Responded
    <3>. QED
      BY <1>3, <2>1, <3>1, Zenon DEF CloseOK, Carries, Behind
  <2>. QED
    BY <2>3, <2>4, <2>5, <2>6, Zenon DEF StreamOK
<1>5. CASE ClientClose(k)
  <2>1. /\ client[k] = "open" /\ client'[k] = "closed" /\ sent'[k] = sent[k]
        /\ t = Append(s, Message(k, "Close", 0))
    BY <1>5, Zenon DEF ClientClose, BackendTypeOK
  <2>2. PutsClose(s, t, k)
    BY <1>1, <2>1, OwnSend, Zenon
  <2>3. LinkOK(k)'
    BY <1>2, <1>3, <2>1, <2>2, Zenon DEF LinkOK, Gone, Responded, PutsClose
  <2>4. InputOK(k, low)'
    BY <1>2, <1>3, <2>1, <2>2, Zenon DEF InputOK, PutsClose
  <2>5. OutputOK(k, out)'
    BY <1>2, <1>3, <2>1, Zenon DEF OutputOK
  <2>6. CloseOK(k, out, done, p)'
    BY <2>1, Zenon DEF CloseOK
  <2>. QED
    BY <2>3, <2>4, <2>5, <2>6, Zenon DEF StreamOK
<1>6. ASSUME NEW n \in Nat, ProxySends(k, n) PROVE StreamOK(k, low, out, done, p)'
  <2>1. /\ client[k] # "new" /\ client'[k] = client[k] /\ sent[k] < n /\ sent'[k] = n
        /\ t = Append(s, Message(k, "Body", n))
    BY <1>6, Zenon DEF ProxySends, BackendTypeOK
  <2>2. PutsBody(s, t, k, n)
    BY <1>1, <2>1, OwnSend, Zenon
  <2>3. LinkOK(k)'
    BY <1>2, <1>3, <2>1, <2>2, Zenon DEF LinkOK, Gone, Responded, PutsBody
  <2>4. InputOK(k, low)'
    <3>1. \A b \in Bodies(s, k) : b \in Nat
      BY <1>1, NatBodies, Zenon
    <3>2. incoming[k] \in Seq(Nat)
      BY Zenon DEF BackendTypeOK
    <3>3. \A i \in DOMAIN incoming[k] : incoming[k][i] \in Nat
      BY <3>2, LenProperties, Zenon
    <3>. QED
      BY <1>1, <1>2, <1>3, <2>1, <2>2, <3>1, <3>3, SMTT(30) DEF InputOK, PutsBody
  <2>5. OutputOK(k, out)'
    BY <1>2, <1>3, <2>1, Zenon DEF OutputOK
  <2>6. CloseOK(k, out, done, p)'
    BY <1>2, <1>3, <2>1, Zenon DEF CloseOK
  <2>. QED
    BY <2>3, <2>4, <2>5, <2>6, Zenon DEF StreamOK
<1>. QED
  BY <1>4, <1>5, <1>6, Zenon

\* The queue the read loop leaves behind.
LEMMA ReadTakes ==
    ASSUME BackendTypeOK, NEW k \in Sessions, NEW type, ReadMessage(k, type)
    PROVE  /\ Takes(toBackend, toBackend', k, type, Head(toBackend).Body)
           /\ Head(toBackend).Body \in Nat
<1>1. /\ toBackend \in Seq(Messages) /\ toBackend # <<>> /\ toBackend' = Tail(toBackend)
      /\ Head(toBackend).Key = k /\ Head(toBackend).Type = type
  BY Queues, Zenon DEF ReadMessage
<1>2. Takes(toBackend, toBackend', k, Head(toBackend).Type, Head(toBackend).Body)
  BY <1>1, OwnReceive, Zenon
<1>. QED
  BY <1>1, <1>2, ReadTyped, Zenon

\* A sequence, such as a channel, with one more element.
LEMMA OneMore ==
    ASSUME NEW q \in Seq(Nat), NEW b \in Nat, NEW r, r = Append(q, b)
    PROVE  /\ DOMAIN r = 1 .. Len(q) + 1 /\ r[Len(q) + 1] = b /\ Len(q) \in Nat
           /\ DOMAIN q = 1 .. Len(q)
           /\ \A i \in DOMAIN q : r[i] = q[i]
  BY AppendProperties, LenProperties

\* So do the read loop's.
LEMMA RouteStep ==
    ASSUME NEW k \in Sessions, NEW low \in Nat, NEW out \in Seq(Nat), NEW done \in BOOLEAN,
           NEW p \in Nat, BackendTypeOK, StreamOK(k, low, out, done, p),
           RouteConnect(k) \/ RouteBody(k) \/ RouteClose(k)
    PROVE  StreamOK(k, low, out, done, p)'
<1>. DEFINE s == toBackend
            t == toBackend'
            b == Head(toBackend).Body
<1>1. LinkOK(k) /\ InputOK(k, low) /\ OutputOK(k, out) /\ CloseOK(k, out, done, p)
  BY Zenon DEF StreamOK
<1>2. client'[k] = client[k] /\ sent'[k] = sent[k] /\ received'[k] = received[k]
  BY Zenon DEF RouteConnect, RouteBody, RouteClose, proxyVars
<1>3. client[k] \in {"new", "open", "closed", "ended"} /\ responders \subseteq handled
  BY Zenon DEF BackendTypeOK
<1>4. ASSUME UNCHANGED responseChannel PROVE OutputOK(k, out)'
  BY <1>1, <1>2, <1>4, Zenon DEF OutputOK
<1>5. ASSUME Respond(k, "Close", 0)
      PROVE  PutsClose(responseChannel, responseChannel', k) /\ OutputOK(k, out)'
  <2>1. PutsClose(responseChannel, responseChannel', k)
    BY <1>5, Queues, OwnSend, Zenon DEF Respond
  <2>. QED
    BY <1>1, <1>2, <2>1, Zenon DEF OutputOK, PutsClose
<1>6. CASE RouteConnect(k)
  <2>1. Takes(s, t, k, "Connect", b)
    BY <1>6, ReadTakes, Zenon DEF RouteConnect
  <2>2. incoming'[k] = incoming[k] /\ (k \in chanClosed') = (k \in chanClosed)
    BY <1>6, ZenonT(30) DEF RouteConnect
  <2>3. /\ client[k] \notin {"new", "ended"} /\ k \notin handled
        /\ ~Carries(responseChannel, k, "Body") /\ ~Carries(responseChannel, k, "Close")
    BY <1>1, <2>1, Zenon DEF LinkOK, Takes, Responded
  <2>4. InputOK(k, low)'
    BY <1>1, <1>2, <2>1, <2>2, Zenon DEF InputOK, Takes
  <2>5. CASE k \in responders' /\ k \in handled' /\ UNCHANGED responseChannel
    <3>1. LinkOK(k)'
      BY <1>1, <1>2, <1>3, <2>1, <2>2, <2>3, <2>5, ZenonT(30) DEF LinkOK, Takes, Gone, Responded
    <3>2. CloseOK(k, out, done, p)'
      BY <1>1, <1>2, <2>3, <2>5, Zenon DEF CloseOK
    <3>. QED
      BY <1>4, <2>4, <2>5, <3>1, <3>2, Zenon DEF StreamOK
  <2>6. CASE UNCHANGED <<responders, handled>> /\ Respond(k, "Close", 0)
    <3>1. LinkOK(k)'
      BY <1>1, <1>2, <1>3, <1>5, <2>1, <2>2, <2>3, <2>6, ZenonT(30)
      DEF LinkOK, Takes, Gone, Responded, PutsClose
    <3>2. CloseOK(k, out, done, p)'
      BY <1>1, <1>2, <1>5, <2>3, <2>6, Zenon DEF CloseOK, PutsClose
    <3>. QED
      BY <1>5, <2>4, <2>6, <3>1, <3>2, Zenon DEF StreamOK
  <2>7. CASE UNCHANGED <<responders, handled, responseChannel>>
    <3>1. LinkOK(k)'
      BY <1>1, <1>2, <1>3, <2>1, <2>2, <2>3, <2>7, Zenon DEF LinkOK, Takes, Gone, Responded
    <3>2. CloseOK(k, out, done, p)'
      BY <1>1, <1>2, <2>3, <2>7, Zenon DEF CloseOK
    <3>. QED
      BY <1>4, <2>4, <2>7, <3>1, <3>2, Zenon DEF StreamOK
  <2>. QED
    BY <1>6, <2>5, <2>6, <2>7, Zenon DEF RouteConnect
<1>7. CASE RouteBody(k)
  <2>1. Takes(s, t, k, "Body", b) /\ b \in Nat
    BY <1>7, ReadTakes, Zenon DEF RouteBody
  <2>2. /\ (k \in handled') = (k \in handled) /\ (k \in responders') = (k \in responders)
        /\ (k \in chanClosed') = (k \in chanClosed)
    BY <1>7, Zenon DEF RouteBody
  <2>3. \A n \in Bodies(t, k) : n \in Bodies(s, k) /\ b < n
    <3>1. Increasing(s, k)
      BY <1>1, Zenon DEF InputOK
    <3>2. \A n \in Bodies(s, k) : n \in Nat
      BY Queues, NatBodies, Zenon
    <3>. QED
      BY <2>1, <3>1, <3>2 DEF Takes
  <2>4. CASE /\ k \in responders /\ UNCHANGED responseChannel
             /\ incoming' = [incoming EXCEPT ![k] = Append(@, b)]
    <3>1. incoming[k] \in Seq(Nat) /\ incoming'[k] = Append(incoming[k], b)
      BY <2>4, Zenon DEF BackendTypeOK
    <3>2. LinkOK(k)'
      BY <1>1, <1>2, <1>3, <2>1, <2>2, <2>4, Zenon DEF LinkOK, Takes, Gone, Responded
    <3>3. InputOK(k, low)'
      <4>. DEFINE q == incoming[k]
                  r == incoming'[k]
      <4>1. /\ DOMAIN r = 1 .. Len(q) + 1 /\ r[Len(q) + 1] = b /\ Len(q) \in Nat
            /\ DOMAIN q = 1 .. Len(q)
            /\ \A i \in DOMAIN q : r[i] = q[i]
        BY <2>1, <3>1, OneMore
      <4>2. /\ b \in Bodies(s, k) /\ Increasing(t, k) /\ low < b /\ b <= sent[k]
            /\ \A i \in DOMAIN q : q[i] < b
        BY <1>1, <2>1, Zenon DEF InputOK, Takes
      <4>3. \A i \in DOMAIN r :
               /\ low < r[i] /\ r[i] <= sent[k] /\ \A n \in Bodies(t, k) : r[i] < n
        <5>1. \A i \in DOMAIN r : i \in DOMAIN q \/ r[i] = b
          BY <4>1
        <5>2. \A i \in DOMAIN q :
                 /\ low < q[i] /\ q[i] <= sent[k] /\ \A n \in Bodies(s, k) : q[i] < n
          BY <1>1, Zenon DEF InputOK
        <5>. QED
          BY <2>3, <4>1, <4>2, <5>1, <5>2, Zenon
      <4>4. \A i, j \in DOMAIN r : i < j => r[i] < r[j]
        <5>1. \A i, j \in DOMAIN r :
                 i < j => i \in DOMAIN q /\ (j \in DOMAIN q \/ j = Len(q) + 1)
          BY <4>1
        <5>2. \A i, j \in DOMAIN q : i < j => q[i] < q[j]
          BY <1>1, Zenon DEF InputOK
        <5>. QED
          BY <4>1, <4>2, <5>1, <5>2, Zenon
      <4>. QED
        BY <1>1, <1>2, <2>3, <4>2, <4>3, <4>4, ZenonT(30) DEF InputOK
    <3>4. CloseOK(k, out, done, p)'
      BY <1>1, <1>2, <2>2, <2>4, Zenon DEF CloseOK
    <3>. QED
      BY <1>4, <2>4, <3>2, <3>3, <3>4, Zenon DEF StreamOK
  <2>5. CASE k \notin responders /\ Respond(k, "Close", 0) /\ UNCHANGED incoming
    <3>1. LinkOK(k)'
      BY <1>1, <1>2, <1>3, <1>5, <2>1, <2>2, <2>5, ZenonT(30)
      DEF LinkOK, Takes, Gone, Responded, PutsClose
    <3>2. InputOK(k, low)'
      BY <1>1, <1>2, <2>1, <2>3, <2>5, ZenonT(30) DEF InputOK, Takes
    <3>3. CloseOK(k, out, done, p)'
      <4>1. client[k] = "open" => k \notin handled
        BY <1>1, <2>5, Zenon DEF LinkOK
      <4>. QED
        BY <1>1, <1>2, <1>5, <2>2, <2>5, <4>1, ZenonT(30) DEF CloseOK, PutsClose
    <3>. QED
      BY <1>5, <2>5, <3>1, <3>2, <3>3, Zenon DEF StreamOK
  <2>. QED
    BY <1>7, <2>4, <2>5, Zenon DEF RouteBody
<1>8. CASE RouteClose(k)
  <2>1. Takes(s, t, k, "Close", b)
    BY <1>8, ReadTakes, Zenon DEF RouteClose
  <2>2. /\ (k \in handled') = (k \in handled) /\ incoming'[k] = incoming[k]
        /\ UNCHANGED responseChannel
    BY <1>8, ZenonT(30) DEF RouteClose
  <2>3. Gone(k) /\ Gone(k)'
    BY <1>1, <1>2, <1>3, <2>1, ZenonT(30) DEF LinkOK, Takes, Gone
  <2>4. LinkOK(k)'
    BY <1>1, <1>2, <1>3, <2>1, <2>2, <2>3, ZenonT(30) DEF LinkOK, Takes, Gone, Responded
  <2>5. InputOK(k, low)'
    BY <1>1, <1>2, <2>1, <2>2, ZenonT(30) DEF InputOK, Takes
  <2>6. CloseOK(k, out, done, p)'
    BY <1>1, <1>2, <2>2, ZenonT(30) DEF CloseOK
  <2>. QED
    BY <1>4, <2>2, <2>4, <2>5, <2>6, Zenon DEF StreamOK
<1>. QED
  BY <1>6, <1>7, <1>8, Zenon

\* The client has received r of out, and B is the rest.
Rest(out, r, B) ==
    /\ Len(r) <= Len(out) /\ \A i \in 1 .. Len(r) : r[i] = out[i]
    /\ B = {out[i] : i \in Len(r) + 1 .. Len(out)}

\* The least body of the rest is the one the client receives next.
LEMMA NextReceived ==
    ASSUME NEW out \in Seq(Nat), Rising(out), NEW r \in Seq(Nat), NEW B, Rest(out, r, B),
           NEW b \in B, \A n \in B : b <= n
    PROVE  Rest(out, Append(r, b), B \ {b})
<1>. DEFINE q == Append(r, b)
<1>1. /\ Len(r) \in Nat /\ Len(out) \in Nat /\ DOMAIN out = 1 .. Len(out)
      /\ \A i \in 1 .. Len(out) : out[i] \in Nat
  BY LenProperties, Zenon
<1>2. PICK i \in Len(r) + 1 .. Len(out) : b = out[i]
  BY Zenon DEF Rest
<1>3. Len(r) + 1 \in DOMAIN out /\ i \in DOMAIN out
  BY <1>1, <1>2
<1>4. i = Len(r) + 1
  <2>1. out[Len(r) + 1] \in B
    BY <1>1, <1>3 DEF Rest
  <2>2. out[i] <= out[Len(r) + 1]
    BY <1>2, <2>1, Zenon
  <2>3. ASSUME Len(r) + 1 < i PROVE FALSE
    BY <1>1, <1>3, <2>2, <2>3 DEF Rising
  <2>. QED
    BY <1>1, <1>2, <2>3
<1>5. Len(q) = Len(r) + 1 /\ q[Len(r) + 1] = b /\ \A h \in 1 .. Len(r) : q[h] = r[h]
  <2>1. b \in Nat
    BY <1>1, <1>2, <1>3, Zenon
  <2>. QED
    BY <2>1, AppendProperties
<1>. HIDE DEF q
<1>6. ASSUME NEW h \in Len(r) + 2 .. Len(out) PROVE out[h] # b
  <2>1. h \in DOMAIN out /\ Len(r) + 1 < h
    BY <1>1
  <2>2. out[Len(r) + 1] < out[h]
    BY <1>3, <2>1, Zenon DEF Rising
  <2>. QED
    BY <1>1, <1>2, <1>3, <1>4, <2>1, <2>2
<1>7. B \ {b} = {out[h] : h \in Len(q) + 1 .. Len(out)}
  <2>1. \A h \in Len(q) + 1 .. Len(out) : out[h] \in B \ {b}
    BY <1>1, <1>5, <1>6 DEF Rest
  <2>2. \A n \in B \ {b} : \E h \in Len(q) + 1 .. Len(out) : n = out[h]
    BY <1>1, <1>2, <1>4, <1>5 DEF Rest
  <2>. QED
    BY <2>1, <2>2, Zenon
<1>8. \A h \in 1 .. Len(q) : q[h] = out[h]
  <2>. SUFFICES ASSUME NEW h \in 1 .. Len(q) PROVE q[h] = out[h]
    BY Zenon
  <2>1. CASE h \in 1 .. Len(r)
    BY <1>5, <2>1, Zenon DEF Rest
  <2>2. CASE h = Len(r) + 1
    BY <1>2, <1>4, <1>5, <2>2, Zenon
  <2>. QED
    BY <1>1, <1>5, <2>1, <2>2
<1>9. Len(q) <= Len(out)
  BY <1>1, <1>2, <1>4, <1>5
<1>. QED
  BY <1>7, <1>8, <1>9, Zenon DEF Rest, q

\* So do the write loop's.
LEMMA WriteStep ==
    ASSUME NEW k \in Sessions, NEW low \in Nat, NEW out \in Seq(Nat), NEW done \in BOOLEAN,
           NEW p \in Nat, BackendTypeOK, StreamOK(k, low, out, done, p), Rising(out),
           WriteMessage(k)
    PROVE  StreamOK(k, low, out, done, p)'
<1>. DEFINE c == responseChannel
            d == responseChannel'
            m == Head(responseChannel)
<1>1. LinkOK(k) /\ InputOK(k, low) /\ OutputOK(k, out) /\ CloseOK(k, out, done, p)
  BY Zenon DEF StreamOK
<1>2. /\ sent'[k] = sent[k] /\ incoming'[k] = incoming[k]
      /\ (k \in handled') = (k \in handled) /\ (k \in responders') = (k \in responders)
      /\ (k \in chanClosed') = (k \in chanClosed)
  BY Zenon DEF WriteMessage, routeVars
<1>3. c \in Seq(Messages) /\ toBackend \in Seq(Messages) /\ c # <<>> /\ m.Key = k /\ d = Tail(c)
  BY Queues, Zenon DEF WriteMessage
<1>4. Takes(c, d, k, m.Type, m.Body)
  BY <1>3, OwnReceive, Zenon
<1>5. /\ client[k] \in {"new", "open", "closed", "ended"} /\ received[k] \in Seq(Nat)
      /\ client \in [Sessions -> {"new", "open", "closed", "ended"}]
      /\ received \in [Sessions -> Seq(Nat)]
  BY ZenonT(30) DEF BackendTypeOK
<1>6. ASSUME m.Type \in {"Body", "Close"}
      PROVE  client[k] # "new" /\ ~Carries(toBackend, k, "Connect")
  BY <1>1, <1>4, <1>6, Zenon DEF LinkOK, Responded, Takes
<1>7. ASSUME toBackend' = Append(toBackend, Message(k, "Close", 0))
      PROVE  PutsClose(toBackend, toBackend', k)
  BY <1>3, <1>7, OwnSend, Zenon
<1>8. CASE m.Type = "Body" /\ client[k] = "open"
  <2>1. /\ received' = [received EXCEPT ![k] = Append(@, m.Body)]
        /\ UNCHANGED <<client, toBackend>>
    BY <1>8, Zenon DEF WriteMessage
  <2>2. received'[k] = Append(received[k], m.Body) /\ client'[k] = client[k]
    BY <1>5, <2>1, Zenon
  <2>3. LinkOK(k)'
    BY <1>1, <1>2, <1>4, <2>1, <2>2, Zenon DEF LinkOK, Takes, Gone, Responded
  <2>4. InputOK(k, low)'
    BY <1>1, <1>2, <2>1, Zenon DEF InputOK
  <2>5. Increasing(c, k) /\ Rest(out, received[k], Bodies(c, k))
    BY <1>1, <1>8, Zenon DEF OutputOK, Rest
  <2>6. /\ m.Body \in Bodies(c, k) /\ Bodies(d, k) = Bodies(c, k) \ {m.Body}
        /\ \A n \in Bodies(c, k) : m.Body <= n
        /\ Increasing(d, k)
    BY <1>4, <1>8, <2>5, Zenon DEF Takes
  <2>7. Rest(out, Append(received[k], m.Body), Bodies(c, k) \ {m.Body})
    BY <1>5, <2>5, <2>6, NextReceived, ZenonT(30)
  <2>8. OutputOK(k, out)'
    BY <2>2, <2>6, <2>7, ZenonT(30) DEF OutputOK, Rest
  <2>9. CloseOK(k, out, done, p)'
    BY <1>1, <1>2, <1>4, <1>8, <2>2, Zenon DEF CloseOK, Takes
  <2>. QED
    BY <2>3, <2>4, <2>8, <2>9, Zenon DEF StreamOK
<1>9. CASE m.Type = "Body" /\ client[k] # "open"
  <2>1. /\ toBackend' = Append(toBackend, Message(k, "Close", 0))
        /\ UNCHANGED <<client, received>>
    BY <1>9, Zenon DEF WriteMessage
  <2>2. PutsClose(toBackend, toBackend', k) /\ Gone(k) /\ Gone(k)'
    BY <1>5, <1>6, <1>7, <1>9, <2>1, Zenon DEF Gone
  <2>3. LinkOK(k)'
    BY <1>1, <1>2, <1>4, <1>6, <1>9, <2>1, <2>2, ZenonT(30)
    DEF LinkOK, Takes, Gone, Responded, PutsClose
  <2>4. InputOK(k, low)'
    BY <1>1, <1>2, <2>2, Zenon DEF InputOK, PutsClose
  <2>5. OutputOK(k, out)' /\ CloseOK(k, out, done, p)'
    BY <1>1, <1>2, <2>1, <2>2, Zenon DEF OutputOK, CloseOK, Gone
  <2>. QED
    BY <2>3, <2>4, <2>5, Zenon DEF StreamOK
<1>10. CASE m.Type = "Close" /\ client[k] = "open"
  <2>1. /\ client' = [client EXCEPT ![k] = "ended"] /\ UNCHANGED received
        /\ toBackend' = Append(toBackend, Message(k, "Close", 0))
    BY <1>10, Zenon DEF WriteMessage
  <2>2. PutsClose(toBackend, toBackend', k) /\ client'[k] = "ended"
    BY <1>5, <1>7, <2>1, Zenon
  <2>3. LinkOK(k)'
    BY <1>1, <1>2, <1>4, <1>6, <1>10, <2>1, <2>2, ZenonT(30)
    DEF LinkOK, Takes, Gone, Responded, PutsClose
  <2>4. InputOK(k, low)'
    BY <1>1, <1>2, <2>2, Zenon DEF InputOK, PutsClose
  <2>5. OutputOK(k, out)'
    BY <1>1, <2>1, <2>2, Zenon DEF OutputOK
  <2>6. k \in handled => done
    BY <1>1, <1>4, <1>10, Zenon DEF CloseOK, Takes
  <2>7. \A n \in Bodies(c, k) : n >= p
    BY <1>1, <1>4, <1>10, Zenon DEF CloseOK, Takes
  <2>8. \A i \in Len(received[k]) + 1 .. Len(out) : out[i] >= p
    BY <1>1, <1>10, <2>7, Zenon DEF OutputOK
  <2>9. CloseOK(k, out, done, p)'
    BY <1>2, <2>1, <2>2, <2>6, <2>8, Zenon DEF CloseOK
  <2>. QED
    BY <2>3, <2>4, <2>5, <2>9, Zenon DEF StreamOK
<1>11. CASE m.Type = "Close" /\ client[k] # "open"
  <2>1. UNCHANGED <<client, received, toBackend>>
    BY <1>11, Zenon DEF WriteMessage
  <2>2. Gone(k) /\ Gone(k)'
    BY <1>5, <1>6, <1>11, <2>1, Zenon DEF Gone
  <2>3. LinkOK(k)'
    BY <1>1, <1>2, <1>4, <1>6, <1>11, <2>1, <2>2, ZenonT(30) DEF LinkOK, Takes, Gone, Responded
  <2>4. InputOK(k, low)'
    BY <1>1, <1>2, <2>1, ZenonT(30) DEF InputOK
  <2>5. OutputOK(k, out)' /\ CloseOK(k, out, done, p)'
    BY <1>1, <1>2, <2>1, <2>2, Zenon DEF OutputOK, CloseOK, Gone
  <2>. QED
    BY <2>3, <2>4, <2>5, Zenon DEF StreamOK
<1>. QED
  BY <1>8, <1>9, <1>10, <1>11, Zenon DEF WriteMessage

\* The proxy and the two loops keep the invariant of every session.
LEMMA BackendKeeps ==
    ASSUME NEW k \in Sessions, NEW low \in Nat, NEW out \in Seq(Nat), NEW done \in BOOLEAN,
           NEW p \in Nat, BackendTypeOK, StreamOK(k, low, out, done, p), Rising(out),
           NEW j \in Sessions, BackendStep(j)
    PROVE  StreamOK(k, low, out, done, p)'
<1>1. CASE j # k
  <2>1. SameView(k)
    BY <1>1, OtherSession, Zenon
  <2>. QED
    BY <2>1, SameViewKeeps, Zenon
<1>2. CASE j = k
  BY <1>2, ProxyStep, RouteStep, WriteStep, Zenon DEF BackendStep
<1>. QED
  BY <1>1, <1>2, Zenon

\* A handler that receives has a message later than low, and nothing up to it follows.
LEMMA ReceiveStep ==
    ASSUME NEW k \in Sessions, NEW low \in Nat, NEW out \in Seq(Nat), NEW done \in BOOLEAN,
           NEW p \in Nat, BackendTypeOK, StreamOK(k, low, out, done, p), ReceiveMessage(k)
    PROVE  /\ Head(incoming[k]) \in Nat /\ low < Head(incoming[k])
           /\ Head(incoming[k]) <= sent[k]
           /\ \A n \in Nat : n <= Head(incoming[k]) => StreamOK(k, n, out, done, p)'
<1>. DEFINE q == incoming[k]
            r == incoming'[k]
<1>1. q \in Seq(Nat) /\ q # <<>> /\ r = Tail(q) /\ sent[k] \in 0 .. MaxBodies
  BY Zenon DEF BackendTypeOK, ReceiveMessage
<1>2. /\ Len(q) \in Nat \ {0} /\ DOMAIN q = 1 .. Len(q) /\ Head(q) = q[1] /\ 1 \in DOMAIN q
      /\ DOMAIN r = 1 .. Len(q) - 1 /\ \A i \in DOMAIN q : q[i] \in Nat
      /\ \A i \in DOMAIN r : i + 1 \in DOMAIN q /\ r[i] = q[i + 1] /\ 1 < i + 1
  BY <1>1, HeadTailProperties, LenProperties, SMTT(30)
<1>3. LinkOK(k) /\ InputOK(k, low) /\ OutputOK(k, out) /\ CloseOK(k, out, done, p)
  BY Zenon DEF StreamOK
<1>4. /\ client'[k] = client[k] /\ sent'[k] = sent[k] /\ received'[k] = received[k]
      /\ (k \in handled') = (k \in handled) /\ (k \in responders') = (k \in responders)
      /\ (k \in chanClosed') = (k \in chanClosed)
      /\ toBackend' = toBackend /\ responseChannel' = responseChannel
  BY Zenon DEF ReceiveMessage, proxyVars
<1>5. k \in handled
  BY <1>1, <1>3, Zenon DEF LinkOK
<1>6. q[1] \in Nat /\ low < q[1] /\ q[1] <= sent[k]
  BY <1>2, <1>3, Zenon DEF InputOK
<1>7. LinkOK(k)'
  BY <1>3, <1>4, <1>5, ZenonT(30) DEF LinkOK, Gone, Responded
<1>8. OutputOK(k, out)' /\ CloseOK(k, out, done, p)'
  BY <1>3, <1>4, Zenon DEF OutputOK, CloseOK
<1>9. ASSUME NEW n \in Nat, n <= q[1] PROVE InputOK(k, n)'
  <2>1. \A b \in Bodies(toBackend, k) : b \in Nat /\ q[1] < b
    <3>1. \A b \in Bodies(toBackend, k) : b \in Nat
      BY Queues, NatBodies, Zenon
    <3>2. \A b \in Bodies(toBackend, k) : q[1] < b
      BY <1>2, <1>3, Zenon DEF InputOK
    <3>. QED
      BY <3>1, <3>2, Zenon
  <2>2. /\ \A i, j \in DOMAIN q : i < j => q[i] < q[j]
        /\ \A i \in DOMAIN q : q[i] <= sent[k] /\ \A b \in Bodies(toBackend, k) : q[i] < b
    BY <1>3, Zenon DEF InputOK
  <2>. HIDE DEF q, r
  <2>3. ASSUME NEW i \in DOMAIN r
        PROVE  n < r[i] /\ r[i] <= sent[k] /\ \A b \in Bodies(toBackend, k) : r[i] < b
    <3>1. i + 1 \in DOMAIN q /\ r[i] = q[i + 1] /\ 1 < i + 1 /\ q[i + 1] \in Nat
      BY <1>2, Zenon
    <3>2. q[1] < q[i + 1]
      BY <1>2, <2>2, <3>1, Zenon
    <3>3. n < q[i + 1]
      BY <1>6, <1>9, <3>1, <3>2
    <3>. QED
      BY <2>2, <3>1, <3>3, Zenon
  <2>4. \A i, j \in DOMAIN r : i < j => r[i] < r[j]
    <3>. SUFFICES ASSUME NEW i \in DOMAIN r, NEW j \in DOMAIN r, i < j PROVE r[i] < r[j]
      BY Zenon
    <3>1. i + 1 < j + 1 /\ i + 1 \in DOMAIN q /\ j + 1 \in DOMAIN q
      BY <1>2
    <3>. QED
      BY <1>2, <2>2, <3>1, Zenon
  <2>5. n <= sent[k] /\ \A b \in Bodies(toBackend, k) : n < b
    BY <1>1, <1>6, <1>9, <2>1
  <2>. QED
    BY <1>3, <1>4, <2>3, <2>4, <2>5, ZenonT(30) DEF InputOK, r
<1>. QED
  BY <1>2, <1>6, <1>7, <1>8, <1>9, Zenon DEF StreamOK

\* A longer beginning.
LEMMA LongerRest ==
    ASSUME NEW out \in Seq(Nat), NEW r \in Seq(Nat), NEW B, Rest(out, r, B), NEW b \in Nat
    PROVE  Rest(Append(out, b), r, B \union {b})
<1>. DEFINE q == Append(out, b)
<1>1. /\ Len(r) \in Nat /\ Len(out) \in Nat /\ Len(q) = Len(out) + 1
      /\ q[Len(out) + 1] = b /\ \A i \in 1 .. Len(out) : q[i] = out[i]
  BY LenProperties, AppendProperties
<1>. HIDE DEF q
<1>2. Len(r) <= Len(out) /\ \A i \in 1 .. Len(r) : r[i] = out[i]
  BY Zenon DEF Rest
<1>3. \A i \in Len(r) + 1 .. Len(q) : q[i] \in B \union {b}
  BY <1>1, <1>2, SMTT(30) DEF Rest
<1>4. \A n \in B \union {b} : \E i \in Len(r) + 1 .. Len(q) : n = q[i]
  <2>1. \A n \in B : \E i \in Len(r) + 1 .. Len(out) : n = out[i]
    BY Zenon DEF Rest
  <2>2. \A i \in Len(r) + 1 .. Len(out) : i \in Len(r) + 1 .. Len(q) /\ q[i] = out[i]
    BY <1>1, <1>2
  <2>3. Len(out) + 1 \in Len(r) + 1 .. Len(q)
    BY <1>1, <1>2
  <2>. QED
    BY <1>1, <2>1, <2>2, <2>3, Zenon
<1>5. B \union {b} = {q[i] : i \in Len(r) + 1 .. Len(q)}
  BY <1>3, <1>4, Zenon
<1>6. Len(r) <= Len(q) /\ \A i \in 1 .. Len(r) : r[i] = q[i]
  BY <1>1, <1>2
<1>. QED
  BY <1>5, <1>6, Zenon DEF Rest, q

\* What a response of the handler changes.
LEMMA ResponseView ==
    ASSUME NEW k \in Sessions, NEW low \in Nat, NEW type \in {"Body", "Close"}, NEW n \in Nat,
           BackendTypeOK, LinkOK(k), InputOK(k, low), k \in handled, SendResponse(k, type, n)
    PROVE  /\ client'[k] = client[k] /\ received'[k] = received[k]
           /\ (k \in handled') = (k \in handled) /\ client[k] # "new"
           /\ type = "Body" => PutsBody(responseChannel, responseChannel', k, n)
           /\ type = "Close" => PutsClose(responseChannel, responseChannel', k)
           /\ LinkOK(k)' /\ InputOK(k, low)'
<1>1. /\ client'[k] = client[k] /\ sent'[k] = sent[k] /\ received'[k] = received[k]
      /\ (k \in handled') = (k \in handled) /\ (k \in responders') = (k \in responders)
      /\ (k \in chanClosed') = (k \in chanClosed) /\ incoming'[k] = incoming[k]
      /\ toBackend' = toBackend
  BY Zenon DEF SendResponse, proxyVars, routeVars
<1>2. client[k] # "new"
  BY Zenon DEF LinkOK
<1>3. responseChannel \in Seq(Messages)
  BY Queues, Zenon
<1>4. type = "Body" => PutsBody(responseChannel, responseChannel', k, n)
  BY <1>3, OwnSend, Zenon DEF SendResponse, Respond
<1>5. type = "Close" => PutsClose(responseChannel, responseChannel', k)
  BY <1>3, OwnSend, Zenon DEF SendResponse, Respond
<1>6. LinkOK(k)'
  BY <1>1, <1>2, Zenon DEF LinkOK, Gone, Responded
<1>7. InputOK(k, low)'
  BY <1>1, Zenon DEF InputOK
<1>. QED
  BY <1>1, <1>2, <1>4, <1>5, <1>6, <1>7, Zenon

\* A handler that sends a body, larger than those before and, once done, not below p.
LEMMA SendStep ==
    ASSUME NEW k \in Sessions, NEW low \in Nat, NEW out \in Seq(Nat), NEW done \in BOOLEAN,
           NEW p \in Nat, BackendTypeOK, StreamOK(k, low, out, done, p), k \in handled,
           NEW n \in Nat, SendResponse(k, "Body", n),
           \A i \in DOMAIN out : out[i] < n, done => n >= p
    PROVE  StreamOK(k, low, Append(out, n), done, p)'
<1>1. LinkOK(k) /\ InputOK(k, low) /\ OutputOK(k, out) /\ CloseOK(k, out, done, p)
  BY Zenon DEF StreamOK
<1>2. /\ client'[k] = client[k] /\ received'[k] = received[k]
      /\ (k \in handled') = (k \in handled) /\ client[k] # "new"
      /\ PutsBody(responseChannel, responseChannel', k, n)
      /\ LinkOK(k)' /\ InputOK(k, low)'
  BY <1>1, ResponseView, Zenon
<1>3. /\ received[k] \in Seq(Nat) /\ Len(received[k]) \in Nat /\ Len(out) \in Nat
      /\ Len(Append(out, n)) = Len(out) + 1 /\ Append(out, n)[Len(out) + 1] = n
      /\ \A i \in 1 .. Len(out) : Append(out, n)[i] = out[i]
      /\ DOMAIN out = 1 .. Len(out)
  BY LenProperties, AppendProperties DEF BackendTypeOK
<1>4. OutputOK(k, Append(out, n))'
  <2>1. CASE client[k] \in {"new", "open"}
    <3>1. Rest(out, received[k], Bodies(responseChannel, k)) /\ Increasing(responseChannel, k)
      BY <1>1, <2>1, Zenon DEF OutputOK, Rest
    <3>2. Rest(Append(out, n), received[k], Bodies(responseChannel, k) \union {n})
      BY <1>3, <3>1, LongerRest, Zenon
    <3>3. \A b \in Bodies(responseChannel, k) : b < n
      <4>1. \A i \in Len(received[k]) + 1 .. Len(out) : i \in DOMAIN out
        BY <1>3
      <4>2. Bodies(responseChannel, k) = {out[i] : i \in Len(received[k]) + 1 .. Len(out)}
        BY <3>1, Zenon DEF Rest
      <4>. QED
        BY <4>1, <4>2, Zenon
    <3>4. /\ Increasing(responseChannel', k)
          /\ Bodies(responseChannel', k) = Bodies(responseChannel, k) \union {n}
      BY <1>2, <3>1, <3>3, Zenon DEF PutsBody
    <3>. QED
      BY <1>2, <3>2, <3>4, Zenon DEF OutputOK, Rest
  <2>2. CASE client[k] \notin {"new", "open"}
    BY <1>1, <1>2, <1>3, <2>2 DEF OutputOK
  <2>. QED
    BY <2>1, <2>2, Zenon
<1>5. CloseOK(k, Append(out, n), done, p)'
  <2>1. CASE client[k] = "open"
    <3>1. n >= p \/ ~Carries(responseChannel, k, "Close")
      BY <1>1, <2>1, Zenon DEF CloseOK
    <3>. QED
      BY <1>1, <1>2, <2>1, <3>1, Zenon DEF CloseOK, PutsBody
  <2>2. CASE client[k] = "ended"
    <3>1. done /\ \A i \in Len(received[k]) + 1 .. Len(out) : out[i] >= p
      BY <1>1, <2>2, Zenon DEF CloseOK
    <3>2. \A i \in Len(received[k]) + 1 .. Len(out) + 1 : Append(out, n)[i] >= p
      BY <1>3, <3>1
    <3>. QED
      BY <1>2, <1>3, <2>2, <3>1, <3>2, Zenon DEF CloseOK
  <2>3. CASE client[k] \notin {"open", "ended"}
    BY <1>2, <2>3, Zenon DEF CloseOK
  <2>. QED
    BY <2>1, <2>2, <2>3, Zenon
<1>. QED
  BY <1>2, <1>4, <1>5, Zenon DEF StreamOK

\* What a handler sends after the client has gone reaches nobody.
LEMMA SendGone ==
    ASSUME NEW k \in Sessions, NEW low \in Nat, NEW out \in Seq(Nat), NEW done \in BOOLEAN,
           NEW p \in Nat, BackendTypeOK, StreamOK(k, low, out, done, p), k \in handled,
           NEW n \in Nat, SendResponse(k, "Body", n), Gone(k)
    PROVE  StreamOK(k, low, out, done, p)'
<1>1. LinkOK(k) /\ InputOK(k, low) /\ OutputOK(k, out) /\ CloseOK(k, out, done, p)
  BY Zenon DEF StreamOK
<1>2. /\ client'[k] = client[k] /\ received'[k] = received[k]
      /\ (k \in handled') = (k \in handled) /\ LinkOK(k)' /\ InputOK(k, low)'
  BY <1>1, ResponseView, ZenonT(30)
<1>3. OutputOK(k, out)' /\ CloseOK(k, out, done, p)'
  BY <1>1, <1>2, Zenon DEF OutputOK, CloseOK, Gone
<1>. QED
  BY <1>2, <1>3, Zenon DEF StreamOK

\* A handler that signals Close is done, with any p.
LEMMA SignalStep ==
    ASSUME NEW k \in Sessions, NEW low \in Nat, NEW out \in Seq(Nat), NEW p \in Nat,
           BackendTypeOK, StreamOK(k, low, out, FALSE, p), k \in handled,
           SendResponse(k, "Close", 0), NEW q \in Nat
    PROVE  StreamOK(k, low, out, TRUE, q)'
<1>1. LinkOK(k) /\ InputOK(k, low) /\ OutputOK(k, out) /\ CloseOK(k, out, FALSE, p)
  BY ZenonT(30) DEF StreamOK
<1>2. /\ client'[k] = client[k] /\ received'[k] = received[k]
      /\ (k \in handled') = (k \in handled)
      /\ PutsClose(responseChannel, responseChannel', k)
      /\ LinkOK(k)' /\ InputOK(k, low)'
  BY <1>1, ResponseView, Zenon
<1>3. OutputOK(k, out)'
  BY <1>1, <1>2, Zenon DEF OutputOK, PutsClose
<1>4. client[k] # "ended"
  BY <1>1, Zenon DEF CloseOK
<1>5. client[k] = "open" => Behind(responseChannel, k, q)
  BY <1>1, Zenon DEF CloseOK, Carries, Behind
<1>6. CloseOK(k, out, TRUE, q)'
  BY <1>2, <1>4, <1>5, Zenon DEF CloseOK, PutsClose
<1>. QED
  BY <1>2, <1>3, <1>6, Zenon DEF StreamOK

\* Once the client has gone, what the handler would have sent it does not matter.
LEMMA GoneGrows ==
    ASSUME NEW k \in Sessions, NEW low \in Nat, NEW out \in Seq(Nat), NEW done \in BOOLEAN,
           NEW p \in Nat, BackendTypeOK, StreamOK(k, low, out, done, p), Gone(k), k \in handled,
           NEW n \in Nat, done => n >= p
    PROVE  StreamOK(k, low, Append(out, n), done, p)
<1>1. /\ Len(received[k]) \in Nat /\ Len(out) \in Nat
      /\ Len(Append(out, n)) = Len(out) + 1 /\ Append(out, n)[Len(out) + 1] = n
      /\ \A i \in 1 .. Len(out) : Append(out, n)[i] = out[i]
  BY LenProperties, AppendProperties DEF BackendTypeOK
<1>2. OutputOK(k, Append(out, n))
  BY <1>1 DEF StreamOK, OutputOK, Gone
<1>3. CloseOK(k, Append(out, n), done, p)
  <2>1. CASE client[k] = "ended"
    <3>1. done /\ \A i \in Len(received[k]) + 1 .. Len(out) : out[i] >= p
      BY <2>1, Zenon DEF StreamOK, CloseOK
    <3>2. \A i \in Len(received[k]) + 1 .. Len(out) + 1 : Append(out, n)[i] >= p
      BY <1>1, <3>1
    <3>. QED
      BY <1>1, <2>1, <3>1, <3>2, Zenon DEF CloseOK
  <2>. QED
    BY <2>1, Zenon DEF CloseOK, Gone
<1>. QED
  BY <1>2, <1>3, Zenon DEF StreamOK

\* The bodies 1 to n.
LEMMA CountTo ==
    ASSUME NEW n \in Nat
    PROVE  /\ Count(n) \in Seq(Nat) /\ Len(Count(n)) = n /\ Rising(Count(n))
           /\ \A i \in DOMAIN Count(n) : Count(n)[i] < n + 1
           /\ Append(Count(n), n + 1) = Count(n + 1)
           /\ \A i \in 1 .. n : Count(n)[i] = i
<1>1. Count(n) \in Seq(Nat) /\ Len(Count(n)) = n
  BY DEF Count
<1>2. \A i \in 1 .. n : Count(n)[i] = i
  BY Zenon DEF Count
<1>3. Rising(Count(n)) /\ \A i \in DOMAIN Count(n) : Count(n)[i] < n + 1
  BY DEF Count, Rising
<1>4. Append(Count(n), n + 1) = Count(n + 1)
  BY <1>1, <1>2 DEF Count
<1>. QED
  BY <1>1, <1>2, <1>3, <1>4, Zenon

\* Initially there are no messages.
LEMMA StreamInit ==
    ASSUME BackendInit
    PROVE  /\ BackendTypeOK
           /\ \A k \in Sessions : StreamOK(k, 0, Count(0), FALSE, 0)
<1>1. BackendTypeOK
  BY BackendAssumption DEF BackendInit, BackendTypeOK
<1>2. ASSUME NEW k \in Sessions PROVE StreamOK(k, 0, Count(0), FALSE, 0)
  <2>1. /\ client[k] = "new" /\ sent[k] = 0 /\ received[k] = <<>> /\ incoming[k] = <<>>
        /\ k \notin handled /\ k \notin responders /\ k \notin chanClosed
        /\ toBackend = <<>> /\ responseChannel = <<>>
    BY Zenon DEF BackendInit
  <2>2. /\ \A type : ~Carries(<<>>, k, type)
        /\ Bodies(<<>>, k) = {} /\ Increasing(<<>>, k) /\ ConnectFirst(<<>>, k)
    BY DEF Carries, Bodies, Increasing, ConnectFirst
  <2>3. LinkOK(k)
    BY <2>1, <2>2, Zenon DEF LinkOK, Responded
  <2>4. InputOK(k, 0)
    BY <2>1, <2>2 DEF InputOK
  <2>5. OutputOK(k, Count(0))
    <3>1. Len(Count(0)) = 0 /\ Len(<<>>) = 0
      BY CountTo, Zenon
    <3>2. {Count(0)[i] : i \in 0 + 1 .. 0} = {}
      OBVIOUS
    <3>. QED
      BY <2>1, <2>2, <3>1, <3>2 DEF OutputOK
  <2>6. CloseOK(k, Count(0), FALSE, 0)
    BY <2>1, Zenon DEF CloseOK
  <2>. QED
    BY <2>3, <2>4, <2>5, <2>6, Zenon DEF StreamOK
<1>. QED
  BY <1>1, <1>2, Zenon

\* What a client has received of the numbers from 1 to n, and what it misses at the end.
LEMMA CountReceived ==
    ASSUME NEW k \in Sessions, NEW low, NEW n \in Nat, NEW done \in BOOLEAN, NEW p,
           received[k] \in Seq(Nat), StreamOK(k, low, Count(n), done, p)
    PROVE  /\ received[k] = Count(Len(received[k])) /\ Len(received[k]) \in Nat
           /\ Len(received[k]) <= n
           /\ client[k] = "ended" /\ k \in handled =>
                 done /\ \A i \in Len(received[k]) + 1 .. n : i >= p
<1>. DEFINE r == Len(received[k])
<1>1. r \in Nat
  BY LenProperties, Zenon
<1>2. Len(Count(n)) = n /\ \A i \in 1 .. n : Count(n)[i] = i
  BY CountTo, Zenon
<1>3. r <= n /\ \A i \in 1 .. r : received[k][i] = Count(n)[i]
  BY <1>2, Zenon DEF StreamOK, OutputOK
<1>4. client[k] = "ended" /\ k \in handled => done /\ \A i \in r + 1 .. n : Count(n)[i] >= p
  BY <1>2, Zenon DEF StreamOK, CloseOK
<1>. HIDE DEF r
<1>5. received[k] = Count(r)
  <2>1. Count(r) \in Seq(Nat) /\ Len(Count(r)) = r /\ \A i \in 1 .. r : Count(r)[i] = i
    BY <1>1, CountTo, Zenon
  <2>2. \A i \in 1 .. r : received[k][i] = i
    BY <1>1, <1>2, <1>3
  <2>. QED
    BY <2>1, <2>2, SeqEqual, Zenon DEF r
<1>6. \A i \in r + 1 .. n : Count(n)[i] = i
  BY <1>1, <1>2, <1>3
<1>. QED
  BY <1>1, <1>3, <1>4, <1>5, <1>6, Zenon DEF r
================================================================================
