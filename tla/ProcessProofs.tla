----------------------------- MODULE ProcessProofs -----------------------------
(***************************************************************************)
(* Proofs about what runs once in the process, whatever its clients do:    *)
(* the event monitor, for every number of events, connections and errors   *)
(* and all capacities; and main with its table of handlers, for every      *)
(* number of tries, every configuration and paths of any length.           *)
(***************************************************************************)
EXTENDS EventMonitor, Startup, SequenceTheorems, TLAPS

--------------------------------------------------------------------------------
(* The event monitor.                                                       *)

\* A registered listener is open, the caller registers one that was never registered,
\* and a goroutine that passed the test of sendEvent has an open listener until it lets
\* go of the read lock.
OpenInv ==
    /\ DOMAIN sender = Events
    /\ registered => ~closed
    /\ caller \in {"enable", "add"} => ~registered /\ ~closed
    /\ ListenerOpenWhileSending

\* What changes neither the listener nor who is sending keeps the invariant.
LEMMA OpenUntouched ==
    ASSUME OpenInv, UNCHANGED <<registered, closed, sender>>,
           caller' \in {"enable", "add"} => caller \in {"enable", "add"}
    PROVE  OpenInv'
  BY Zenon DEF OpenInv, ListenerOpenWhileSending

\* A goroutine that does not begin to send keeps the invariant.
LEMMA OpenSender ==
    ASSUME OpenInv, UNCHANGED <<caller, registered, closed>>,
           NEW e, NEW to, to # "sending", sender' = [sender EXCEPT ![e] = to]
    PROVE  OpenInv'
  BY Zenon DEF OpenInv, ListenerOpenWhileSending

\* The steps of the caller, whose writes wait for all readers.
LEMMA OpenCaller ==
    ASSUME OpenInv, RemoveEventListener \/ Caller \/ Wait \/ DisableEventMonitoring
    PROVE  OpenInv'
<1>1. CASE RemoveEventListener
  BY <1>1, OpenUntouched, Zenon DEF RemoveEventListener
<1>2. CASE EnableEventMonitoring
  BY <1>2, OpenUntouched, Zenon DEF EnableEventMonitoring
<1>3. CASE AddListener
  BY <1>3, Zenon DEF AddListener, OpenInv, ListenerOpenWhileSending
<1>4. CASE RemoveListener
  BY <1>4, Zenon DEF RemoveListener, OpenInv, ListenerOpenWhileSending
<1>5. CASE Wait
  BY <1>5, OpenUntouched, Zenon DEF Wait
<1>6. CASE DisableEventMonitoring
  BY <1>6, OpenUntouched, Zenon DEF DisableEventMonitoring
<1>. QED
  BY <1>1, <1>2, <1>3, <1>4, <1>5, <1>6, Zenon DEF Caller

\* The steps of monitorEvents. closeListeners closes the listener under the lock, when
\* no goroutine is left between the test and the send.
LEMMA OpenMonitor ==
    ASSUME OpenInv, MonitorEvents
    PROVE  OpenInv'
<1>1. CASE NoListeners \/ ConnectWithRetry \/ CheckEnabled \/ SelectEvent \/ SelectError
           \/ SelectNothing
  BY <1>1, OpenUntouched, Zenon
    DEF NoListeners, ConnectWithRetry, CheckEnabled, SelectEvent,
       SelectError, SelectNothing, callVars
<1>2. CASE UpdateLastSeen
  BY <1>2, OpenSender, Zenon DEF UpdateLastSeen, callVars
<1>3. CASE CloseListeners
  <2>1. \A e \in Events : sender[e] # "sending"
    BY <1>3, Zenon DEF CloseListeners, Locked, Readers
  <2>. QED
    BY <1>3, <2>1, Zenon DEF CloseListeners, OpenInv, ListenerOpenWhileSending
<1>. QED
  BY <1>1, <1>2, <1>3, Zenon DEF MonitorEvents

\* The steps of sendEvent. Only isEnabled's caller begins to send, with a listener that is
\* registered and therefore open.
LEMMA OpenSending ==
    ASSUME OpenInv, NEW e \in Events, SendingEvent(e)
    PROVE  OpenInv'
<1>1. CASE SendEvent(e)
  BY <1>1, OpenSender, Zenon DEF SendEvent, Sender, callVars
<1>2. CASE IsEnabled(e)
  BY <1>2, Zenon DEF IsEnabled, Sender, callVars, OpenInv, ListenerOpenWhileSending
<1>3. CASE SendToListener(e)
  BY <1>3, OpenSender, Zenon DEF SendToListener, Sender, callVars
<1>4. CASE SendNoListeners(e)
  BY <1>4, OpenSender, Zenon DEF SendNoListeners, Sender, callVars
<1>. QED
  BY <1>1, <1>2, <1>3, <1>4, Zenon DEF SendingEvent

\* Every step keeps the listener open for those who send.
LEMMA OpenStep == OpenInv /\ [Next]_vars => OpenInv'
<1>. SUFFICES ASSUME OpenInv, [Next]_vars PROVE OpenInv'
  BY Zenon
<1>1. CASE UNCHANGED vars
  BY <1>1, OpenUntouched, Zenon DEF vars
<1>2. CASE RemoveEventListener \/ Caller \/ Wait \/ DisableEventMonitoring
  BY <1>2, OpenCaller, Zenon
<1>3. CASE MonitorEvents
  BY <1>3, OpenMonitor, Zenon
<1>4. ASSUME NEW p, RequestLock(p) PROVE OpenInv'
  BY <1>4, OpenUntouched, Zenon DEF RequestLock, callVars
<1>5. CASE RouteEvents
  BY <1>5, OpenUntouched, Zenon DEF RouteEvents, callVars
<1>6. ASSUME NEW s \in Streams, Decode(s) \/ DecodeError(s) \/ EventHijack(s)
      PROVE  OpenInv'
  BY <1>6, OpenUntouched, Zenon DEF Decode, DecodeError, EventHijack, PutEvent, PutEOF,
      PutError,
       callVars
<1>7. ASSUME NEW e \in Events, SendingEvent(e) PROVE OpenInv'
  BY <1>7, OpenSending, Zenon
<1>. QED
  BY <1>1, <1>2, <1>3, <1>4, <1>5, <1>6, <1>7, Zenon DEF Next

\* sendEvent never meets a closed listener: for any number of events, connections and
\* errors, whoever removes or closes it.
THEOREM ListenerStaysOpen == Spec => []ListenerOpenWhileSending
<1>1. Init => OpenInv
  BY Zenon DEF Init, OpenInv, ListenerOpenWhileSending
<1>2. OpenInv => ListenerOpenWhileSending
  BY Zenon DEF OpenInv
<1>. QED
  BY <1>1, <1>2, OpenStep, PTL DEF Spec

--------------------------------------------------------------------------------
\* Before a decoding error and before the removal of the listener.
Calm == errors = 0 /\ caller \in {"enable", "add", "added"}

\* Whoever is about to report that there are no listeners holds the read lock, so that
\* the channels are still open; they are closed together with the monitoring.
NoListenersSafe ==
    /\ C \in Seq(Nat) /\ decoded \in Nat /\ errors \in Nat /\ DOMAIN stream = Streams
    /\ caller = "enable" => monitor = "none" /\ ~chansClosed
    /\ chansClosed => ~enabled
    /\ \A e \in Events : sender[e] = "noListeners" => ~chansClosed

\* The only connection: its goroutine ends with the EOFEvent that makes the monitor
\* close the listener, and without listener the monitor does not select again.
OneConnection ==
    /\ ~panicked
    /\ caller # "added" => monitor \in {"none", "wait"} /\ \A e \in Events : sender[e] = "none"
    /\ monitor \in {"none", "wait", "connect"} => C = <<>> /\ \A s \in Streams : stream[s] = "none"
    /\ \A s, t \in Streams : stream[s] # "none" /\ stream[t] # "none" => s = t
    /\ \A s \in Streams : stream[s] # "error"
    /\ (caller = "added" /\ ~registered) \/ monitor = "close" \/ (\E i \in DOMAIN C : C[i] = EOFEvent)
          => \A s \in Streams : stream[s] \in {"none", "done"}
    /\ caller = "added" /\ ~registered => monitor \in {"terminate", "disable", "done"}
    /\ chansClosed => monitor = "done"
    /\ monitor \in {"disable", "done"} => caller = "added" /\ ~registered
    /\ caller # "enable" /\ ~chansClosed => enabled
    /\ errC # <<>> \/ (\E e \in Events : sender[e] = "noListeners")
          => caller = "added" /\ ~registered

CalmInv == OpenInv /\ NoListenersSafe /\ (Calm => OneConnection)

\* The steps of the caller: monitoring starts before the listener is there.
LEMMA CalmCaller ==
    ASSUME CalmInv, ~panicked, RemoveEventListener \/ Caller \/ Wait \/ DisableEventMonitoring
    PROVE  NoListenersSafe' /\ (Calm' => OneConnection')
<1>1. CASE RemoveEventListener
  BY <1>1, Zenon DEF RemoveEventListener, chanVars, streamVars, NoListenersSafe, Calm,
      OneConnection, CalmInv, EOFEvent, callVars
<1>2. CASE EnableEventMonitoring
  BY <1>2, Zenon DEF EnableEventMonitoring, chanVars, streamVars, NoListenersSafe, Calm,
      OneConnection, CalmInv, EOFEvent, callVars
<1>3. CASE AddListener
  BY <1>3, Zenon DEF AddListener, Locked, chanVars, streamVars, NoListenersSafe, Calm,
      OneConnection, CalmInv, EOFEvent, callVars
<1>4. CASE RemoveListener
  BY <1>4, Zenon DEF RemoveListener, Locked, chanVars, streamVars, NoListenersSafe, Calm,
      OneConnection, CalmInv, EOFEvent, callVars
<1>5. CASE Wait
  BY <1>5, Zenon DEF Wait, WaitReturns, chanVars, streamVars, NoListenersSafe, Calm,
      OneConnection,
      CalmInv, EOFEvent, callVars
<1>6. CASE DisableEventMonitoring
  BY <1>6, Zenon DEF DisableEventMonitoring, Locked, Readers, chanVars, streamVars,
      NoListenersSafe, Calm, OneConnection, CalmInv, EOFEvent, callVars
<1>. QED
  BY <1>1, <1>2, <1>3, <1>4, <1>5, <1>6, Zenon DEF Caller

\* The steps of monitorEvents.
LEMMA CalmMonitor ==
    ASSUME CalmInv, ~panicked, MonitorEvents
    PROVE  NoListenersSafe' /\ (Calm' => OneConnection')
<1>1. CASE NoListeners
  BY <1>1, Zenon DEF NoListeners, Monitor, OpenInv, chanVars, streamVars, NoListenersSafe,
      Calm,
      OneConnection, CalmInv, EOFEvent, callVars
<1>2. CASE ConnectWithRetry
  BY <1>2 DEF ConnectWithRetry, Monitor, chanVars, NoListenersSafe, Calm, OneConnection,
      CalmInv, EOFEvent, callVars
<1>3. CASE CheckEnabled
  BY <1>3, Zenon DEF CheckEnabled, Monitor, chanVars, streamVars, NoListenersSafe, Calm,
      OneConnection, CalmInv, EOFEvent, callVars
<1>4. CASE SelectEvent
  BY <1>4, HeadTailProperties DEF SelectEvent, Monitor, chanVars, streamVars,
      NoListenersSafe, Calm, OneConnection, CalmInv, EOFEvent, callVars
<1>5. CASE SelectError
  BY <1>5, Zenon DEF SelectError, Monitor, chanVars, streamVars, NoListenersSafe, Calm,
      OneConnection, CalmInv, EOFEvent, callVars
<1>6. CASE SelectNothing
  BY <1>6, Zenon DEF SelectNothing, Monitor, chanVars, streamVars, NoListenersSafe, Calm,
      OneConnection, CalmInv, EOFEvent, callVars
<1>7. CASE UpdateLastSeen
  BY <1>7, Zenon DEF UpdateLastSeen, Locked, Monitor, chanVars, streamVars, OpenInv,
      NoListenersSafe, Calm, OneConnection, CalmInv, EOFEvent, callVars
<1>8. CASE CloseListeners
  BY <1>8, Zenon DEF CloseListeners, Locked, Monitor, chanVars, streamVars, NoListenersSafe,
      Calm,
      OneConnection, CalmInv, EOFEvent, callVars
<1>. QED
  BY <1>1, <1>2, <1>3, <1>4, <1>5, <1>6, <1>7, <1>8, Zenon DEF MonitorEvents

\* The goroutine of a connection.
LEMMA CalmStream ==
    ASSUME CalmInv, ~panicked, NEW s \in Streams, Decode(s) \/ DecodeError(s) \/ EventHijack(s)
    PROVE  NoListenersSafe' /\ (Calm' => OneConnection')
<1>1. CASE Decode(s)
  BY <1>1, Zenon DEF Decode, Stream, chanVars, NoListenersSafe, Calm, OneConnection,
      CalmInv,
      EOFEvent, callVars
<1>2. CASE DecodeError(s)
  BY <1>2 DEF DecodeError, Stream, chanVars, NoListenersSafe, Calm, OneConnection, CalmInv,
      EOFEvent, callVars
<1>3. CASE PutEvent(s)
  <2>1. CASE chansClosed
    BY <1>3, <2>1, Zenon DEF PutEvent, Stream, SendPanics, NoListenersSafe, Calm,
        OneConnection,
        CalmInv, EOFEvent, callVars
  <2>2. CASE ~chansClosed
    <3>1. /\ C' = Append(C, decoded') /\ decoded' \in Nat /\ C \in Seq(Nat)
      BY <1>3, <2>2 DEF PutEvent, SendPanics, NoListenersSafe, CalmInv, EOFEvent
    <3>2. /\ C' \in Seq(Nat) /\ C' # <<>>
          /\ \A i \in DOMAIN C' : C'[i] = decoded' \/ \E j \in DOMAIN C : C[j] = C'[i]
      BY <3>1
    <3>3. UNCHANGED <<callVars, enabled, monitor, errC, chansClosed, errors, sender, panicked>>
      BY <1>3, <2>2, Zenon DEF PutEvent, SendPanics
    <3>. QED
      BY <1>3, <2>2, <3>1, <3>2, <3>3 DEF PutEvent, Stream, SendPanics, NoListenersSafe,
          Calm, OneConnection, CalmInv, EOFEvent, callVars
  <2>. QED
    BY <2>1, <2>2, Zenon
<1>4. CASE PutEOF(s)
  <2>1. CASE chansClosed
    BY <1>4, <2>1, Zenon DEF PutEOF, Stream, SendPanics, NoListenersSafe, Calm,
        OneConnection,
        CalmInv, EOFEvent, callVars
  <2>2. CASE ~chansClosed
    <3>1. /\ C' = Append(C, EOFEvent) /\ EOFEvent \in Nat /\ C \in Seq(Nat)
      BY <1>4, <2>2, Zenon DEF PutEOF, SendPanics, NoListenersSafe, CalmInv, EOFEvent
    <3>2. /\ C' \in Seq(Nat) /\ C' # <<>>
          /\ \A i \in DOMAIN C' : C'[i] = EOFEvent \/ \E j \in DOMAIN C : C[j] = C'[i]
      BY <3>1
    <3>3. UNCHANGED <<callVars, enabled, monitor, errC, chansClosed, errors, sender, panicked>>
      BY <1>4, <2>2, Zenon DEF PutEOF, SendPanics
    <3>. QED
      BY <1>4, <2>2, <3>1, <3>2, <3>3 DEF PutEOF, Stream, SendPanics, NoListenersSafe, Calm,
          OneConnection, CalmInv, EOFEvent, callVars
  <2>. QED
    BY <2>1, <2>2, Zenon
<1>5. CASE PutError(s)
  BY <1>5, Zenon DEF PutError, Stream, SendPanics, NoListenersSafe, Calm, OneConnection,
      CalmInv,
      EOFEvent, callVars
<1>. QED
  BY <1>1, <1>2, <1>3, <1>4, <1>5, Zenon DEF EventHijack

\* The steps of sendEvent.
LEMMA CalmSending ==
    ASSUME CalmInv, ~panicked, NEW e \in Events, SendingEvent(e)
    PROVE  NoListenersSafe' /\ (Calm' => OneConnection')
<1>1. CASE SendEvent(e)
  BY <1>1, Zenon DEF SendEvent, Sender, chanVars, streamVars, OpenInv, NoListenersSafe,
      Calm,
      OneConnection, CalmInv, EOFEvent, callVars
<1>2. CASE IsEnabled(e)
  BY <1>2, Zenon DEF IsEnabled, Sender, chanVars, streamVars, OpenInv, NoListenersSafe,
      Calm,
      OneConnection, CalmInv, EOFEvent, callVars
<1>3. CASE SendToListener(e)
  BY <1>3 DEF SendToListener, Sender, chanVars, streamVars, OpenInv,
      ListenerOpenWhileSending, NoListenersSafe, Calm, OneConnection, CalmInv, EOFEvent,
      callVars
<1>4. CASE SendNoListeners(e)
  <2>1. ~chansClosed /\ sender[e] = "noListeners" /\ UNCHANGED panicked
    BY <1>4, Zenon DEF SendNoListeners, Sender, SendPanics, NoListenersSafe, CalmInv
  <2>2. \A f \in Events : sender'[f] \in {sender[f], "dropped"}
    BY <1>4, Zenon DEF SendNoListeners, Sender, OpenInv, CalmInv
  <2>. QED
    BY <1>4, <2>1, <2>2, Zenon DEF SendNoListeners, streamVars, NoListenersSafe, Calm,
        OneConnection, CalmInv, EOFEvent, callVars
<1>. QED
  BY <1>1, <1>2, <1>3, <1>4, Zenon DEF SendingEvent

\* The end of the events stream alone makes nobody send on a closed channel.
THEOREM EndOfStreamIsSafe == Spec => []PanicNeedsErrorOrStop
<1>1. Init => CalmInv
  BY DEF Init, CalmInv, OpenInv, ListenerOpenWhileSending, NoListenersSafe, Calm, OneConnection
<1>2. CalmInv /\ [Next]_vars => CalmInv'
  <2>. SUFFICES ASSUME CalmInv, [Next]_vars PROVE NoListenersSafe' /\ (Calm' => OneConnection')
    BY OpenStep, Zenon DEF CalmInv
  <2>1. CASE UNCHANGED vars
    BY <2>1, Zenon DEF vars, CalmInv, NoListenersSafe, Calm, OneConnection
  <2>2. ASSUME NEW p, RequestLock(p) PROVE NoListenersSafe' /\ (Calm' => OneConnection')
    BY <2>2, Zenon DEF RequestLock, callVars, chanVars, streamVars, CalmInv,
        NoListenersSafe, Calm,
         OneConnection
  <2>3. CASE RouteEvents
    BY <2>3, Zenon DEF RouteEvents, callVars, chanVars, streamVars, CalmInv,
        NoListenersSafe, Calm,
         OneConnection
  <2>. QED
    BY <2>1, <2>2, <2>3, CalmCaller, CalmMonitor, CalmStream, CalmSending, Zenon DEF Next
<1>3. CalmInv => PanicNeedsErrorOrStop
  BY DEF CalmInv, NoListenersSafe, Calm, OneConnection, PanicNeedsErrorOrStop
<1>. QED
  BY <1>1, <1>2, <1>3, PTL DEF Spec

--------------------------------------------------------------------------------
(* getHandler.                                                              *)

\* The versions a path begins with.
Versions == {"/v1/", "/v2-beta/"}

\* The syllables of the registered paths.
Alphabet ==
    Versions \union {"logs", "stats", "host", "con", "tainer", "exec", "sole", "docker",
                     "socket", "-proxy", "/"}

\* Two words of the table do not begin one with the other.
LEMMA WordsDistinct ==
    ASSUME NEW w \in Words, NEW x \in Words, Len(w.word) <= Len(x.word),
           \A i \in 1 .. Len(w.word) : w.word[i] = x.word[i]
    PROVE  w = x
<1>1. Len(w.word) \in 1 .. 3 /\ w.word[1] = x.word[1]
  BY DEF Words
<1>2. CASE Len(w.word) = 1
  BY <1>1, <1>2 DEF Words
<1>3. CASE Len(w.word) = 2
  <2>. w.word[2] = x.word[2]
    BY <1>3
  <2>. QED
    BY <1>1, <1>3 DEF Words
<1>4. CASE Len(w.word) = 3
  <2>. w.word[2] = x.word[2] /\ w.word[3] = x.word[3]
    BY <1>4
  <2>. QED
    BY <1>1, <1>4 DEF Words
<1>. QED
  BY <1>1, <1>2, <1>3, <1>4

\* The words of the table are short sequences, and none of them ends with a slash.
LEMMA WordType ==
    ASSUME NEW w \in Words
    PROVE  w.word \in Seq(Alphabet) /\ Len(w.word) \in 1 .. 3 /\ w.word[Len(w.word)] # "/"
<1>1. CASE \E a \in Alphabet \ { "/" } : w.word = <<a>>
  BY <1>1
<1>2. CASE \E a, b \in Alphabet \ { "/" } : w.word = <<a, b>>
  BY <1>2
<1>3. CASE \E a, b, c \in Alphabet \ { "/" } : w.word = <<a, b, c>>
  BY <1>3
<1>. QED
  BY <1>1, <1>2, <1>3 DEF Words, Alphabet

\* A registered path without its trailing slash.
Root(v, w) == <<v>> \o w.word

\* It has the version first, then the word, and does not end with a slash.
LEMMA RootElements ==
    ASSUME NEW v \in Versions, NEW w \in Words
    PROVE  /\ Root(v, w) \in Seq(Alphabet) /\ Len(Root(v, w)) = 1 + Len(w.word)
           /\ Root(v, w)[1] = v
           /\ \A i \in 1 .. Len(w.word) : Root(v, w)[i + 1] = w.word[i]
           /\ Root(v, w)[Len(Root(v, w))] # "/"
<1>1. v \in Alphabet
  BY Zenon DEF Alphabet
<1>2. w.word \in Seq(Alphabet) /\ Len(w.word) \in 1 .. 3 /\ w.word[Len(w.word)] # "/"
  BY WordType, Zenon
<1>3. /\ Root(v, w) \in Seq(Alphabet) /\ Len(Root(v, w)) = 1 + Len(w.word)
      /\ Root(v, w)[1] = v
  BY <1>1, <1>2 DEF Root
<1>4. \A i \in 1 .. Len(w.word) : Root(v, w)[i + 1] = w.word[i]
  BY <1>1, <1>2 DEF Root
<1>5. Root(v, w)[Len(Root(v, w))] = w.word[Len(w.word)]
  <2>1. \A n \in 1 .. 3 : n \in 1 .. n
    OBVIOUS
  <2>2. Root(v, w)[Len(w.word) + 1] = w.word[Len(w.word)]
    BY <1>2, <1>4, <2>1, Zenon
  <2>. QED
    BY <1>2, <1>3, <2>2
<1>. QED
  BY <1>2, <1>3, <1>4, <1>5, Zenon

\* TrimSuffix takes a trailing slash off.
LEMMA TrimSlash ==
    ASSUME NEW S, NEW s \in Seq(S)
    PROVE  TrimSuffix(s \o << "/" >>) = s
<1>. DEFINE t == s \o << "/" >>
<1>1. t \in Seq(S \union { "/" }) /\ Len(t) = Len(s) + 1 /\ t[Len(s) + 1] = "/"
      /\ \A i \in 1 .. Len(s) : t[i] = s[i]
  OBVIOUS
<1>2. SubSeq(t, 1, Len(t) - 1) = s
  <2>. HIDE DEF t
  <2>. QED
    BY <1>1
<1>3. t # <<>> /\ t[Len(t)] = "/"
  <2>. HIDE DEF t
  <2>. QED
    BY <1>1
<1>4. TrimSuffix(t) = s
  <2>. HIDE DEF t
  <2>. QED
    BY <1>2, <1>3, Zenon DEF TrimSuffix
<1>. QED
  BY <1>4, Zenon

\* Every registered path is a version, a word and a slash.
LEMMA HandlerRoot ==
    ASSUME NEW h \in handlers
    PROVE  \E v \in Versions, w \in Words :
             /\ h = [key |-> Root(v, w) \o << "/" >>, handler |-> w.handler]
             /\ TrimSuffix(h.key) = Root(v, w)
<1>1. PICK v \in Versions, w \in Words :
        h = [key |-> <<v>> \o w.word \o << "/" >>, handler |-> w.handler]
  BY Zenon DEF handlers, Versions
<1>2. TrimSuffix(Root(v, w) \o << "/" >>) = Root(v, w)
  BY RootElements, TrimSlash, Zenon
<1>. QED
  BY <1>1, <1>2, Zenon DEF Root

\* A prefix of a sequence, element by element.
LEMMA PrefixElements ==
    ASSUME NEW S, NEW T, NEW s \in Seq(S), NEW t \in Seq(T)
    PROVE  HasPrefix(t, s) <=> Len(s) <= Len(t) /\ \A i \in 1 .. Len(s) : s[i] = t[i]
<1>1. ASSUME Len(s) <= Len(t)
      PROVE  SubSeq(t, 1, Len(s)) = s <=> \A i \in 1 .. Len(s) : s[i] = t[i]
  <2>1. s = [i \in 1 .. Len(s) |-> s[i]]
    OBVIOUS
  <2>2. SubSeq(t, 1, Len(s)) = [i \in 1 .. Len(s) |-> t[i]]
    BY <1>1
  <2>. QED
    BY <2>1, <2>2
<1>. QED
  BY <1>1 DEF HasPrefix

\* At most one registered path begins a path.
LEMMA OneRoot ==
    ASSUME NEW S, NEW p \in Seq(S), NEW v \in Versions, NEW w \in Words,
           NEW y \in Versions, NEW x \in Words,
           HasPrefix(p, Root(v, w)), HasPrefix(p, Root(y, x))
    PROVE  v = y /\ w = x
<1>1. \A i \in 1 .. 1 + Len(w.word) : Root(v, w)[i] = p[i]
  BY RootElements, PrefixElements
<1>2. \A i \in 1 .. 1 + Len(x.word) : Root(y, x)[i] = p[i]
  BY RootElements, PrefixElements
<1>3. Len(w.word) \in 1 .. 3 /\ Len(x.word) \in 1 .. 3
  BY WordType, Zenon
<1>4. v = y
  <2>1. Root(v, w)[1] = p[1] /\ Root(y, x)[1] = p[1]
    BY <1>1, <1>2, <1>3
  <2>2. Root(v, w)[1] = v /\ Root(y, x)[1] = y
    BY RootElements
  <2>. QED
    BY <2>1, <2>2, Zenon
<1>5. \A i \in 1 .. Len(w.word) : w.word[i] = p[i + 1]
  BY <1>1, <1>3, RootElements
<1>6. \A i \in 1 .. Len(x.word) : x.word[i] = p[i + 1]
  BY <1>2, <1>3, RootElements
<1>7. w = x
  <2>1. CASE Len(w.word) <= Len(x.word)
    BY <1>3, <1>5, <1>6, <2>1, WordsDistinct
  <2>2. CASE Len(x.word) <= Len(w.word)
    BY <1>3, <1>5, <1>6, <2>2, WordsDistinct
  <2>. QED
    BY <1>3, <2>1, <2>2
<1>. QED
  BY <1>4, <1>7, Zenon

\* So at most one handler matches, whatever the order of the map.
LEMMA OneHandler ==
    ASSUME NEW S, NEW p \in Seq(S), NEW g \in handlers, NEW h \in handlers,
           HasPrefix(p, TrimSuffix(g.key)), HasPrefix(p, TrimSuffix(h.key))
    PROVE  g = h
<1>1. PICK v \in Versions, w \in Words :
        /\ g = [key |-> Root(v, w) \o << "/" >>, handler |-> w.handler]
        /\ TrimSuffix(g.key) = Root(v, w)
  BY HandlerRoot, Zenon
<1>2. PICK y \in Versions, x \in Words :
        /\ h = [key |-> Root(y, x) \o << "/" >>, handler |-> x.handler]
        /\ TrimSuffix(h.key) = Root(y, x)
  BY HandlerRoot, Zenon
<1>3. HasPrefix(p, Root(v, w)) /\ HasPrefix(p, Root(y, x))
  BY <1>1, <1>2, Zenon
<1>4. v = y /\ w = x
  BY <1>3, OneRoot, Zenon
<1>. QED
  BY <1>1, <1>2, <1>4, Zenon

\* TrimSuffix keeps a beginning of the path.
LEMMA TrimElements ==
    ASSUME NEW S, NEW p \in Seq(S)
    PROVE  /\ TrimSuffix(p) \in Seq(S) /\ Len(TrimSuffix(p)) <= Len(p)
           /\ \A i \in 1 .. Len(TrimSuffix(p)) : TrimSuffix(p)[i] = p[i]
           /\ Len(TrimSuffix(p)) < Len(p)
                => Len(TrimSuffix(p)) = Len(p) - 1 /\ p[Len(p)] = "/"
<1>1. CASE p # <<>> /\ p[Len(p)] = "/"
  <2>1. TrimSuffix(p) = SubSeq(p, 1, Len(p) - 1)
    BY <1>1, Zenon DEF TrimSuffix
  <2>2. Len(p) \in Nat \ {0}
    BY <1>1
  <2>3. SubSeq(p, 1, Len(p) - 1) \in Seq(S) /\ Len(SubSeq(p, 1, Len(p) - 1)) = Len(p) - 1
        /\ \A i \in 1 .. Len(p) - 1 : SubSeq(p, 1, Len(p) - 1)[i] = p[i]
    <3>. DEFINE n == Len(p) - 1
    <3>1. n \in Nat /\ \A i \in 1 .. n : p[i] \in S
      BY <2>2
    <3>. HIDE DEF n
    <3>2. SubSeq(p, 1, n) \in Seq(S) /\ Len(SubSeq(p, 1, n)) = n
          /\ \A i \in 1 .. n : SubSeq(p, 1, n)[i] = p[i]
      BY <3>1, SubSeqProperties
    <3>. QED
      BY <3>2, Zenon DEF n
  <2>. QED
    BY <1>1, <2>1, <2>2, <2>3
<1>2. CASE ~(p # <<>> /\ p[Len(p)] = "/")
  BY <1>2 DEF TrimSuffix
<1>. QED
  BY <1>1, <1>2, Zenon

\* No registered path matches or fails to match because of the slash at the end.
LEMMA RootTrim ==
    ASSUME NEW S, NEW p \in Seq(S), NEW h \in handlers
    PROVE  HasPrefix(p, TrimSuffix(h.key)) <=> HasPrefix(TrimSuffix(p), TrimSuffix(h.key))
<1>1. PICK v \in Versions, w \in Words : TrimSuffix(h.key) = Root(v, w)
  BY HandlerRoot, Zenon
<1>. DEFINE r == Root(v, w)
            q == TrimSuffix(p)
<1>2. r \in Seq(Alphabet) /\ Len(r) \in Nat \ {0} /\ r[Len(r)] # "/"
  BY RootElements, WordType
<1>3. /\ q \in Seq(S) /\ Len(q) <= Len(p) /\ \A i \in 1 .. Len(q) : q[i] = p[i]
      /\ Len(q) < Len(p) => Len(q) = Len(p) - 1 /\ p[Len(p)] = "/"
  BY TrimElements, Zenon
<1>. HIDE DEF r, q
<1>4. HasPrefix(p, r) <=> Len(r) <= Len(p) /\ \A i \in 1 .. Len(r) : r[i] = p[i]
  BY <1>2, PrefixElements
<1>5. HasPrefix(q, r) <=> Len(r) <= Len(q) /\ \A i \in 1 .. Len(r) : r[i] = q[i]
  BY <1>2, <1>3, PrefixElements
<1>6. Len(p) \in Nat /\ Len(q) \in Nat
  BY <1>3
<1>7. HasPrefix(q, r) => HasPrefix(p, r)
  BY <1>2, <1>3, <1>4, <1>5, <1>6
<1>8. HasPrefix(p, r) => HasPrefix(q, r)
  <2>. SUFFICES ASSUME Len(r) <= Len(p), \A i \in 1 .. Len(r) : r[i] = p[i]
                PROVE  Len(r) <= Len(q) /\ \A i \in 1 .. Len(r) : r[i] = q[i]
    BY <1>4, <1>5, Zenon
  <2>1. Len(r) <= Len(q)
    BY <1>2, <1>3, <1>6
  <2>. QED
    BY <1>2, <1>3, <1>6, <2>1
<1>. QED
  BY <1>1, <1>7, <1>8, Zenon DEF r, q

\* The path is one of syllables, and BestMatch, which is inductive with it.
RoutingInv == path \in Seq(Syllables \union Versions) /\ BestMatch

\* A handler whose path matches is the best one.
LEMMA ChosenIsBest ==
    ASSUME NEW S, path' \in Seq(S), NEW h \in handlers, found' = h.handler,
           HasPrefix(TrimSuffix(path'), TrimSuffix(h.key))
    PROVE  BestMatch'
<1>1. TrimSuffix(path') \in Seq(S)
  BY TrimElements, Zenon
<1>2. \A g \in handlers : HasPrefix(TrimSuffix(path'), TrimSuffix(g.key)) => g = h
  BY <1>1, OneHandler, Zenon
<1>3. h \in Matches' /\ \A g \in Matches' : g = h
  BY <1>2, Zenon DEF Matches
<1>4. Len(h.key) <= Len(h.key)
  <2>1. PICK v \in Versions, w \in Words : h.key = Root(v, w) \o << "/" >>
    BY HandlerRoot
  <2>. QED
    BY <2>1, RootElements
<1>. QED
  BY <1>3, <1>4, Zenon DEF BestMatch

\* Without a match none is found.
LEMMA NoneIsBest ==
    ASSUME NEW S, path' \in Seq(S), found' = "none",
           \A h \in handlers : ~HasPrefix(path', TrimSuffix(h.key))
    PROVE  BestMatch'
<1>1. \A h \in handlers : ~HasPrefix(TrimSuffix(path'), TrimSuffix(h.key))
  BY RootTrim, Zenon
<1>2. Matches' = {}
  BY <1>1, Zenon DEF Matches
<1>. QED
  BY <1>2, Zenon DEF BestMatch

\* Before the first Connect the path is empty and nothing matches it.
LEMMA RoutingStart == RoutingInit => RoutingInv
<1>. SUFFICES ASSUME path = <<>>, found = "none"
              PROVE  RoutingInv
  BY Zenon DEF RoutingInit
<1>1. TrimSuffix(path) = <<>>
  BY Zenon DEF TrimSuffix
<1>2. \A h \in handlers : ~HasPrefix(<<>>, TrimSuffix(h.key))
  <2>. TAKE h \in handlers
  <2>1. PICK v \in Versions, w \in Words : TrimSuffix(h.key) = Root(v, w)
    BY HandlerRoot, Zenon
  <2>2. Root(v, w) \in Seq(Alphabet) /\ Len(Root(v, w)) > 0
    BY RootElements, WordType
  <2>. QED
    BY <2>1, <2>2 DEF HasPrefix
<1>3. Matches = {}
  BY <1>1, <1>2, Zenon DEF Matches
<1>. QED
  BY <1>3 DEF RoutingInv, BestMatch

\* A Connect and the two steps of getHandler keep the invariant.
LEMMA RoutingStep ==
    ASSUME RoutingInv, Connect \/ getHandler
    PROVE  RoutingInv'
<1>. DEFINE S == Syllables \union Versions
<1>. path \in Seq(S) /\ BestMatch
  BY Zenon DEF RoutingInv
<1>1. CASE Connect
  <2>0. PICK v \in Versions, m \in 0 .. MaxPath :
          \E p \in [1 .. m -> Syllables] : path' = <<v>> \o p
    BY <1>1, Zenon DEF Connect, Versions
  <2>1. PICK p \in [1 .. m -> Syllables] : path' = <<v>> \o p
    BY <2>0, Zenon
  <2>2. p \in Seq(Syllables)
    <3>1. m \in Nat
      BY <2>0
    <3>. QED
      BY <2>1, <3>1
  <2>3. path' \in Seq(S)
    BY <2>1, <2>2
  <2>. QED
    BY <1>1, <2>3, Zenon DEF Connect, RoutingInv, BestMatch
<1>2. ASSUME NEW h \in handlers, h.key = path, found' = h.handler, UNCHANGED path
      PROVE  RoutingInv'
  <2>1. TrimSuffix(h.key) \in Seq(Alphabet)
    BY HandlerRoot, RootElements
  <2>2. HasPrefix(TrimSuffix(path'), TrimSuffix(h.key))
    BY <1>2, <2>1 DEF HasPrefix
  <2>. QED
    BY <1>2, <2>2, ChosenIsBest, Zenon DEF RoutingInv
<1>3. CASE path' = TrimSuffix(path) /\ found' = "range"
  BY <1>3, TrimElements, Zenon DEF RoutingInv, BestMatch
<1>4. ASSUME NEW h \in handlers, HasPrefix(path, TrimSuffix(h.key)), found' = h.handler,
             UNCHANGED path
      PROVE  RoutingInv'
  <2>1. HasPrefix(TrimSuffix(path'), TrimSuffix(h.key))
    BY <1>4, RootTrim, Zenon
  <2>. QED
    BY <1>4, <2>1, ChosenIsBest, Zenon DEF RoutingInv
<1>5. CASE /\ \A h \in handlers : ~HasPrefix(path, TrimSuffix(h.key))
           /\ found' = "none" /\ UNCHANGED path
  BY <1>5, NoneIsBest, Zenon DEF RoutingInv
<1>. QED
  BY <1>1, <1>2, <1>3, <1>4, <1>5, Zenon DEF getHandler, ExactMatch, RangeHandlers

--------------------------------------------------------------------------------
(* main.                                                                    *)

\* What main has checked by the step it is at, and what it knows of the tries.
StartupInv ==
    /\ TypeOK
    /\ step \notin {"config", "exited"} => Parses
    /\ step \notin {"config", "files", "events", "router", "exited"} => conf.EventsPoolSize >= 0
    /\ step \in {"request", "block", "connect", "serving", "gaveUp"} => conf.Credentials
    /\ step \in {"config", "files", "events", "router", "simulate", "client", "nilClient"} =>
          try = 0
    /\ GivesUpUnregistered

\* main begins without a try.
LEMMA StartupStart == StartupInit => StartupInv
  BY StartupAssumption DEF StartupInit, StartupInv, TypeOK, GivesUpUnregistered

\* What leaves main and its tries alone keeps the invariant.
LEMMA StartupSame ==
    ASSUME StartupInv, UNCHANGED <<conf, step, try, answer, token>>,
           unsent' \in 0 .. MaxListed, routerFree' \in BOOLEAN, hostRegistered' \in BOOLEAN
    PROVE  StartupInv'
<1>1. TypeOK'
  BY Zenon DEF StartupInv, TypeOK
<1>. QED
  BY <1>1, Zenon DEF StartupInv, GivesUpUnregistered, Parses, ParsedPublicKey

\* Every step of main, of Rancher and of the router keeps the invariant. Most steps of
\* main only go on: they must bring what the step they go to requires (<1>3).
LEMMA StartupStep == StartupInv /\ [StartupNext]_startupVars => StartupInv'
<1>. SUFFICES ASSUME StartupInv, [StartupNext]_startupVars PROVE StartupInv'
  BY Zenon
<1>. USE DEF StartupInv
<1>0. unsent \in 0 .. MaxListed /\ routerFree \in BOOLEAN /\ hostRegistered \in BOOLEAN
  BY Zenon DEF TypeOK
<1>1. CASE Register
  <2>. UNCHANGED <<conf, step, unsent, routerFree, try, answer, token>> /\ hostRegistered' = TRUE
    BY <1>1, Zenon DEF Register, eventVars
  <2>. QED
    BY <1>0, StartupSame, Zenon
<1>2. CASE RouteEvent
  <2>. UNCHANGED <<conf, step, unsent, try, answer, token, hostRegistered>> /\ routerFree' = FALSE
    BY <1>2, Zenon DEF RouteEvent, tokenVars
  <2>. QED
    BY <1>0, StartupSame, Zenon
<1>3. ASSUME NEW from, NEW to, Goto(from, to),
             to \in {"files", "exited", "events", "router", "simulate", "client", "nilClient",
                     "request", "gaveUp", "serving"},
             to \notin {"config", "exited"} => Parses,
             to \notin {"config", "files", "events", "router", "exited"} => conf.EventsPoolSize >= 0,
             to \in {"request", "block", "connect", "serving", "gaveUp"} => conf.Credentials,
             to \in {"config", "files", "events", "router", "simulate", "client", "nilClient"} =>
                 try = 0,
             to \in {"request", "gaveUp"} /\ try > 0 => answer = "unregistered"
      PROVE  StartupInv'
  BY <1>3 DEF Goto, TypeOK, GivesUpUnregistered, Parses, ParsedPublicKey, tokenVars,
      eventVars
<1>4. CASE Parse
  BY <1>3, <1>4, Zenon DEF Parse, Goto, TypeOK
<1>5. CASE WriteFiles
  BY <1>3, <1>5, Zenon DEF WriteFiles, Goto
<1>6. CASE GetClients \/ StartRouter
  BY <1>3, <1>6, Zenon DEF GetClients, StartRouter, Goto
<1>7. CASE SendSimulated
  <2>1. CASE /\ step = "simulate" /\ unsent > 0 /\ routerFree
             /\ unsent' = unsent - 1 /\ routerFree' = (conf.EventsPoolSize > 0)
             /\ UNCHANGED <<conf, step, tokenVars>>
    <3>1. UNCHANGED <<conf, step, try, answer, token, hostRegistered>>
      BY <2>1, Zenon DEF tokenVars
    <3>2. unsent' \in 0 .. MaxListed
      <4>. unsent > 0 /\ unsent' = unsent - 1
        BY <2>1, Zenon
      <4>. QED
        BY <1>0, StartupAssumption
    <3>3. routerFree' \in BOOLEAN
      <4>. routerFree' = (conf.EventsPoolSize > 0)
        BY <2>1, Zenon
      <4>. QED
        OBVIOUS
    <3>. QED
      BY <1>0, <3>1, <3>2, <3>3, StartupSame, Zenon
  <2>2. CASE unsent > 0 /\ Goto("simulate", "exited")
    BY <1>3, <2>2, Zenon
  <2>. QED
    BY <1>7, <2>1, <2>2, Zenon DEF SendSimulated
<1>8. CASE ProcessReturns
  BY <1>3, <1>8 DEF ProcessReturns, Goto
<1>9. CASE GetRancherClient
  BY <1>3, <1>9 DEF GetRancherClient, Goto
<1>10. CASE RequestPanics
  BY <1>3, <1>10 DEF RequestPanics, Goto
<1>11. CASE GiveUp
  BY <1>3, <1>11 DEF GiveUp, Goto, GivesUpUnregistered
<1>12. CASE RequestToken
  <2>1. /\ step = "request" /\ try < MaxWaitOnHostTries /\ answer' \in Answers
        /\ UNCHANGED <<conf, unsent, routerFree, hostRegistered>>
    BY <1>12, Zenon DEF RequestToken, eventVars
  <2>2. \/ step' = step /\ token' = token /\ try' = try + 1 /\ answer' = "unregistered"
        \/ /\ step' \in {"block", "exited", "connect"}
           /\ token' \in {token, "blank", "granted"} /\ try' = try
    BY <1>12, Zenon DEF RequestToken
  <2>3. try' \in 0 .. MaxWaitOnHostTries
    BY <2>1, <2>2, StartupAssumption DEF TypeOK
  <2>4. TypeOK'
    BY <2>1, <2>2, <2>3, Zenon DEF TypeOK, Answers
  <2>. QED
    BY <2>1, <2>2, <2>4, Zenon DEF GivesUpUnregistered, Parses, ParsedPublicKey
<1>13. CASE ConnectToProxy
  BY <1>3, <1>13, Zenon DEF ConnectToProxy, Goto
<1>14. CASE Serve \/ UNCHANGED startupVars
  <2>1. UNCHANGED <<conf, step, unsent, routerFree, try, answer, token, hostRegistered>>
    BY <1>14, Zenon DEF Serve, startupVars, eventVars, tokenVars
  <2>. QED
    BY <1>0, <2>1, StartupSame, Zenon
<1>. QED
  BY <1>1, <1>2, <1>4, <1>5, <1>6, <1>7, <1>8, <1>9, <1>10, <1>11, <1>12, <1>13, <1>14, Zenon
    DEF StartupNext, Main, Process

\* The variables of Startup have their types; getConnectionToken never counts past
\* MaxWaitOnHostTries, for every value of it.
THEOREM StartupTyped == StartupSpec => []TypeOK
<1>. QED
  BY StartupStart, StartupStep, PTL DEF StartupSpec, StartupInv

\* getConnectionToken waits, and gives up, only on a host that Rancher refuses as
\* unregistered, for every number of tries.
THEOREM GivesUpOnUnregistered == StartupSpec => []GivesUpUnregistered
<1>. QED
  BY StartupStart, StartupStep, PTL DEF StartupSpec, StartupInv

\* main asks Rancher for its token only with a configuration that it checked before: the
\* key, the credentials and the size of the pool.
THEOREM RequestsAreConfigured == StartupSpec => []RequestsConfigured
<1>1. StartupInv => RequestsConfigured
  BY Zenon DEF StartupInv, RequestsConfigured, TypeOK, Config, Parses, ParsedPublicKey
<1>. QED
  BY <1>1, StartupStart, StartupStep, PTL DEF StartupSpec

\* getHandler finds the handler with the longest matching path in every order of the map,
\* for paths of any length over any syllables.
THEOREM HandlerIsBest == StartupSpec => []BestMatch
<1>1. StartupInit => RoutingInv
  BY RoutingStart, Zenon DEF StartupInit
<1>2. RoutingInv /\ [StartupNext]_startupVars => RoutingInv'
  <2>. SUFFICES ASSUME RoutingInv, [StartupNext]_startupVars PROVE RoutingInv'
    BY Zenon
  <2>1. CASE UNCHANGED routing
    BY <2>1, Zenon DEF routing, RoutingInv, BestMatch, Matches
  <2>2. CASE Connect \/ getHandler
    BY <2>2, RoutingStep, Zenon
  <2>. QED
    BY <2>1, <2>2, Zenon DEF StartupNext, Serve, startupVars
<1>3. RoutingInv => BestMatch
  BY Zenon DEF RoutingInv
<1>. QED
  BY <1>1, <1>2, <1>3, PTL DEF StartupSpec
================================================================================
