----------------------------- MODULE EventMonitor ------------------------------
(***************************************************************************)
(* The event monitor of the vendored Docker client, the source of the      *)
(* router's events: a goroutine per connection decodes events into C, the  *)
(* monitor takes them out and gives each one a sendEvent goroutine, and    *)
(* these put them into the listener. All of them share a readers-writer    *)
(* lock, whose waiting writer keeps new readers out, and a wait group.     *)
(* EventRouter has the monitor without its goroutines and its lock.        *)
(***************************************************************************)
EXTENDS Naturals, Sequences, FiniteSets

CONSTANTS
    MaxEvents,    \* bound on the events the daemon sends
    MaxStreams,   \* bound on the connections to the daemon
    MaxErrors,    \* bound on the decoding errors that follow a decoded event
    CSize,        \* capacity of C (100 in the code)
    BufferSize,   \* capacity of the listener
    Stops         \* TRUE when the router may be stopped

ASSUME EventMonitorAssumption ==
    /\ MaxEvents \in Nat /\ MaxStreams \in Nat /\ MaxErrors \in Nat
    /\ CSize \in Nat \ {0} /\ BufferSize \in Nat \ {0} /\ Stops \in BOOLEAN

VARIABLES
    caller,      \* who called AddEventListener, and may call RemoveEventListener
    enabled,
    registered,  \* the listener is in listeners
    closed,      \* the listener is closed
    writer,      \* who holds or waits for the write lock
    C,           \* decoded events; EOFEvent is 0
    errC,        \* errors for the monitor, of capacity 1
    chansClosed, \* C and errC are closed
    monitor,     \* where monitorEvents is
    current,     \* the event it has taken
    stream,      \* the decoding goroutine of each connection
    decoded,     \* events put into C so far: they are 1, 2, ...
    errors,      \* decoding errors so far
    sender,      \* the sendEvent goroutine of each event
    listener,    \* the content of the listener
    panicked     \* a send on a closed channel has ended the process

callVars == <<caller, registered, closed>>
chanVars == <<C, errC, chansClosed>>
streamVars == <<stream, decoded, errors>>
vars == <<caller, enabled, registered, closed, writer, C, errC, chansClosed, monitor,
          current, stream, decoded, errors, sender, listener, panicked>>

Events == 1 .. MaxEvents
Streams == 1 .. MaxStreams
EOFEvent == 0

Init ==
    /\ caller = "enable" /\ enabled = FALSE /\ registered = FALSE /\ closed = FALSE
    /\ writer = "nobody"
    /\ C = <<>> /\ errC = <<>> /\ chansClosed = FALSE
    /\ monitor = "none" /\ current = EOFEvent
    /\ stream = [s \in Streams |-> "none"] /\ decoded = 0 /\ errors = 0
    /\ sender = [e \in Events |-> "none"]
    /\ listener = <<>> /\ panicked = FALSE

--------------------------------------------------------------------------------
(* The lock and the wait group. Only sendEvent keeps the read lock across   *)
(* steps; the count is the listeners plus the senders.                      *)

Readers == { e \in Events : sender[e] \in {"locked", "sending", "noListeners"} }

\* RLock does not block.
CanRead == writer = "nobody"

Wants(p) ==
    \/ p = "caller" /\ caller \in {"add", "remove", "disable"}
    \/ p = "monitor" /\ monitor \in {"seen", "close", "disable"}

\* Lock announces the writer, who keeps new readers out from here on.
RequestLock(p) ==
    /\ Wants(p) /\ writer = "nobody"
    /\ writer' = p
    /\ UNCHANGED <<callVars, enabled, chanVars, monitor, current, streamVars, sender,
                   listener, panicked>>

\* The last reader is gone; what follows runs up to Unlock.
Locked(p) == writer = p /\ Readers = {} /\ writer' = "nobody"

WaitReturns == ~registered /\ Readers = {}

--------------------------------------------------------------------------------
(* AddEventListener and RemoveEventListener.                                *)

EnableEventMonitoring ==
    /\ caller = "enable"
    /\ enabled' = TRUE /\ monitor' = "wait" /\ caller' = "add"
    /\ UNCHANGED <<registered, closed, writer, chanVars, current, streamVars, sender,
                   listener, panicked>>

AddListener ==
    /\ caller = "add" /\ Locked("caller")
    /\ registered' = TRUE /\ caller' = "added"
    /\ UNCHANGED <<enabled, closed, chanVars, monitor, current, streamVars, sender,
                   listener, panicked>>

RemoveEventListener ==
    /\ caller = "added" /\ Stops
    /\ caller' = "remove"
    /\ UNCHANGED <<enabled, registered, closed, writer, chanVars, monitor, current,
                   streamVars, sender, listener, panicked>>

RemoveListener ==
    /\ caller = "remove" /\ Locked("caller")
    /\ registered' = FALSE /\ caller' = "terminate"
    /\ UNCHANGED <<enabled, closed, chanVars, monitor, current, streamVars, sender,
                   listener, panicked>>

\* disableEventMonitoring, of the caller or of the monitor's terminate: Wait, then Lock.
Wait ==
    /\ WaitReturns
    /\ \/ caller = "terminate" /\ caller' = "disable" /\ UNCHANGED monitor
       \/ monitor = "terminate" /\ monitor' = "disable" /\ UNCHANGED caller
    /\ UNCHANGED <<enabled, registered, closed, writer, chanVars, current, streamVars,
                   sender, listener, panicked>>

DisableEventMonitoring ==
    /\ \/ caller = "disable" /\ Locked("caller") /\ caller' = "done" /\ UNCHANGED monitor
       \/ monitor = "disable" /\ Locked("monitor") /\ monitor' = "done" /\ UNCHANGED caller
    /\ enabled' = FALSE /\ chansClosed' = TRUE
    /\ UNCHANGED <<registered, closed, C, errC, current, streamVars, sender, listener,
                   panicked>>

--------------------------------------------------------------------------------
(* monitorEvents.                                                           *)

Monitor(from, to) == monitor = from /\ monitor' = to

\* The monitor waits for a listener before it connects.
NoListeners ==
    /\ Monitor("wait", "connect") /\ CanRead /\ registered
    /\ UNCHANGED <<callVars, enabled, writer, chanVars, current, streamVars, sender,
                   listener, panicked>>

\* connectWithRetry: a new connection, or none after the retries.
ConnectWithRetry ==
    /\ \/ /\ Monitor("connect", "check")
          /\ \E s \in Streams :
               /\ stream[s] = "none" /\ \A t \in 1 .. s - 1 : stream[t] # "none"
               /\ stream' = [stream EXCEPT ![s] = "decode"]
       \/ Monitor("connect", "terminate") /\ UNCHANGED stream
    /\ UNCHANGED <<callVars, enabled, writer, chanVars, current, decoded, errors, sender,
                   listener, panicked>>

CheckEnabled ==
    /\ Monitor("check", IF enabled THEN "select" ELSE "done") /\ CanRead
    /\ UNCHANGED <<callVars, enabled, writer, chanVars, current, streamVars, sender,
                   listener, panicked>>

\* An event, or the end of the stream, from C.
SelectEvent ==
    /\ C # <<>>
    /\ C' = Tail(C) /\ current' = Head(C)
    /\ Monitor("select", IF Head(C) = EOFEvent THEN "close" ELSE "seen")
    /\ UNCHANGED <<callVars, enabled, writer, errC, chansClosed, streamVars, sender,
                   listener, panicked>>

\* Mutant: the monitor ends with a decoding error.
SelectErrorEnds ==
    /\ errC # <<>>
    /\ errC' = Tail(errC)
    /\ Monitor("select", "done")
    /\ UNCHANGED <<callVars, enabled, writer, C, chansClosed, current, streamVars, sender,
                   listener, panicked>>

\* An error: without listeners the monitor ends, otherwise it starts anew.
SelectError ==
    /\ errC # <<>>
    /\ errC' = Tail(errC)
    /\ Monitor("select", IF Head(errC) = "no listeners" THEN "terminate" ELSE "wait")
    /\ UNCHANGED <<callVars, enabled, writer, C, chansClosed, current, streamVars, sender,
                   listener, panicked>>

\* C is closed and empty, errC is closed and empty, or the timeout is over.
SelectNothing ==
    /\ \/ Monitor("select", "done") /\ chansClosed /\ C = <<>>
       \/ Monitor("select", "check") /\ chansClosed /\ errC = <<>>
       \/ Monitor("select", "check") /\ ~chansClosed /\ C = <<>> /\ errC = <<>>
    /\ UNCHANGED <<callVars, enabled, writer, chanVars, current, streamVars, sender,
                   listener, panicked>>

\* updateLastSeen takes the write lock; then sendEvent gets a goroutine.
UpdateLastSeen ==
    /\ Monitor("seen", "check") /\ Locked("monitor")
    /\ sender' = [sender EXCEPT ![current] = "start"]
    /\ UNCHANGED <<callVars, enabled, chanVars, current, streamVars, listener, panicked>>

\* Mutant: closeListeners does not lock.
CloseListenersUnlocked ==
    /\ Monitor("close", "terminate")
    /\ closed' = (closed \/ registered) /\ registered' = FALSE
    /\ UNCHANGED <<caller, enabled, writer, chanVars, current, streamVars, sender,
                   listener, panicked>>

CloseListeners ==
    /\ Monitor("close", "terminate") /\ Locked("monitor")
    /\ closed' = (closed \/ registered) /\ registered' = FALSE
    /\ UNCHANGED <<caller, enabled, chanVars, current, streamVars, sender, listener,
                   panicked>>

--------------------------------------------------------------------------------
(* The goroutine eventHijack starts for a connection.                       *)

Stream(s, from, to) == stream[s] = from /\ stream' = [stream EXCEPT ![s] = to]

\* What a goroutine is about to put into a channel, which may be closed by now.
SendPanics == chansClosed /\ panicked' = TRUE

\* An event is decoded, or the end of the stream is, and the monitor is still enabled;
\* otherwise the goroutine ends.
Decode(s) ==
    /\ CanRead
    /\ \/ /\ decoded + Cardinality({ t \in Streams : stream[t] = "event" }) < MaxEvents
          /\ Stream(s, "decode", IF enabled THEN "event" ELSE "done")
       \/ Stream(s, "decode", IF enabled THEN "eof" ELSE "done")
    /\ UNCHANGED <<callVars, enabled, writer, chanVars, monitor, current, decoded, errors,
                   sender, listener, panicked>>

PutEvent(s) ==
    /\ Stream(s, "event", "decode")
    /\ \/ SendPanics /\ UNCHANGED <<C, decoded>>
       \/ /\ ~chansClosed /\ Len(C) < CSize
          /\ decoded' = decoded + 1 /\ C' = Append(C, decoded')
          /\ UNCHANGED panicked
    /\ UNCHANGED <<callVars, enabled, writer, errC, chansClosed, monitor, current, errors,
                   sender, listener>>

\* Mutant: the goroutine goes on after the end of the stream.
PutEOFGoesOn(s) ==
    /\ Stream(s, "eof", "decode")
    /\ \/ SendPanics /\ UNCHANGED C
       \/ /\ ~chansClosed /\ Len(C) < CSize
          /\ C' = Append(C, EOFEvent) /\ UNCHANGED panicked
    /\ UNCHANGED <<callVars, enabled, writer, errC, chansClosed, monitor, current, decoded,
                   errors, sender, listener>>

PutEOF(s) ==
    /\ Stream(s, "eof", "done")
    /\ \/ SendPanics /\ UNCHANGED C
       \/ /\ ~chansClosed /\ Len(C) < CSize
          /\ C' = Append(C, EOFEvent) /\ UNCHANGED panicked
    /\ UNCHANGED <<callVars, enabled, writer, errC, chansClosed, monitor, current, decoded,
                   errors, sender, listener>>

DecodeError(s) ==
    /\ errors < MaxErrors /\ errors' = errors + 1
    /\ Stream(s, "decode", "error")
    /\ UNCHANGED <<callVars, enabled, writer, chanVars, monitor, current, decoded, sender,
                   listener, panicked>>

\* The error goes to the monitor and the goroutine decodes on; an error of the
\* connection comes back every time.
PutError(s) ==
    /\ \/ Stream(s, "error", "decode") \/ Stream(s, "error", "error")
    /\ \/ SendPanics /\ UNCHANGED errC
       \/ /\ ~chansClosed /\ errC = <<>>
          /\ errC' = <<"decode">> /\ UNCHANGED panicked
    /\ UNCHANGED <<callVars, enabled, writer, C, chansClosed, monitor, current, decoded,
                   errors, sender, listener>>

--------------------------------------------------------------------------------
(* sendEvent, and the router that receives.                                 *)

Sender(e, from, to) == sender[e] = from /\ sender' = [sender EXCEPT ![e] = to]

\* RLock and Add.
SendEvent(e) ==
    /\ Sender(e, "start", "locked") /\ CanRead
    /\ UNCHANGED <<callVars, enabled, writer, chanVars, monitor, current, streamVars,
                   listener, panicked>>

\* isEnabled takes the read lock again, although sendEvent holds it.
IsEnabled(e) ==
    /\ CanRead
    /\ Sender(e, "locked", IF ~enabled THEN "dropped"
                           ELSE IF registered THEN "sending" ELSE "noListeners")
    /\ UNCHANGED <<callVars, enabled, writer, chanVars, monitor, current, streamVars,
                   listener, panicked>>

SendToListener(e) ==
    /\ Sender(e, "sending", "sent")
    /\ \/ closed /\ panicked' = TRUE /\ UNCHANGED listener
       \/ /\ ~closed /\ Len(listener) < BufferSize
          /\ listener' = Append(listener, e) /\ UNCHANGED panicked
    /\ UNCHANGED <<callVars, enabled, writer, chanVars, monitor, current, streamVars>>

SendNoListeners(e) ==
    /\ Sender(e, "noListeners", "dropped")
    /\ \/ SendPanics /\ UNCHANGED errC
       \/ /\ ~chansClosed /\ errC = <<>>
          /\ errC' = <<"no listeners">> /\ UNCHANGED panicked
    /\ UNCHANGED <<callVars, enabled, writer, C, chansClosed, monitor, current, streamVars,
                   listener>>

RouteEvents ==
    /\ listener # <<>> /\ listener' = Tail(listener)
    /\ UNCHANGED <<callVars, enabled, writer, chanVars, monitor, current, streamVars,
                   sender, panicked>>

--------------------------------------------------------------------------------
Caller == EnableEventMonitoring \/ AddListener \/ RemoveListener

MonitorEvents ==
    \/ NoListeners \/ ConnectWithRetry \/ CheckEnabled
    \/ SelectEvent \/ SelectError \/ SelectNothing
    \/ UpdateLastSeen \/ CloseListeners

EventHijack(s) == PutEvent(s) \/ PutEOF(s) \/ PutError(s)

SendingEvent(e) == SendEvent(e) \/ IsEnabled(e) \/ SendToListener(e) \/ SendNoListeners(e)

Next ==
    /\ ~panicked
    /\ \/ RemoveEventListener \/ Caller \/ Wait \/ DisableEventMonitoring
       \/ \E p \in {"caller", "monitor"} : RequestLock(p)
       \/ MonitorEvents \/ RouteEvents
       \/ \E s \in Streams : Decode(s) \/ DecodeError(s) \/ EventHijack(s)
       \/ \E e \in Events : SendingEvent(e)

Spec == Init /\ [][Next]_vars

\* Goroutines run; a select with several channels ready takes each of them at some
\* time, and the lock and the channels serve those who wait in turn. Nothing is assumed
\* of the daemon.
FairSpec ==
    /\ Spec
    /\ WF_vars(~panicked /\ Caller) /\ WF_vars(~panicked /\ MonitorEvents)
    /\ SF_vars(~panicked /\ SelectEvent)
    /\ WF_vars(~panicked /\ Wait) /\ WF_vars(~panicked /\ DisableEventMonitoring)
    /\ \A p \in {"caller", "monitor"} : SF_vars(~panicked /\ RequestLock(p))
    /\ WF_vars(~panicked /\ RouteEvents)
    /\ \A s \in Streams : SF_vars(~panicked /\ EventHijack(s))
    /\ \A e \in Events : SF_vars(~panicked /\ SendingEvent(e))

--------------------------------------------------------------------------------
\* sendEvent never meets a closed listener, although it tests for listeners once and then
\* blocks: closeListeners waits for its read lock.
ListenerOpenWhileSending == \A e \in Events : sender[e] = "sending" => ~closed

\* The end of the events stream alone makes no goroutine send on C or errC after terminate
\* closed them: it takes a decoding error, which leaves an old goroutine behind a new
\* connection, or the removal of the listener.
PanicNeedsErrorOrStop == panicked => errors > 0 \/ caller # "added"

\* A writer that waits while sendEvent is between its two read locks: neither moves again.
Deadlocked == writer # "nobody" /\ \E e \in Events : sender[e] = "locked"

\* terminate waits for the listener, after connectWithRetry has given up.
GivenUp == monitor = "terminate" /\ registered

Ended == closed \/ caller # "added" \/ panicked

\* Every event that was decoded is put into the listener, unless the monitor has ended,
\* has given up or hangs in the nested read lock of sendEvent: nothing else loses one,
\* a decoding error and the reconnection after it included.
DecodedReachesListener ==
    \A e \in Events :
        e <= decoded ~> (sender[e] = "sent" \/ Ended \/ GivenUp \/ Deadlocked)

\* "The parameter is a channel through which events will be sent" (AddEventListener): the
\* same without the nested lock as an excuse.
EventsWillBeSent ==
    \A e \in Events : e <= decoded ~> (sender[e] = "sent" \/ Ended \/ GivenUp)
================================================================================
