# A TLA+ model of host-api

host-api is the agent Rancher runs on every host. It reports Docker's events to
Rancher and, over one websocket to a proxy, serves logs, statistics, consoles,
commands and raw connections to clients. Almost everything it does is done by
goroutines that talk over channels and pipes; these modules are about what happens
when they meet in an order nobody tried.

## The parts of the system

| Part | Code | Model |
|---|---|---|
| Docker event router, its worker pool and startup events | `events/event_router.go`, `events/entry.go` | `EventRouter` |
| The handler that reports to Rancher, and its locks | `events/send_to_rancher_handler.go`, vendored `locks` | `EventRouter` |
| Event monitor of the Docker client | vendored `go-dockerclient/event.go` | `EventMonitor`; in `EventRouter` as a source of events |
| Connection to the proxy: read loop, write loop, sessions | vendored `websocket-proxy/backend` | `Backend`, `Routing` (the choice of a handler) |
| The proxy | vendored `websocket-proxy/proxy` | `Backend` and `HttpProxy`, as the peer |
| VM console, Docker socket proxy | `console`, `dockersocketproxy` | `SocketRelay` |
| Container logs, host, container and general statistics | `logs`, `stats` | `PipeStream` (the sessions), `StatsRound` (rounds of several containers), `HostSample` (a host's samples) |
| Log framing | `logs/log_wrapper.go`, `logs/logs.go` | `LogFraming` |
| Conversion of statistics | `stats/common.go`, `stats/get_stats.go` | `HostSample`, `StatsRound`; field by field copies left out |
| HTTP proxy to containers | `proxy` | `HttpProxy` |
| Commands in containers | `exec` | `ExecStream` |
| `main`, the configuration and the connection token | `main.go`, `config`, `util` | `Startup`, `Routing` |
| Token check, Docker client construction | `auth`, `events/client.go` | as a step that succeeds or fails |
| HAProxy monitor, legacy HTTP helpers | `pkg/haproxy`, `app/common` | no; nothing that runs calls them |

`PROJECT.json` lists the same parts with the state of their models, the code lines
behind every definition, and the hazards: the places where an order of steps, a
failure or a limit can go wrong that a test would hardly reach.

## The modules

**EventRouter.** An event object is a position in the sequence `events`, so a pointer
to it is a number and nil is 0. `sending` holds the `sendEvent` goroutines of the
monitor, `listener` is the channel, `routing` the event `routeEvents` waits with,
`workers` the pool, and `stage`/`job` the `doWork` goroutine of each worker. The
actions follow the code: `Receive`, `WorkerTimeout` and `GotWorker` are the loop of
`routeEvents`; `DoNil`, `Ignore`, `Lock`, `LockBusy`, `InspectContainer`,
`CreateContainerEvent`, `Unlock` and `ReturnWorker` are `doWork` with the handler,
split at every call to another goroutine or service. `Connect`, `Reconnect`,
`StreamEOF` and `SendEvent` are the monitor: it retries, it receives the last event
again after an error, it closes the listener for good at the end of the stream, and
it delivers events in any order. The variable `outcome` records what became of an
event; the code does not have it.

**EventLedger** is the promise without the machinery: events arrive, each gets one
outcome, at most one reporter per status and container is at work, and an event is
skipped only while one like it is being reported. `EventRouter` implements it with
`active` as the jobs of the workers that hold a lock.

**Backend** has the channel of every session, the response channel, the two loops of
`connectToProxyWS` and the clients at the proxy. A send to a full channel is an action
that is not enabled; for the read loop this means that nothing else is read. `SocketRelay`,
`PipeStream`, `ExecStream` and `HttpProxy` extend it with their handlers.

**SocketRelay** relays a session to a unix socket. Messages and chunks are numbered,
so order, gaps and losses can be seen. `reader` is `Handle`, `writer` its goroutine.

**PipeStream** writes records to an `io.Pipe` that a scanner reads. A record is two
pieces of data and a terminator, because a `Write` may be read in parts and the
statistics handlers write the newline separately; the pipe can be closed between any
two pieces. `silent` has the sessions over an empty list of containers.

**ExecStream** has `Handle`, the two copies that `StartExec` runs, and the two
goroutines on the other ends of its pipes. An EOT is a number above all messages.

**Startup** is `main`: `Parse`, the pid and log files, `Process` as far as `main` waits
for it, and `getConnectionToken`. `GetClients` already contacts Rancher, to load its
schemas; the pool's size is first used by `StartRouter`. `conf` is a configuration the
host may have: one that loads or not, each kind of key file, with or without
credentials, and a pool of -1, 0 or 1 workers. `answer` is what Rancher returned.

**HttpProxy** has one record per session. `step` is where `Handle` is, in `doHttp` or
`doHijack`; `pump` is the goroutine that reads the request body, the transport's or
`doHijack`'s own; `target` is what the container got, with `Padding` for the zeros of a
short body. The body's pieces and the answer's are numbered.

**EventMonitor** is `eventMonitoringState`: the read-write lock (`writer` is who asks
for it, and a writer that asks keeps new readers out, as in Go), the wait group, the
channels `C` and `errC`, a goroutine per connection and per `sendEvent`. `panicked` is a
send on a closed channel.

**LogFraming** works on words over the separator's own bytes, since only these can
confuse the scanner. `spare` is the capacity behind the package level prefix, which
`append` shares between sessions when a message fits into it.

**StatsRound** is the loop of `ContainerStatsHandler` over several containers: which
streams are open, which sample was read from each, and the records made of them.

**HostSample** is the loop of `HostStatsHandler`: samples made of two readings of the
processor times, between which the processors go on, cut to seconds one by one.
`MCStats` has a session of either kind.

**Routing** is `getHandler` with the 16 paths `main` registers. Paths are sequences of
syllables, so that words can share a beginning (`console`, `containerstats` and
`container-proxy` do), and Go's map order is any choice among the matches. `Startup`
extends it: the host that has come to serve gets a request and looks for its handler.

Definitions marked *Mutant* are not used by the models. Each is a definition of the
model with a plausible mistake, and shows that a property can fail.

## What is checked

| Run | Instance | Shows |
|---|---|---|
| `events` | 1 container that starts, is paused or dies, and is removed; 2 workers, buffer 1, 2 events, 1 failing call | `WorkersConserved`, `EachEventOnce`, `LocksOwned`, `LossesNeedFaults`, `InspectedAfterEvent`, `RancherLedger`, `LedgerSpec` (refinement), `ListenedIsHandled` |
| `monitor` | 2 events, 2 connections, 1 decoding error, one-place channels; the listener may be removed | `ListenerOpenWhileSending`, `PanicNeedsErrorOrStop`, `DecodedReachesListener` |
| `nested_lock` | 1 connection, no errors | `EventsWillBeSent` fails, see below |
| `socket` | 2 sessions, one with 2 messages and 1 chunk; channels 1, response channel 2 | `WrittenInOrder`, `OutputComplete`, `CloseIsLast`, `SessionReleased`, `RoutedUnlessStuck` |
| `socket_wedge` | the same without chunks, response channel 1 | `MessagesRouted` fails, see below |
| `record` | 2 sessions, one with 2 messages and 2 records; channels 1 | `RecordsWhole`, `AtMostOneLost`, `SessionReleased` |
| `exec` | 1 session, channel 2, 3 messages, 3 chunks | `InputInOrder`, `OutputOvertaken`, `ExecEnds` |
| `http` | 1 session, channel 2, response channel 1, a request of up to 4 messages, 2 pieces of answer | `BodyInOrder`, `CompleteIsWhole`, `ResponseWhole`, `SessionReleased`, `AnswerEndsSession` |
| `log` | 2 sessions, 2 messages each out of 7 words | `FramesKept` |
| `stats` | 3 containers, 2 of them asked for, 3 samples; or 2 processors, up to 2 ticks per mode, 2 ticks a second | `RecordsInStep`, `StreamsOwned`, `EndedStreamEndsSession`, `HostUsageConsistent` |
| `startup` | every configuration, up to 2 running containers, the code's 20 tries, paths of up to 3 syllables | `GivesUpUnregistered`, `RequestsConfigured`, `Settles`, `BestMatch` |
| `blank_token` | the same, shorter paths | `BlankTokenBlocks` fails, see below |

A component has one run, with its safety and its liveness over the same instance.
`TypeOK`, where a module has one, is checked with it; it includes the capacity of the
channels. The runs other than `log` and `blank_token` have fairness. Each takes between
a few seconds and three minutes on two cores.

Why the bounds are enough: two events keep both workers busy, have two events with one
lock key at work at once, or leave one at the router, in the full one-place listener or
in its `sendEvent` goroutine while the other is handled. They are too few to fill every
place together; the proofs, which have no bounds, cover that for the theorems below.
Two events of one kind come from a reconnection that repeats the last one.

Two sessions over one-place channels make every send block and let one session's
messages wait for another's. The constant `Busy` has the sessions with data; in the
other one a client connects and leaves at any time, its socket is dialled or refused,
and its Close takes a place in both shared channels. Two messages or records are what
order, gaps and "at most one" need, and two messages are one more than the channel holds,
so that the read loop does get stuck.

One session is enough for `HttpProxy` and `ExecStream`: sessions meet only in the two
shared loops, which `socket` and `record` check with two. What `http` and `exec` show of
the end of a session is therefore for a read loop that no other session has stopped.
Four messages are a request, two pieces of body and the EOF. In `EventMonitor` two
connections are what a reconnection needs, so that a goroutine of the old one is left,
and two events let one wait in `C` or `sendEvent` behind another in the listener. The
words of `log` are beginnings, ends and near misses of the separator. Two processors and
two ticks a second make every rounding happen.

`MaxEvents`, `MaxFaults`, `Busy`, `MaxBodies`, `MaxReads`, `MaxRecords`, `MaxChunks`,
`MaxStreams`, `MaxErrors`, `MaxMessages`, `MaxSamples`, `MaxTicks`, `MaxPath` and
`MaxListed` bound what the environment does, not the code. Deadlock is not checked,
since clients, Docker and Rancher may stop doing anything, and the process may end.

### Fairness

Goroutines that can run do (weak fairness per goroutine). A goroutine blocked on a send
gets its turn, because Go serves blocked senders in order: strong fairness for the
actions that send on the shared response channel. Calls to Docker and Rancher return.
The rest is left free: the peer of a socket need not read, so that a `Write` to it may
never return (`Writing` in `SocketRelay`; only `socket_wedge` assumes that it reads, to
show that the loop stops even then); `SendEvent` of the monitor has no fairness, as it
can be blocked for ever by the monitor's own lock; a socket need not deliver anything; a
stream need not end. `record` assumes that samples keep coming, which is so for
statistics and not for the logs of a silent container. `exec` assumes a command that
exits at EOT. `ReadError` can happen at any time, also while the read loop waits on a
channel, where the code would notice it later or never; it has no fairness, so no
property is shown by a connection that breaks.

`http` assumes that the 60 second timer of `doHttp` fires, and that a
container takes what is written to it, but not that it answers; a proxy that got the
end of an answer closes its client. `monitor` assumes that whoever waits for
the monitor's lock or a channel gets it when it is free again and again (strong
fairness, as the lock and the channels are first come first served), that the router
receives, and nothing of the daemon. `stats` assumes that a running container is
sampled. In `startup`, calls to Docker and Rancher return; a connection may last.

### Three disagreements

*The read loop can be stopped by one session.* `backend.go:91` sends to the channel of
the session and waits while it is full. When the handler has returned, or its
goroutine stopped at an error, nobody empties that channel until Close is routed, and
Close is behind the message that waits. `socket_wedge` shows it with one message more
than the channel holds (10 in the code): nothing is routed any more for any session.
The pong timer then closes the websocket, but the loop that would see it is waiting
elsewhere. There is one more way for the read loop to stop: the goroutine that empties the
channel is in a `Write` to a socket whose peer does not read, and `Write` has no deadline.
`RoutedUnlessStuck` holds in `socket` with these two states (`Stuck`) as its only
exceptions, and so does `SessionReleased`, which also excuses a session that is in such a
`Write` itself.

*A failed token request is taken for a token.* `main.go:72` says that a nil error and
a blank token mean that the proxy is off, and to block. For an error that is not an
`ApiError`, `getConnectionToken` returns the blank response and no error; `main` tests
for a nil pointer and goes on to connect (`blank_token`).

*The event monitor can lock itself up.* `AddEventListener` promises that events will be
sent through its channel (`event.go:62`). `sendEvent` takes the read lock and calls
`isEnabled`, which takes it again (`event.go:229`). When `updateLastSeen`, for the next
event, asks for the lock in between, it waits for the first read lock and keeps out the
second (`nested_lock`). Except for this, an end or a failed reconnection, every decoded
event arrives (`monitor`).

### What the passing runs leave open

Some properties name an exception that the code really has and that no document
excludes: a pool of size 0 never lets `main` ask for its token (`Settles`); a statistics
session over no containers, or the log of a silent one, goes on after its client left
(`SessionReleased` of `PipeStream`, which also excepts a read loop that is stuck at a
message for a session that was rejected: it cannot tell any other that its client left);
an event that is skipped because one like it is being reported may have happened after
the inspection that Rancher gets (`InspectedAfterEvent` is about reported events); half
the body of a client that left is taken for the whole (`CompleteIsWhole`); a log message
that contains the separator is cut in two, and two log sessions can mix messages of at
most five bytes (`FramesKept`); and after a decoding error, or the removal of the
listener, a goroutine may send on a channel that `terminate` has closed
(`PanicNeedsErrorOrStop`).

Outside the models, for they leave the fields of a sample out: `common.go:275` fills
`User`, documented as time in user space, from `UsageInKernelmode`; and the pid whose
network counters a container's samples have is read once, when the session begins.

## What is proved

The theorems hold for every value of the constants, under the `ASSUME`s of the modules
they are about (TLAPS, all leaves). TLC finds every inductive
invariant named here to hold on the instance of its component's run.

**The event pipeline**, for every set of containers and workers, every lifecycle and all
bounds (`EventRouterAssumption`, `LifecycleAssumption`; `EventRouterProofs`):

- `TypeCorrect`: `Spec => []TypeOK`;
- `PoolConserved`: `Spec => []WorkersConserved`, no path loses a worker;
- `LocksExclusive`: `Spec => []LocksOwned`, a lock has exactly one owner;
- `EventsOnce`: `Spec => []EachEventOnce`, an event is in one place until it has its
  outcome;
- `PipelineImplementsLedger`: `Spec => LedgerSpec`, the refinement;
- `RecordsMatchOutcomes`: `Spec => []RancherLedger`;
- `LossesAreFaults`: `Spec => []LossesNeedFaults`, what Rancher never learns of costs a
  failing call each;
- `InspectionsFollowEvents`: `Spec => []InspectedAfterEvent`.

The first three rest on `PoolInv` = `TypeOK`, `JobsMade` (a busy worker that reports
has an event, which the pool's bookkeeping alone does not say), `WorkersConserved` and
`LocksOwned`. `LocksOwned` needs that `events` only grows, so that the key of a job
stays what it was when it was locked (`EventsKept`). `EventsOnce` strengthens this to
`OnceInv` with `JobsResolved`: a worker past its report has an event with an outcome,
without which returning the worker could look like losing the event. The proof has one
lemma per way an event moves: decoded, sent, simulated, received, handed to a worker,
resolved.

The refinement builds on `OnceInv`. The mapping takes the jobs of the reporting workers
for the ledger's active events; one lemma per step of the pipeline names the ledger's
step, and `EachEventOnce` is what makes a job that is taken a waiting event there.
`RancherLedger` needs besides that no reporter has a simulated event (`RecordInv`).

`LossesAreFaults` rests on `LossInv`, which adds to `RecordInv` why an event has the
outcome it has. For a skipped one there is one alike that is being reported, was
reported or failed (`CoverInv`, shown on the ledger's steps); an ignored one was not for
Rancher, and an undelivered one met a listener that stays closed or removed (`Discards`);
and there are as many failed events as failed calls (`FailuresCounted`). So what is lost
is of the kind of a failed event (`LostFailed`), and a set of kinds is no larger than the
set of events it is taken from (`LossBound`).

`InspectionsFollowEvents` rests on `InspectInv`: a container is in a state that can follow
each event the monitor decoded for it, the one repeated after a reconnection included, and
an inspection that waits to be sent was made of such a state for the worker's own event.
`StatesAfter` is the least set closed under the lifecycle, so that the proof needs no
induction (`AfterStep`).

**Sessions over the proxy's websocket.** `BackendProofs` has what the proofs about the
four kinds of handler share. `StreamOK` says of one session what the two queues that all
sessions share hold of it, whatever its handler does: nothing precedes its Connect, and
its channel is closed only after its client is gone (`LinkOK`); the messages that follow
the last one its handler took are in order in the channel and behind it on the websocket
(`InputOK`); what the client received is a beginning of what the handler sent, and the
rest is on `responseChannel` (`OutputOK`); a client ended by the handler's Close misses
no body below a bound `p` (`CloseOK`). There is a lemma for each use of a channel
(`BackendKeeps` for the two loops and the proxy, `ReceiveStep`, `SendStep`,
`SignalStep`) and one for the steps of other sessions (`SameViewKeeps`). A handler's own
module adds where its goroutines are, and chooses the sequence sent and `p`. `RelayProofs`
has an invariant of its own over the same queues.

All of it is for any sessions, capacities and numbers of messages (`BackendAssumption`,
and the one assumption of the handler's module):

- console and socket proxy (`RelayProofs`): `OutputIsComplete`, `[]OutputComplete`;
  `SocketGetsAllInOrder`, `[]WrittenInOrder`; `CloseComesLast`, `[]CloseIsLast`;
  `RelayTypes`, `[]TypeOK` with the capacities of the channels;
- logs and statistics (`PipeProofs`): `OnlyWholeRecords`, `[]RecordsWhole`;
  `CloseOvertakesOneRecord`, `[]AtMostOneLost`;
- commands (`ExecProofs`): `CommandInputInOrder`, `[]InputInOrder`;
  `CloseOvertakesOneChunk`, `[]OutputOvertaken`;
- HTTP proxy (`HttpProxyProofs`): `BodyArrivesInOrder`, `[]BodyInOrder`;
  `CompleteRequestsAreWhole`, `[]CompleteIsWhole`; `AnswersAreWhole`, `[]ResponseWhole`.

`RelayInv` has `WebsocketOK`: Connect, bodies and Close come in this order, and the read
loop forgets a session only after the last body; `ResponsesOK` and `ClientOK`: what the
client has received, what is on `responseChannel` and what is yet to be sent are
consecutive runs of the chunks, and a handler's Close is behind them; `SocketOK`: so are
what is written, what the goroutine holds, the channel and the websocket. The websocket
is in it because a client that sends early, a refused session and the proxy's own Close
put messages there that must not be mistaken for the session's. `RelayTypes` needs
`RelayInv` as well, for the goroutine holds what a channel held, and a channel what a
client has sent (`RelayBounds`).

In `PipeInv` and `ExecInv` the bound `p` is the last record or chunk produced once
`Handle` is done: what the goroutine at the other end of the pipe then holds is that one,
so Close overtakes one and no more. That a torn record reaches nobody rests on
`GoroutinesOK`: the scanner makes one only of a closed pipe, the pipe is closed only when
the channel is, and by then the client is gone. `TypedOK` in `ExecInv` orders what the
command got, the input copy, the decoding goroutine and the channel, with the EOT last.

`HttpInv` adds to `StreamOK` that the messages of a request have no gap (`NoGap`; only
the EOF may come early), that the reader of the body has passed on all it took, with
padding in at most one place (`BodyOK`), and which answer `Handle` may have sent at each
of its steps (`Outs`: nothing, a header and a run of pieces, or a whole answer).
`CompleteIsWhole` follows because the EOF is the last message there is.

**The Docker client's monitor** (`ProcessProofs`): `ListenerStaysOpen`,
`Spec => []ListenerOpenWhileSending`, from `OpenInv`: a registered listener is open, and
the caller registers it only once. `EndOfStreamIsSafe`, `Spec => []PanicNeedsErrorOrStop`,
from `CalmInv`: as long as no decoding failed and nobody removed the listener there is
one connection only (`OneConnection`), whose goroutine ends with the EOF that makes the
monitor close the listener, and who reports that there are no listeners holds the read
lock, so that the channels are still open (`NoListenersSafe`).

**Startup and the choice of a handler** (`ProcessProofs`), for every number of tries and
of running containers (`StartupAssumption`): `StartupTyped`, `StartupSpec => []TypeOK`;
`GivesUpOnUnregistered`, `[]GivesUpUnregistered`; `RequestsAreConfigured`,
`[]RequestsConfigured`. They rest on `StartupInv`: what `Parse` and the steps of `main`
have checked of the configuration stays true from the step that checked it, and nothing
is tried before the first request. `HandlerIsBest`, `[]BestMatch`, is for paths of any
length over any syllables. It rests on `OneHandler`: no path extends two of the 16
registered ones, so no order of the map matters.

**The frames of a log** (`RecordProofs`), for any sessions, any spare capacity behind
the prefix and any messages without the separator (`LogFramingAssumption`):
`FramingInvariant`, `LogSpec => []LogInv`, and from it `FramesAreKept`, `LogSpec =>
[]FramesKept`. `FramesKept` alone is not inductive, for it says nothing of bytes on the
way. `LogInv` says where they are, unless two sessions race for the prefix: behind the
prefix while the message is wrapped (`SpareOK`), then at each step of the writer in the
pipe, in the scanner's buffer or cut off as a token (`Placed`). The core is
`FrameSeparators`: a frame has its separator at its end only, for the separator does not
overlap itself, the prefix has none of its bytes and the message does not have it; so
`customSplit` cuts whole frames and waits for the rest of others.

**The rounds of the statistics** (`RecordProofs`), for a finite set of containers
(`StatsRoundAssumption`) and without fairness: `RoundTypes`, `[]TypeOK`; `RoundsInStep`,
`[]RecordsInStep`; `StreamsHaveOwners`, `[]StreamsOwned`. They rest on `RoundInv`: the
lists hold no container twice, and in a round every reader has read one sample per
record and one more if its turn has come.

**The samples of a host** (`RecordProofs`), for a finite set of processors and any ticks
per second (`HostSampleAssumption`): `HostUsageIsConsistent`, `HostSpec =>
[]HostUsageConsistent`, from `HostInv`: the times of the processors in a sample are at
most the present ones, so that the total, read later, covers them. That rounding a sum
loses no more than rounding its parts is shown for sums over any finite set
(`SubsetInduction`: a counterexample of least size, which exists since the naturals are
well founded).

All invariants and the refinement that the passing runs check are proved. Only
model-checked are the liveness properties: `ListenedIsHandled`, `DecodedReachesListener`,
`SessionReleased`, `RoutedUnlessStuck`, `ExecEnds`, `AnswerEndsSession`,
`EndedStreamEndsSession` and `Settles`. They need fairness and `ENABLED`, which this prover
cannot reason about. The three properties of the violation runs are false of the code.

## Not modelled, and the plan

Planned: `EventRouter`'s monitor as an abstraction that `EventMonitor` implements. The two
agree on what they deliver, but this is not checked.

Left out for good: the contents of messages and records, logging, the flags no modelled
code reads, the Docker client's construction from the environment, the token check (a
sequence of tests on one token, in the models as `Reject`), HAProxy parsing and the
legacy HTTP helpers, which no protocol depends on. The default branch of the read loop
for an unknown message type is left out because this proxy sends none, and the proxy's
own 10 second timeout towards a client is covered by a client that closes.
