-------------------------------- MODULE Startup --------------------------------
(***************************************************************************)
(* main: the configuration, the events processor, the token that lets the  *)
(* host connect to the proxy, and the connection, whose requests get a     *)
(* handler. Rancher registers the host at a time of its own; until then it *)
(* refuses the token.                                                      *)
(***************************************************************************)
EXTENDS Integers, Routing

CONSTANTS
    MaxWaitOnHostTries,   \* 20 in the code
    MaxListed             \* bound on the containers that run at startup

ASSUME StartupAssumption == MaxWaitOnHostTries \in Nat \ {0} /\ MaxListed \in Nat

VARIABLES
    conf,            \* what the flags, the environment and the configuration file say
    step,            \* where main is
    unsent,          \* running containers whose simulated event Process has still to send
    routerFree,      \* whether routeEvents receives from the listener
    try,             \* argument of getConnectionToken
    answer,          \* what the last Create returned
    token,           \* tokenResponse: "nil", "blank" (only zero fields) or "granted"
    hostRegistered   \* whether Rancher knows the host

eventVars == <<unsent, routerFree>>
tokenVars == <<try, answer, token, hostRegistered>>
startupVars == <<conf, step, eventVars, tokenVars, routing>>

Config ==
    [loads : BOOLEAN,
     Key : {"none", "unreadable", "notPEM", "notPublicKey", "publicKey"},
     Credentials : BOOLEAN,   \* the url and both access keys are set
     EventsPoolSize : {-1, 0, 1}]

StartupInit ==
    /\ conf \in Config
    /\ step = "config" /\ unsent \in 0 .. MaxListed /\ routerFree = TRUE
    /\ try = 0 /\ answer = "none" /\ token = "nil"
    /\ hostRegistered \in BOOLEAN
    /\ RoutingInit

\* Outcomes of HostApiProxyToken.Create. "transport" is every error that is not an
\* ApiError: the response is then the blank struct that Create allocated.
Answers ==
    {"disabled", "apiError", "unparsable422", "other422", "transport"}
    \union (IF hostRegistered THEN {"granted"} ELSE {"unregistered"})

Register ==
    /\ ~hostRegistered /\ hostRegistered' = TRUE
    /\ UNCHANGED <<conf, step, eventVars, try, answer, token>>

\* main goes from one step to the next and changes nothing else.
Goto(from, to) ==
    /\ step = from /\ step' = to
    /\ UNCHANGED <<conf, eventVars, tokenVars>>

\* A key that is not PEM leaves the block nil, and reading its bytes panics.
ParsedPublicKey == conf.Key = "publicKey"

\* Mutant: the error of ParsedPublicKey is logged and not returned.
ParseLogs ==
    \/ conf.loads /\ Goto("config", "files")
    \/ ~conf.loads /\ Goto("config", "exited")

Parses == conf.loads /\ (conf.Key # "none" => ParsedPublicKey)

Parse ==
    \/ Parses /\ Goto("config", "files")
    \/ ~Parses /\ Goto("config", "exited")

\* The pid file and the log file.
WriteFiles == Goto("files", "events") \/ Goto("files", "exited")

\* Process makes a Docker client, and with credentials one of Rancher, which it asks for
\* its schemas.
GetClients == Goto("events", "router") \/ Goto("events", "exited")

\* Process up to the list of containers. NewEventRouter panics on a negative size.
StartRouter ==
    \/ conf.EventsPoolSize >= 0 /\ Goto("router", "simulate")
    \/ Goto("router", "exited")

\* An event of the daemon takes the router; without workers it stays there.
RouteEvent ==
    /\ conf.EventsPoolSize = 0 /\ routerFree /\ routerFree' = FALSE
    /\ step \notin {"config", "files", "events", "router", "gaveUp", "exited"}
    /\ UNCHANGED <<conf, step, unsent, tokenVars>>

\* Mutant: a router that is taken does not receive, workers or not.
SendSimulatedOnce ==
    /\ step = "simulate" /\ unsent > 0 /\ routerFree
    /\ unsent' = unsent - 1 /\ routerFree' = FALSE
    /\ UNCHANGED <<conf, step, tokenVars>>

\* The send waits for room or for the router, which only workers keep receiving. It
\* panics when the monitor has closed the listener.
SendSimulated ==
    \/ /\ step = "simulate" /\ unsent > 0 /\ routerFree
       /\ unsent' = unsent - 1 /\ routerFree' = (conf.EventsPoolSize > 0)
       /\ UNCHANGED <<conf, step, tokenVars>>
    \/ unsent > 0 /\ Goto("simulate", "exited")

ProcessReturns == unsent = 0 /\ Goto("simulate", "client")

\* Without credentials the client is nil, and so is the error.
GetRancherClient ==
    \/ conf.Credentials /\ (Goto("client", "request") \/ Goto("client", "exited"))
    \/ ~conf.Credentials /\ Goto("client", "nilClient")

\* The nil client of a host without credentials is dereferenced.
RequestPanics == Goto("nilClient", "exited")

\* The tries are used up.
GiveUp == try >= MaxWaitOnHostTries /\ Goto("request", "gaveUp")

\* Mutant: every 422 is retried.
RequestTokenAny422 ==
    /\ step = "request" /\ try < MaxWaitOnHostTries
    /\ answer' \in Answers
    /\ \/ answer' \in {"unregistered", "other422"} /\ try' = try + 1 /\ UNCHANGED <<step, token>>
       \/ answer' \notin {"unregistered", "other422"} /\ step' = "exited" /\ UNCHANGED <<token, try>>
    /\ UNCHANGED <<conf, eventVars, hostRegistered>>

\* Mutant: a request counts three times, past the limit.
RequestTokenThrice ==
    /\ step = "request" /\ try < MaxWaitOnHostTries
    /\ answer' = "unregistered" /\ try' = try + 3
    /\ UNCHANGED <<conf, eventVars, step, token, hostRegistered>>

\* getConnectionToken. Only the refusal of an unregistered host is tried again.
RequestToken ==
    /\ step = "request" /\ try < MaxWaitOnHostTries
    /\ answer' \in Answers
    /\ \/ /\ answer' = "unregistered"
          /\ try' = try + 1
          /\ UNCHANGED <<step, token>>
       \/ /\ answer' = "disabled"
          /\ step' = "block" /\ UNCHANGED <<token, try>>
       \/ /\ answer' \in {"unparsable422", "other422", "apiError"}
          /\ step' = "exited" /\ UNCHANGED <<token, try>>
       \/ /\ answer' = "transport"
          /\ step' = "connect" /\ token' = "blank" /\ UNCHANGED try
       \/ /\ answer' = "granted"
          /\ step' = "connect" /\ token' = "granted" /\ UNCHANGED try
    /\ UNCHANGED <<conf, eventVars, hostRegistered>>

\* ConnectToProxy dials; when the dial fails, and when the connection ends, the
\* process does.
ConnectToProxy ==
    \/ token = "granted" /\ Goto("connect", "serving")
    \/ Goto("connect", "exited")
    \/ Goto("serving", "exited")

Process == GetClients \/ StartRouter \/ SendSimulated \/ ProcessReturns

Main ==
    \/ Parse \/ WriteFiles \/ Process
    \/ GetRancherClient \/ RequestPanics \/ GiveUp \/ RequestToken \/ ConnectToProxy

\* The connection is up, with the handlers that main gave it.
Serve ==
    /\ step = "serving" /\ (Connect \/ getHandler)
    /\ UNCHANGED <<conf, step, eventVars, tokenVars>>

StartupNext == ((Register \/ RouteEvent \/ Main) /\ UNCHANGED routing) \/ Serve

StartupSpec == StartupInit /\ [][StartupNext]_startupVars

\* main runs, and calls to Docker and to Rancher return. The connection may last.
StartupFairSpec ==
    StartupSpec /\ WF_startupVars(step # "serving" /\ Main /\ UNCHANGED routing)

--------------------------------------------------------------------------------
TypeOK ==
    /\ conf \in Config /\ unsent \in 0 .. MaxListed /\ routerFree \in BOOLEAN
    /\ step \in {"config", "files", "events", "router", "simulate", "client", "nilClient",
                 "request", "block", "connect", "serving", "gaveUp", "exited"}
    /\ try \in 0 .. MaxWaitOnHostTries
    /\ answer \in {"none", "granted", "unregistered", "disabled", "apiError",
                   "unparsable422", "other422", "transport"}
    /\ token \in {"nil", "blank", "granted"}
    /\ hostRegistered \in BOOLEAN

\* getConnectionToken gives up only on a host that Rancher refused to the last, and
\* as unregistered: no other failure is turned into waiting.
GivesUpUnregistered ==
    step \in {"request", "gaveUp"} /\ try > 0 => answer = "unregistered"

\* main asks Rancher for its token, and goes on from there, only with a configuration it
\* could use: a key that Parse took in, all credentials, and a pool NewEventRouter can
\* make. Nothing else checks them before the first request of the proxy comes in.
RequestsConfigured ==
    step \in {"request", "block", "connect", "serving", "gaveUp"} =>
        /\ conf.loads /\ conf.Key \in {"none", "publicKey"}
        /\ conf.Credentials /\ conf.EventsPoolSize >= 0

\* Startup ends for every pool that has a worker: the host serves, blocks because the
\* proxy is off, or has exited. Without one, Process waits for ever to hand a simulated
\* event to a router that holds another, and the host never asks for its token.
Settles ==
    conf.EventsPoolSize # 0 ~> step \in {"serving", "block", "gaveUp", "exited"}

\* "nil error and blank token means the proxy is turned off. Just block forever so
\* main function doesn't exit": without a granted token main does not go on.
BlankTokenBlocks == step \in {"connect", "serving"} => token = "granted"
================================================================================
