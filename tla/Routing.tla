-------------------------------- MODULE Routing --------------------------------
(***************************************************************************)
(* Which handler a connection gets: the paths main registers and           *)
(* getHandler, which ranges over them in the arbitrary order of a Go map.  *)
(* A path is a sequence of syllables, cut so that two paths that share the *)
(* beginning of a word share syllables.                                    *)
(***************************************************************************)
EXTENDS Naturals, Sequences

CONSTANTS
    Syllables,   \* what paths are made of
    MaxPath      \* bound on the syllables of a path that is asked for

VARIABLES
    path,      \* the path of the last Connect, without a trailing slash in the range
    found      \* "exact" or "range" while it looks, else "none" or the handler's name

routing == <<path, found>>

\* The handlers of main, by the word after the version.
Words ==
    { [word |-> <<"logs">>, handler |-> "LogsHandler"],
      [word |-> <<"stats">>, handler |-> "StatsHandler"],
      [word |-> <<"host", "stats">>, handler |-> "HostStatsHandler"],
      [word |-> <<"con", "tainer", "stats">>, handler |-> "ContainerStatsHandler"],
      [word |-> <<"exec">>, handler |-> "ExecHandler"],
      [word |-> <<"con", "sole">>, handler |-> "console.Handler"],
      [word |-> <<"docker", "socket">>, handler |-> "dockersocketproxy.Handler"],
      [word |-> <<"con", "tainer", "-proxy">>, handler |-> "proxy.Handler"] }

\* Mutant: the HTTP proxy is registered under a shorter path.
handlersShort ==
    UNION { { [key |-> <<v>> \o w.word \o <<"/">>, handler |-> w.handler] : w \in Words } :
              v \in {"/v1/", "/v2-beta/"} }
    \union {[key |-> <<"/v1/", "con", "tainer", "/">>, handler |-> "proxy.Handler"]}

handlers ==
    UNION { { [key |-> <<v>> \o w.word \o <<"/">>, handler |-> w.handler] : w \in Words } :
              v \in {"/v1/", "/v2-beta/"} }

TrimSuffix(p) == IF p # <<>> /\ p[Len(p)] = "/" THEN SubSeq(p, 1, Len(p) - 1) ELSE p

HasPrefix(p, key) == Len(key) <= Len(p) /\ SubSeq(p, 1, Len(key)) = key

RoutingInit == path = <<>> /\ found = "none"

\* A Connect comes in. The bound is one Connect: getHandler keeps no state.
Connect ==
    /\ path = <<>> /\ found' = "exact"
    /\ \E v \in {"/v1/", "/v2-beta/"}, n \in 0 .. MaxPath :
         \E p \in [1 .. n -> Syllables] : path' = <<v>> \o p

\* handlers[path]; without an exact match the range begins.
ExactMatch ==
    /\ found = "exact"
    /\ \/ \E h \in handlers : h.key = path /\ found' = h.handler /\ UNCHANGED path
       \/ /\ \A h \in handlers : h.key # path
          /\ path' = TrimSuffix(path) /\ found' = "range"

\* The range returns the first handler whose path is a prefix, in any order.
RangeHandlers ==
    /\ found = "range"
    /\ \/ \E h \in handlers : HasPrefix(path, TrimSuffix(h.key)) /\ found' = h.handler
       \/ /\ \A h \in handlers : ~HasPrefix(path, TrimSuffix(h.key))
          /\ found' = "none"
    /\ UNCHANGED path

getHandler == ExactMatch \/ RangeHandlers

--------------------------------------------------------------------------------
\* The registered paths that path is an extension of.
Matches == { h \in handlers : HasPrefix(TrimSuffix(path), TrimSuffix(h.key)) }

\* "Returns the handler that best matches the provided path": whatever the order of the
\* map, the handler found is the one with the longest matching path, and there is none
\* only if no path matches.
BestMatch ==
    found \notin {"exact", "range"} =>
        IF Matches = {} THEN found = "none"
        ELSE \E h \in Matches :
               h.handler = found /\ \A g \in Matches : Len(g.key) <= Len(h.key)
================================================================================
