------------------------------ MODULE StatsRound -------------------------------
(***************************************************************************)
(* What the records of a container statistics session say. With no         *)
(* container in its path, ContainerStatsHandler lists the containers,      *)
(* opens a stream of samples for each one the token names, and then, round *)
(* after round, reads one sample of every stream in turn and writes them   *)
(* as one record. PipeStream has the way of a record to the client.        *)
(***************************************************************************)
EXTENDS Naturals, Sequences, FiniteSets, Functions

CONSTANTS
    Containers,   \* the containers of the host
    Requested,    \* those the token's containerIds names
    MaxSamples    \* bound on the samples of a container

ASSUME StatsRoundAssumption ==
    IsFiniteSet(Containers) /\ Requested \subseteq Containers /\ MaxSamples \in Nat

VARIABLES
    step,      \* of Handle: "list", "open", "read", "write" or "done"
    contList,  \* the containers the daemon listed and Handle has not looked at
    IDList,    \* the containers with a stream, in the order of the readers
    opened,    \* open streams
    stream,    \* per container: samples produced and read, and whether it has ended
    infos,     \* the samples of this round
    records    \* the records written so far

vars == <<step, contList, IDList, opened, stream, infos, records>>

\* The Rancher id that containerIds gives for a Docker id.
containerIds(c) == <<"1i", c>>

\* Nothing listed, opened or read.
Fresh ==
    /\ contList = <<>> /\ IDList = <<>> /\ opened = {}
    /\ stream = [c \in Containers |-> [produced |-> 0, read |-> 0, ended |-> FALSE]]
    /\ infos = <<>> /\ records = <<>>

Init == step = "list" /\ Fresh

--------------------------------------------------------------------------------
\* Mutant: the streams opened so far stay open.
ReturnLeaks ==
    /\ step' = "done"
    /\ UNCHANGED <<contList, IDList, opened, stream, infos, records>>

\* Handle returns, and its deferred calls close the streams.
Return ==
    /\ step' = "done" /\ opened' = {}
    /\ UNCHANGED <<contList, IDList, stream, infos, records>>

ContainerList ==
    /\ step = "list"
    /\ \/ Return
       \/ /\ step' = "open"
          /\ \E n \in 0 .. Cardinality(Containers) :
               contList' \in { l \in [1 .. n -> Containers] : IsInjective(l) }
          /\ UNCHANGED <<IDList, opened, stream, infos, records>>

\* Mutant: every listed container gets a stream.
ContainerStatsAll ==
    /\ step = "open" /\ contList # <<>>
    /\ contList' = Tail(contList) /\ IDList' = Append(IDList, Head(contList))
    /\ opened' = opened \union {Head(contList)}
    /\ UNCHANGED <<step, stream, infos, records>>

\* The next container of the list: inspect it and open its stream, if it was asked for.
ContainerStats ==
    /\ step = "open" /\ contList # <<>>
    /\ \/ Head(contList) \in Requested /\ Return
       \/ /\ contList' = Tail(contList)
          /\ IF Head(contList) \in Requested
             THEN /\ IDList' = Append(IDList, Head(contList))
                  /\ opened' = opened \union {Head(contList)}
             ELSE UNCHANGED <<IDList, opened>>
          /\ UNCHANGED <<step, stream, infos, records>>

AllOpened ==
    /\ step = "open" /\ contList = <<>>
    /\ step' = "read"
    /\ UNCHANGED <<contList, IDList, opened, stream, infos, records>>

\* The container whose sample getAllDockerContainers reads next.
NextContainer == IDList[Len(infos) + 1]

\* getContainerInfo reads the next sample, and waits for it.
GetContainerInfo ==
    /\ step = "read" /\ Len(infos) < Len(IDList)
    /\ LET c == NextContainer
       IN  /\ stream[c].read < stream[c].produced
           /\ stream' = [stream EXCEPT ![c].read = @ + 1]
           /\ infos' = Append(infos, [Id |-> c, Sample |-> stream'[c].read])
    /\ UNCHANGED <<step, contList, IDList, opened, records>>

\* Mutant: only a sample that does not decode ends the round.
GetContainerInfoWaits ==
    /\ step = "read" /\ Len(infos) < Len(IDList)
    /\ stream[NextContainer].read < stream[NextContainer].produced
    /\ Return

\* The stream has ended, or its sample does not decode: the round and the session end.
GetContainerInfoFails ==
    /\ step = "read" /\ Len(infos) < Len(IDList)
    /\ \/ /\ stream[NextContainer].read = stream[NextContainer].produced
          /\ stream[NextContainer].ended
       \/ stream[NextContainer].read < stream[NextContainer].produced
    /\ Return

RoundComplete ==
    /\ step = "read" /\ Len(infos) = Len(IDList)
    /\ step' = "write"
    /\ UNCHANGED <<contList, IDList, opened, stream, infos, records>>

\* Mutant: the ids are taken from the list of containers asked for, by position.
convertByPosition(list) ==
    [j \in DOMAIN list |->
       [Id |-> containerIds(CHOOSE c \in Requested : TRUE), Sample |-> list[j].Sample]]

convertToAggregatedStats(list) ==
    [j \in DOMAIN list |-> [Id |-> containerIds(list[j].Id), Sample |-> list[j].Sample]]

\* Without containers there is no record; a write fails once the client has left.
WriteAggregatedStats ==
    /\ step = "write"
    /\ \/ /\ step' = "read" /\ infos' = <<>>
          /\ records' = IF infos = <<>> THEN records
                        ELSE Append(records, convertToAggregatedStats(infos))
          /\ UNCHANGED <<contList, IDList, opened, stream>>
       \/ infos # <<>> /\ Return

--------------------------------------------------------------------------------
(* The Docker daemon.                                                       *)

Produce(c) ==
    /\ c \in opened /\ ~stream[c].ended /\ stream[c].produced < MaxSamples
    /\ stream' = [stream EXCEPT ![c].produced = @ + 1]
    /\ UNCHANGED <<step, contList, IDList, opened, infos, records>>

StreamEnds(c) ==
    /\ c \in opened /\ ~stream[c].ended
    /\ stream' = [stream EXCEPT ![c].ended = TRUE]
    /\ UNCHANGED <<step, contList, IDList, opened, infos, records>>

--------------------------------------------------------------------------------
Handle ==
    \/ ContainerList \/ ContainerStats \/ AllOpened
    \/ GetContainerInfo \/ GetContainerInfoFails \/ RoundComplete
    \/ WriteAggregatedStats

Next == Handle \/ \E c \in Containers : Produce(c) \/ StreamEnds(c)

\* Handle runs, and a container that runs is sampled.
Fairness == WF_vars(Handle) /\ \A c \in Containers : WF_vars(Produce(c))

--------------------------------------------------------------------------------
TypeOK ==
    /\ step \in {"list", "open", "read", "write", "done"}
    /\ contList \in Seq(Containers) /\ IDList \in Seq(Requested)
    /\ opened \subseteq Requested
    /\ stream \in [Containers -> [produced : 0 .. MaxSamples, read : 0 .. MaxSamples,
                                  ended : BOOLEAN]]
    /\ infos \in Seq([Id : Requested, Sample : 1 .. MaxSamples])
    /\ Len(infos) <= Len(IDList)

\* The n-th record has the n-th sample of every container with a stream, in the order the
\* daemon listed them and under its Rancher id: no container is left out of a round or
\* runs ahead, however unevenly the samples arrive; a record is never newer than its
\* slowest container, whatever its timestamp says.
RecordsInStep ==
    \A n \in DOMAIN records :
        records[n] = [j \in DOMAIN IDList |-> [Id |-> containerIds(IDList[j]), Sample |-> n]]

\* Each stream is read by exactly one reader while Handle runs, also when opening the
\* next one fails, and none is left open when it has returned.
StreamsOwned ==
    IF step = "done" THEN opened = {}
    ELSE /\ opened = { IDList[i] : i \in DOMAIN IDList }
         /\ Cardinality(opened) = Len(IDList)

\* The end of one container's stream ends the session of all of them: they are not sampled
\* without it, and Handle does not wait for it (below the bound on samples).
EndedStreamEndsSession ==
    \A c \in Containers :
        (c \in opened /\ stream[c].ended /\ stream[c].produced < MaxSamples) ~> step = "done"
================================================================================
