-------------------------------- MODULE MCStats --------------------------------
(* A statistics session: of the containers, or of the host.                 *)
EXTENDS StatsRound, HostSample

StatsInit ==
    \/ Init /\ HostInit("returned")
    \/ step = "done" /\ Fresh /\ HostInit("perCpu")

StatsNext == (Next /\ UNCHANGED hostVars) \/ (HostNext /\ UNCHANGED vars)

\* Nothing is required of a host session.
StatsSpec ==
    StatsInit /\ [][StatsNext]_<<vars, hostVars>> /\ Fairness
================================================================================
