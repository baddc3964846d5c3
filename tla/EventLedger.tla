------------------------------ MODULE EventLedger ------------------------------
(***************************************************************************)
(* What the event pipeline promises, without its channels, workers and     *)
(* locks: every event gets exactly one outcome, an event is reported to    *)
(* Rancher by at most one reporter per status and container at a time, and *)
(* an event is skipped only while another one like it is being reported.   *)
(***************************************************************************)
EXTENDS Naturals, Sequences

CONSTANTS Containers, Statuses, Sources

VARIABLES
    events,   \* every event seen, in order of arrival
    outcome,  \* the outcome of each, "pending" until it has one
    active    \* the events that have a reporter at work

vars == <<events, outcome, active>>

Alike(p, q) ==
    events[p].Status = events[q].Status /\ events[p].ID = events[q].ID

Waiting(p) == outcome[p] = "pending" /\ p \notin active

Init == events = <<>> /\ outcome = <<>> /\ active = {}

Arrive ==
    /\ \E c \in Containers, s \in Statuses, f \in Sources :
          events' = Append(events, [ID |-> c, Status |-> s, From |-> f])
    /\ outcome' = Append(outcome, "pending")
    /\ UNCHANGED active

Discard(p) ==
    /\ Waiting(p)
    /\ \E result \in {"ignored", "undelivered"} :
          outcome' = [outcome EXCEPT ![p] = result]
    /\ UNCHANGED <<events, active>>

Claim(p) ==
    /\ Waiting(p)
    /\ \A q \in active : ~Alike(p, q)
    /\ active' = active \union {p}
    /\ UNCHANGED <<events, outcome>>

Skip(p) ==
    /\ Waiting(p)
    /\ \E q \in active : Alike(p, q)
    /\ outcome' = [outcome EXCEPT ![p] = "skipped"]
    /\ UNCHANGED <<events, active>>

Report(p) ==
    /\ p \in active /\ outcome[p] = "pending"
    /\ \E result \in {"created", "failed"} :
          outcome' = [outcome EXCEPT ![p] = result]
    /\ UNCHANGED <<events, active>>

Release(p) ==
    /\ p \in active /\ outcome[p] # "pending"
    /\ active' = active \ {p}
    /\ UNCHANGED <<events, outcome>>

Next ==
    \/ Arrive
    \/ \E p \in DOMAIN events :
          Discard(p) \/ Claim(p) \/ Skip(p) \/ Report(p) \/ Release(p)

Spec == Init /\ [][Next]_vars
================================================================================
