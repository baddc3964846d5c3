------------------------------ MODULE HostSample -------------------------------
(***************************************************************************)
(* The samples of a host statistics session. getRootContainerInfo reads    *)
(* the processor times twice, of each processor and then of all together,  *)
(* while time goes on, and cuts every time to seconds before it adds.      *)
(***************************************************************************)
EXTENDS Integers, FiniteSets, Functions

CONSTANTS
    CPUs,       \* the processors
    HZ,         \* ticks per second of the kernel's times
    MaxTicks    \* bound on the ticks of a processor in each mode

ASSUME HostSampleAssumption == IsFiniteSet(CPUs) /\ HZ \in Nat \ {0} /\ MaxTicks \in Nat

VARIABLES
    times,      \* ticks each processor has spent in each mode
    root        \* getRootContainerInfo: its step and the sample it is making

hostVars == <<times, root>>

Modes == {"user", "system", "idle"}

\* A sample at the step "perCpu", "total", "rest", "write" or, after Handle, "returned".
EmptySample(step) ==
    [step |-> step, PerCpu |-> [c \in CPUs |-> 0], Total |-> 0, User |-> 0, System |-> 0]

HostInit(step) ==
    /\ times = [c \in CPUs |-> [mode \in Modes |-> 0]]
    /\ root = EmptySample(step)

--------------------------------------------------------------------------------
\* Ticks of all processors in a mode, as in the first line of /proc/stat.
AllTicks(mode) == SumFunction([c \in CPUs |-> times[c][mode]])

\* Mutant: seconds are rounded to the nearest.
SecondsRounded(ticks) == (2 * ticks + HZ) \div (2 * HZ)

\* uint64 of a number of seconds; the factor to nanoseconds comes after it.
Seconds(ticks) == ticks \div HZ

PerCpuTimes ==
    /\ root.step = "perCpu"
    /\ root' = [root EXCEPT !.step = "total",
                  !.PerCpu = [c \in CPUs |-> Seconds(times[c]["user"] + times[c]["system"])]]
    /\ UNCHANGED times

TotalTimes ==
    /\ root.step = "total"
    /\ root' = [root EXCEPT !.step = "rest",
                  !.Total  = Seconds(AllTicks("user") + AllTicks("system") + AllTicks("idle")),
                  !.User   = Seconds(AllTicks("user")),
                  !.System = Seconds(AllTicks("system"))]
    /\ UNCHANGED times

\* Memory, disks and network.
OtherReadings ==
    /\ root.step = "rest" /\ root' = [root EXCEPT !.step = "write"]
    /\ UNCHANGED times

\* The record is written, and a second later the next sample begins.
WriteHost ==
    /\ root.step = "write" /\ root' = EmptySample("perCpu")
    /\ UNCHANGED times

\* A reading or the write fails.
HostReturns ==
    /\ root.step # "returned" /\ root' = EmptySample("returned")
    /\ UNCHANGED times

\* The kernel charges a tick.
Tick(c, mode) ==
    /\ root.step # "returned" /\ times[c][mode] < MaxTicks
    /\ times' = [times EXCEPT ![c][mode] = @ + 1]
    /\ UNCHANGED root

HostNext ==
    \/ PerCpuTimes \/ TotalTimes \/ OtherReadings \/ WriteHost \/ HostReturns
    \/ \E c \in CPUs, mode \in Modes : Tick(c, mode)

HostSpec == HostInit("perCpu") /\ [][HostNext]_hostVars

--------------------------------------------------------------------------------
\* The parts of a host's sample never exceed its whole, although they are rounded one by one
\* and the processors are read at another time than their sum.
HostUsageConsistent ==
    root.step = "write" =>
        /\ root.User + root.System <= root.Total
        /\ SumFunction(root.PerCpu) <= root.Total
================================================================================
