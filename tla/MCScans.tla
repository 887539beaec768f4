------------------------------ MODULE MCScans ------------------------------
(* Instances for TLC of parts that share no state, one of which a          *)
(* behaviour runs: the pool of solvers under settings that change, the     *)
(* queue of scans, and the start of the process.                           *)
EXTENDS MCSolverPool, ScanQueue, Startup

CONSTANTS sweep, timed, group

VARIABLE part   \* the part that runs in this behaviour

\* ScanQueue: a low-priority scan of every site that two scheduled scans of
\* one kind (a built-in schedule and a site group's, with a priority of its
\* own) can preempt, one on top of the other.
ThreeJobs == {sweep, timed, group}
ThreePrio == [j \in ThreeJobs |-> CASE j = sweep -> 20 [] j = timed -> 15 [] j = group -> 8]
TwoScheduled == {timed, group}
OneKey == [j \in ThreeJobs |-> IF j \in TwoScheduled THEN "quick" ELSE "full"]
TwoSites == [j \in ThreeJobs |-> IF j = sweep THEN 2 ELSE 1]
SweepOnly == {sweep}
Nothing == {}

\* Startup: two rows of one release.
TwoTwins == {1, 2}

-----------------------------------------------------------------------------
ScansInit ==
  /\ part \in {"pool", "scans", "startup"}
  /\ Init /\ ScanInit /\ BootInit
  /\ part # "startup" => engine = "sqlite" /\ db = NewDb /\ reach

PoolPart == part = "pool" /\ Next /\ UNCHANGED <<part, scanVars, bootVars>>
ScansPart == part = "scans" /\ ScanNext /\ UNCHANGED <<part, vars, bootVars>>
StartupPart == part = "startup" /\ BootNext /\ UNCHANGED <<part, vars, scanVars>>
ScansNext == PoolPart \/ ScansPart \/ StartupPart

\* The fairness of each part, for the behaviours that run it.
ScansFairness ==
  /\ WF_vars(part = "pool" /\ (WakePop \/ WakeExit))
  /\ \A c \in Calls :
       /\ WF_vars(part = "pool" /\ (AcquireNow(c) \/ AcquirePark(c)))
       /\ WF_vars(part = "pool" /\ Receive(c))
       /\ WF_vars(part = "pool" /\ (Withdraw(c) \/ Drain(c)))
       /\ WF_vars(part = "pool" /\ Release(c))
       /\ WF_vars(part = "pool" /\ FreeSlot(c))
       /\ WF_vars(part = "pool" /\ WakeSend(c))
  /\ WF_scanVars(part = "scans" /\ WorkerStep)
  /\ WF_scanVars(part = "scans" /\ StopCancel)
  /\ BootFairness

ScansSpec == ScansInit /\ [][ScansNext]_<<part, vars, scanVars, bootVars>> /\ ScansFairness
=============================================================================
