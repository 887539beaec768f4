----------------------------- MODULE SolverPool -----------------------------
(***************************************************************************)
(* internal/scraper/pool.go: the SolverPool that arbitrates concurrent use *)
(* of the configured FlareSolverr/Byparr instances.                        *)
(*                                                                         *)
(* Processes.  Each call of Acquire is one element of Calls, with the      *)
(* lease it is given and that lease's Release.  The goroutines that run    *)
(* wakeWaiters (a releasing caller, a cooldown timer, Configure) share no  *)
(* local state but the waiter they have just popped, so those at the head  *)
(* of the loop are counted and the popped waiter is marked "hand".         *)
(* Configure is called by whoever saves settings or starts a scan.         *)
(*                                                                         *)
(* Atomicity.  One action is one critical section of p.mu or one channel   *)
(* operation.  What the code does between an Unlock and the next Lock      *)
(* (freeSlot and then wakeWaiters, the pop and then the send, the removal  *)
(* of a cancelled waiter and then the drain) is left interruptible.        *)
(*                                                                         *)
(* Time is not modelled: a cooldown of any length is the arbitrary delay   *)
(* between Release and FreeSlot.                                           *)
(***************************************************************************)
EXTENDS PriorityQueue

CONSTANTS
  Calls,           \* the calls of Acquire
  ReqPriority,     \* [Calls -> Int], requestPriority: the lower is served first
  Cancellable,     \* the calls whose ctx may be done while they wait
  Configurations,  \* the settings Configure may be called with
  MaxConfigures    \* bound: the calls of Configure that change the settings

(* A setting is the list of instances, each with its Priority and Enabled  *)
(* flag (URL is their position), and the shared cooldown.                  *)
Instance == [prio : Int, enabled : BOOLEAN]
Configuration == [instances : Seq(Instance), cooldown : Nat]

ASSUME PriorityAssumption == ReqPriority \in [Calls -> Int]
ASSUME ConfigurationAssumption == Configurations \subseteq Configuration
ASSUME BoundAssumption == MaxConfigures \in Nat /\ Cancellable \subseteq Calls

VARIABLES
  config,    \* p.slots[i].instance and p.cooldown
  busy,      \* the positions i with p.slots[i].busy
  gen,       \* how often p.slots was replaced; 0 while it is nil
  waiters,   \* p.waiters, in order
  wakers,    \* goroutines about to lock p.mu at the head of wakeWaiters' loop
  pc,        \* pc[c]: where the goroutine of call c is
  lease,     \* lease[c]: the Lease made for c; its gen is never read by the code
  place      \* place[c]: where that Lease is

vars == <<config, busy, gen, waiters, wakers, pc, lease, place>>
poolVars == <<config, gen>>

NoLease == [slot |-> 0, gen |-> 0]

Locations == {"start",       \* before EnabledCount
              "counted",     \* EnabledCount was positive, Acquire not locked yet
              "parked",      \* in Acquire's select
              "cancelling",  \* chose ctx.Done, about to lock p.mu
              "draining",    \* left p.waiters, about to drain its channel
              "holding",     \* Acquire returned the lease
              "returned"}    \* over: released, cancelled, or fetched directly

Places == {"none",       \* no lease was made
           "hand",       \* in wakeWaiters, between the pop and the send
           "chan",       \* in the waiter's buffered channel
           "held",       \* with the caller
           "releasing",  \* Release called, freeSlot not run yet: the cooldown
           "freed"}      \* freeSlot has run

TypeOK ==
  /\ config \in Configuration
  /\ busy \subseteq DOMAIN config.instances
  /\ gen \in Nat
  /\ waiters \in Seq(Calls)
  /\ wakers \in Nat
  /\ pc \in [Calls -> Locations]
  /\ lease \in [Calls -> [slot : Nat, gen : Nat]]
  /\ place \in [Calls -> Places]

-----------------------------------------------------------------------------
Enabled == {i \in DOMAIN config.instances : config.instances[i].enabled}

(* Faulty variant: a busy instance is not skipped. *)
FreeIgnoresBusy == Enabled

Free == Enabled \ busy

(* tryAcquireLocked's choice: the first free instance of least Priority.   *)
Better(i, j) == \/ config.instances[i].prio < config.instances[j].prio
                \/ config.instances[i].prio = config.instances[j].prio /\ i <= j

Best == CHOOSE i \in Free : \A j \in Free : Better(i, j)

(* tryAcquireLocked for call c: the instance is marked busy and a lease on *)
(* it is made, which is then at place p.                                   *)
TryAcquire(c, p) ==
  /\ Free # {}
  /\ busy' = busy \cup {Best}
  /\ lease' = [lease EXCEPT ![c] = [slot |-> Best, gen |-> gen]]
  /\ place' = [place EXCEPT ![c] = p]

Init ==
  /\ config = [instances |-> <<>>, cooldown |-> 0]
  /\ busy = {}
  /\ gen = 0
  /\ waiters = <<>>
  /\ wakers = 0
  /\ pc = [c \in Calls |-> "start"]
  /\ lease = [c \in Calls |-> NoLease]
  /\ place = [c \in Calls |-> "none"]

-----------------------------------------------------------------------------
(* Faulty variants of the operations below.  They are part of no behaviour:*)
(* each one stands for a plausible slip that a property must notice.       *)

(* The slots are resized in place. *)
ConfigureKeepsBusy(new) ==
  /\ gen < MaxConfigures
  /\ config' = new /\ gen' = gen + 1 /\ wakers' = wakers + 1
  /\ UNCHANGED <<busy, waiters, pc, lease, place>>

(* A cancelled call stays in the wait list. *)
WithdrawForgetsQueue(c) ==
  /\ pc[c] = "cancelling"
  /\ pc' = [pc EXCEPT ![c] = "draining"]
  /\ UNCHANGED <<poolVars, waiters, busy, wakers, lease, place>>

(* The slot is free from Release on, not from the end of the cooldown. *)
ReleaseWithoutCooldown(c) ==
  /\ pc[c] = "holding"
  /\ pc' = [pc EXCEPT ![c] = "returned"]
  /\ place' = [place EXCEPT ![c] = "releasing"]
  /\ busy' = busy \ {lease[c].slot}
  /\ UNCHANGED <<poolVars, waiters, wakers, lease>>

(* A slot is freed, and nobody is told. *)
FreeSlotQuietly(c) ==
  /\ place[c] = "releasing"
  /\ busy' = busy \ {lease[c].slot}
  /\ place' = [place EXCEPT ![c] = "freed"]
  /\ UNCHANGED <<poolVars, wakers, waiters, pc, lease>>

(* The bounds check leaves out the last slot. *)
FreeSlotOffByOne(c) ==
  /\ place[c] = "releasing"
  /\ busy' = IF lease[c].slot < Len(config.instances)
             THEN busy \ {lease[c].slot} ELSE busy
  /\ place' = [place EXCEPT ![c] = "freed"]
  /\ wakers' = wakers + 1
  /\ UNCHANGED <<poolVars, waiters, pc, lease>>

-----------------------------------------------------------------------------
(* sameConfigLocked: an empty list is never the same as the nil list.      *)
SameConfig(new) == config = new /\ gen > 0

(* Configure: settings that do not change anything are dropped, others     *)
(* replace every slot by a fresh one that is not busy.                     *)
Configure(new) ==
  /\ gen < MaxConfigures
  /\ ~SameConfig(new)
  /\ config' = new
  /\ busy' = {}
  /\ gen' = gen + 1
  /\ wakers' = wakers + 1
  /\ UNCHANGED <<waiters, pc, lease, place>>

(* The callers ask EnabledCount first, and fetch directly (or give up) when*)
(* it is zero; p.mu is not held from here to Acquire.                      *)
CountEnabled(c) ==
  /\ pc[c] = "start"
  /\ pc' = [pc EXCEPT ![c] = IF Enabled = {} THEN "returned" ELSE "counted"]
  /\ UNCHANGED <<poolVars, busy, waiters, wakers, lease, place>>

(* Acquire finds a free instance, whoever may be waiting already ...       *)
AcquireNow(c) ==
  /\ pc[c] = "counted"
  /\ TryAcquire(c, "held")
  /\ pc' = [pc EXCEPT ![c] = "holding"]
  /\ UNCHANGED <<poolVars, waiters, wakers>>

(* ... or parks in the wait list, behind equal and lower numbers.          *)
AcquirePark(c) ==
  /\ pc[c] = "counted"
  /\ Free = {}
  /\ waiters' = InsertByPriority(waiters, ReqPriority, c)
  /\ pc' = [pc EXCEPT ![c] = "parked"]
  /\ UNCHANGED <<poolVars, busy, wakers, lease, place>>

(* The select receives the lease that was sent.                            *)
Receive(c) ==
  /\ pc[c] = "parked" /\ place[c] = "chan"
  /\ pc' = [pc EXCEPT ![c] = "holding"]
  /\ place' = [place EXCEPT ![c] = "held"]
  /\ UNCHANGED <<poolVars, busy, waiters, wakers, lease>>

(* The select sees ctx.Done; it may, even when a lease has been sent.      *)
ContextDone(c) ==
  /\ c \in Cancellable
  /\ pc[c] = "parked"
  /\ pc' = [pc EXCEPT ![c] = "cancelling"]
  /\ UNCHANGED <<poolVars, busy, waiters, wakers, lease, place>>

(* removeWaiterLocked: nothing happens when wakeWaiters has popped it.     *)
Withdraw(c) ==
  /\ pc[c] = "cancelling"
  /\ waiters' = RemoveFirst(waiters, c)
  /\ pc' = [pc EXCEPT ![c] = "draining"]
  /\ UNCHANGED <<poolVars, busy, wakers, lease, place>>

(* The non-blocking drain: a lease that is in the channel is released.     *)
Drain(c) ==
  /\ pc[c] = "draining"
  /\ pc' = [pc EXCEPT ![c] = "returned"]
  /\ place' = [place EXCEPT ![c] = IF @ = "chan" THEN "releasing" ELSE @]
  /\ UNCHANGED <<poolVars, busy, waiters, wakers, lease>>

(* The deferred Release of the caller.                                     *)
Release(c) ==
  /\ pc[c] = "holding"
  /\ pc' = [pc EXCEPT ![c] = "returned"]
  /\ place' = [place EXCEPT ![c] = "releasing"]
  /\ UNCHANGED <<poolVars, busy, waiters, wakers, lease>>

(* freeSlot, in the releasing goroutine or in the cooldown's timer: the    *)
(* bounds check is all it makes of the instance having been replaced.      *)
FreeSlot(c) ==
  /\ place[c] = "releasing"
  /\ busy' = busy \ {lease[c].slot}
  /\ place' = [place EXCEPT ![c] = "freed"]
  /\ wakers' = wakers + 1
  /\ UNCHANGED <<poolVars, waiters, pc, lease>>

(* One turn of wakeWaiters' loop: the first waiter is popped with the best *)
(* free instance in hand, ...                                              *)
WakePop ==
  /\ wakers > 0
  /\ waiters # <<>>
  /\ TryAcquire(Head(waiters), "hand")
  /\ waiters' = Tail(waiters)
  /\ wakers' = wakers - 1
  /\ UNCHANGED <<poolVars, pc>>

(* ... or the loop ends.                                                   *)
WakeExit ==
  /\ wakers > 0
  /\ waiters = <<>> \/ Free = {}
  /\ wakers' = wakers - 1
  /\ UNCHANGED <<poolVars, busy, waiters, pc, lease, place>>

(* The send after the pop.  The channel holds one lease and this is the    *)
(* only one ever sent to it, so the send never takes the default branch,   *)
(* whether or not the waiter is still there to receive.                    *)
WakeSend(c) ==
  /\ place[c] = "hand"
  /\ place' = [place EXCEPT ![c] = "chan"]
  /\ wakers' = wakers + 1
  /\ UNCHANGED <<poolVars, busy, waiters, pc, lease>>

CallNext(c) ==
  \/ CountEnabled(c) \/ AcquireNow(c) \/ AcquirePark(c) \/ Receive(c)
  \/ ContextDone(c) \/ Withdraw(c) \/ Drain(c)
  \/ Release(c) \/ FreeSlot(c) \/ WakeSend(c)

Next ==
  \/ \E new \in Configurations : Configure(new)
  \/ \E c \in Calls : CallNext(c)
  \/ WakePop \/ WakeExit

Spec == Init /\ [][Next]_vars

-----------------------------------------------------------------------------
(* A lease is out from the moment its slot is marked busy until freeSlot.  *)
Out == {c \in Calls : place[c] \in {"hand", "chan", "held", "releasing"}}

(* The leases out on the instances that are configured now.                *)
Current == {c \in Out : lease[c].gen = gen}

Queued == ToSet(waiters)

(* The wait list holds exactly the calls that wait and have not been given *)
(* anything, each once: a cancelled call leaves it, a served one is popped.*)
QueueMatchesCalls ==
  /\ NoDuplicates(waiters)
  /\ \A c \in Calls :
       c \in Queued <=> pc[c] \in {"parked", "cancelling"} /\ place[c] = "none"

(* The wait list is in the order of the request priorities.                *)
WaitersSorted == SortedByPriority(waiters, ReqPriority)

(* No lost wake-up: while someone waits for an instance that is free, some *)
(* goroutine is in wakeWaiters, at the head of its loop or about to return *)
(* to it.  Nothing else would ever look at the wait list again.            *)
NoLostWakeup ==
  waiters # <<>> /\ Free # {} => wakers > 0 \/ \E c \in Calls : place[c] = "hand"

(* An instance is busy only while a lease made under the present settings  *)
(* is out on it: none stays checked out that nobody can ever release.      *)
BusyHasLease == \A i \in busy : \E c \in Current : lease[c].slot = i

(* The converse: while a lease is out its instance stays busy, through the *)
(* caller's work and through the cooldown after Release.                   *)
LeasedIsBusy == \A c \in Current : lease[c].slot \in busy

(* Acquire's promise: an instance that is leased or cooling down is not    *)
(* handed to a second caller.                                              *)
ExclusiveInstances ==
  \A c, d \in Current : lease[c].slot = lease[d].slot => c = d

(* Only a lease of settings that were replaced since can undo this: its    *)
(* freeSlot may free the instance that stands in its position now.         *)
OnlyStaleReleasesShare ==
  [][ExclusiveInstances /\ LeasedIsBusy =>
       \/ ExclusiveInstances' /\ LeasedIsBusy'
       \/ \E c \in Calls : /\ place[c] = "releasing" /\ place'[c] = "freed"
                           /\ lease[c].gen < gen]_vars

(* A call of Acquire that has returned an error has left no lease behind   *)
(* in its channel, where nobody will ever take it out.                     *)
NoLeakedLease ==
  \A c \in Calls : pc[c] = "returned" => place[c] \notin {"hand", "chan"}

(* When several callers wait, the one with the lowest request priority is  *)
(* served first.                                                           *)
ServedInOrder ==
  [][\A c, d \in Queued :
       place'[c] = "hand" => ReqPriority[c] <= ReqPriority[d]]_vars

(* A newcomer never parks in front of a call of its own or of a better     *)
(* priority, and parked calls never change places.                         *)
FirstComeFirstServed ==
  [][\A c, d \in ToSet(waiters') :
       c \in Queued /\ (IF d \in Queued THEN Precedes(waiters, c, d)
                                        ELSE ReqPriority[c] <= ReqPriority[d])
         => Precedes(waiters', c, d)]_vars

(* Fairness.  Every goroutine goes on, a lease is used for a bounded time  *)
(* (the HTTP client has a timeout and Release is deferred), and a cooldown *)
(* ends.  Nobody has to cancel, to call Acquire or to change the settings. *)
Fairness ==
  /\ WF_vars(WakePop \/ WakeExit)
  /\ \A c \in Calls :
       /\ WF_vars(AcquireNow(c) \/ AcquirePark(c))
       /\ WF_vars(Receive(c))
       /\ WF_vars(Withdraw(c) \/ Drain(c))
       /\ WF_vars(Release(c))
       /\ WF_vars(FreeSlot(c))
       /\ WF_vars(WakeSend(c))

FairSpec == Spec /\ Fairness

(* Once the pool keeps an enabled instance, every call that waits is       *)
(* served, however the settings were changed before.                       *)
ServedOnceConfigured ==
  <>[](Enabled # {}) => \A c \in Calls : pc[c] = "parked" ~> pc[c] = "holding"

-----------------------------------------------------------------------------
(* The pool as the abstract LeasePool, for settings that are applied once. *)
AbstractState(c) ==
  IF pc[c] = "returned" \/ place[c] \in {"releasing", "freed"} THEN "over"
  ELSE IF place[c] \in {"hand", "chan", "held"} THEN "granted"
  ELSE IF pc[c] \in {"start", "counted"} THEN "new" ELSE "asking"

AbstractOwner(i) ==
  IF \E c \in Current : lease[c].slot = i
  THEN CHOOSE c \in Current : lease[c].slot = i ELSE 0

AbstractSlots == UNION {DOMAIN s.instances : s \in Configurations}

Leases == INSTANCE LeasePool WITH
            Slots <- AbstractSlots, Nobody <- 0,
            state <- [c \in Calls |-> AbstractState(c)],
            owner <- [i \in AbstractSlots |-> AbstractOwner(i)]

(* The pool implements the abstract one: nobody is granted an instance     *)
(* that is somebody's, and none is recycled before its call is over.       *)
ImplementsLeasePool == Leases!Spec
=============================================================================
