-------------------------- MODULE SolverPoolProofs --------------------------
(***************************************************************************)
(* Theorems about the solver pool, for any number of calls, any priorities *)
(* and any settings.  Nothing is assumed of the constants but the named    *)
(* assumptions of SolverPool; Calls may even be infinite.                  *)
(***************************************************************************)
EXTENDS SolverPool, PriorityQueueTheorems

(***************************************************************************)
(* Types.                                                                  *)
(***************************************************************************)

(* Among finitely many free instances one is best, so tryAcquireLocked,    *)
(* when it finds anything free at all, chooses a free instance.            *)
LEMMA BestIsFree ==
  ASSUME TypeOK, Free # {}
  PROVE  Best \in Free
<1> DEFINE insts == config.instances
           key == [i \in Free |-> insts[i].prio]
<1>1. /\ insts \in Seq(Instance) /\ Len(insts) \in Nat
      /\ DOMAIN insts = 1 .. Len(insts)
  BY LenProperties DEF TypeOK, Configuration
<1>2. Free \subseteq 1 .. Len(insts)
  BY <1>1 DEF Free, Enabled
<1>3. \A i \in Free : insts[i].prio \in Int
  <2>1. \A i \in 1 .. Len(insts) : insts[i] \in Instance
    BY <1>1, ElementOfSeq
  <2> HIDE DEF insts
  <2> QED  BY <1>2, <2>1 DEF Instance
<1>4. key \in [Free -> Int]
  BY <1>3
<1> HIDE DEF insts
<1>5. PICK i \in Free : \A j \in Free : key[i] < key[j] \/ (key[i] = key[j] /\ i <= j)
  <2> HIDE DEF key
  <2> QED  BY <1>1, <1>2, <1>4, LeastByKey
<1>6. \A j \in Free : Better(i, j)
  BY <1>5 DEF Better, insts
<1> QED  BY <1>6 DEF Best

(* The same, as the position of an instance.                               *)
LEMMA BestIsPosition ==
  ASSUME TypeOK, Free # {}
  PROVE  Best \in DOMAIN config.instances /\ Best \in Nat /\ Best \notin busy
<1>1. Best \in Free
  BY BestIsFree
<1>2. DOMAIN config.instances = 1 .. Len(config.instances)
  BY LenProperties DEF TypeOK, Configuration
<1> QED  BY <1>1, <1>2 DEF Free, Enabled

(* What tryAcquireLocked writes is well typed, whoever calls it.           *)
LEMMA TryAcquireTypes ==
  ASSUME TypeOK, NEW c \in Calls, NEW p \in Places, TryAcquire(c, p)
  PROVE  /\ busy' \subseteq DOMAIN config.instances
         /\ lease' \in [Calls -> [slot : Nat, gen : Nat]]
         /\ place' \in [Calls -> Places]
<1>1. Best \in DOMAIN config.instances /\ Best \in Nat
  BY BestIsPosition DEF TryAcquire
<1> HIDE DEF Best
<1>2. [slot |-> Best, gen |-> gen] \in [slot : Nat, gen : Nat]
  BY <1>1 DEF TypeOK
<1> QED  BY <1>1, <1>2 DEF TypeOK, TryAcquire

(* Every step keeps the types.                                             *)
LEMMA TypeStep ==
  ASSUME TypeOK, [Next]_vars
  PROVE  TypeOK'
<1>1. ASSUME NEW new \in Configurations, Configure(new)  PROVE TypeOK'
  <2>1. new \in Configuration
    BY ConfigurationAssumption
  <2> QED  BY <1>1, <2>1 DEF Configure, TypeOK
<1>2. ASSUME NEW c \in Calls, CountEnabled(c)  PROVE TypeOK'
  BY <1>2 DEF CountEnabled, TypeOK, poolVars, Locations
<1>3. ASSUME NEW c \in Calls, AcquireNow(c)  PROVE TypeOK'
  <2>1. /\ busy' \subseteq DOMAIN config.instances
        /\ lease' \in [Calls -> [slot : Nat, gen : Nat]]
        /\ place' \in [Calls -> Places]
    <3>1. "held" \in Places
      BY DEF Places
    <3> QED  BY <1>3, <3>1, TryAcquireTypes DEF AcquireNow
  <2> QED  BY <1>3, <2>1 DEF AcquireNow, TypeOK, poolVars, Locations
<1>4. ASSUME NEW c \in Calls, AcquirePark(c)  PROVE TypeOK'
  <2>1. waiters' \in Seq(Calls)
    BY <1>4, InsertAddsOne, PriorityAssumption DEF AcquirePark, TypeOK
  <2> QED  BY <1>4, <2>1 DEF AcquirePark, TypeOK, poolVars, Locations
<1>5. ASSUME NEW c \in Calls, Receive(c)  PROVE TypeOK'
  BY <1>5 DEF Receive, TypeOK, poolVars, Locations, Places
<1>6. ASSUME NEW c \in Calls, ContextDone(c)  PROVE TypeOK'
  BY <1>6 DEF ContextDone, TypeOK, poolVars, Locations
<1>7. ASSUME NEW c \in Calls, Withdraw(c)  PROVE TypeOK'
  <2>1. waiters' \in Seq(Calls)
    BY <1>7, RemoveFirstIsSeq DEF Withdraw, TypeOK
  <2> QED  BY <1>7, <2>1 DEF Withdraw, TypeOK, poolVars, Locations
<1>8. ASSUME NEW c \in Calls, Drain(c)  PROVE TypeOK'
  BY <1>8 DEF Drain, TypeOK, poolVars, Locations, Places
<1>9. ASSUME NEW c \in Calls, Release(c)  PROVE TypeOK'
  BY <1>9 DEF Release, TypeOK, poolVars, Locations, Places
<1>10. ASSUME NEW c \in Calls, FreeSlot(c)  PROVE TypeOK'
  BY <1>10 DEF FreeSlot, TypeOK, poolVars, Places
<1>11. ASSUME NEW c \in Calls, WakeSend(c)  PROVE TypeOK'
  BY <1>11 DEF WakeSend, TypeOK, poolVars, Places
<1>12. CASE WakePop
  <2>1. waiters # <<>> /\ waiters \in Seq(Calls)
    BY <1>12 DEF WakePop, TypeOK
  <2>2. Head(waiters) \in Calls /\ Tail(waiters) \in Seq(Calls)
    BY <2>1, TailDropsHead
  <2>3. /\ busy' \subseteq DOMAIN config.instances
        /\ lease' \in [Calls -> [slot : Nat, gen : Nat]]
        /\ place' \in [Calls -> Places]
    <3>1. "hand" \in Places
      BY DEF Places
    <3> QED  BY <1>12, <2>2, <3>1, TryAcquireTypes DEF WakePop
  <2>4. wakers' \in Nat
    BY <1>12 DEF WakePop, TypeOK
  <2> QED  BY <1>12, <2>2, <2>3, <2>4 DEF WakePop, TypeOK, poolVars
<1>13. CASE WakeExit
  BY <1>13 DEF WakeExit, TypeOK, poolVars
<1>14. CASE UNCHANGED vars
  BY <1>14 DEF vars, TypeOK
<1> QED
  BY <1>1, <1>2, <1>3, <1>4, <1>5, <1>6, <1>7, <1>8, <1>9, <1>10, <1>11, <1>12,
     <1>13, <1>14 DEF Next, CallNext

(* The pool starts well typed.                                             *)
LEMMA InitTypes == Init => TypeOK
<1>1. <<>> \in Seq(Instance) /\ <<>> \in Seq(Calls)
  BY EmptySeq
<1> QED  BY <1>1 DEF Init, TypeOK, Configuration, Locations, Places, NoLease

(* The types of the pool's state: every busy slot exists, whatever list of *)
(* instances Configure has put in place of the one it was leased from.     *)
THEOREM Typing == Spec => []TypeOK
BY InitTypes, TypeStep, PTL DEF Spec

(***************************************************************************)
(* The wait list.                                                          *)
(***************************************************************************)

(* What QueueMatchesCalls needs to be inductive: nothing was made for a    *)
(* call that has not asked yet, and a caller at work holds its lease.      *)
HandOver ==
  \A c \in Calls : /\ pc[c] \in {"start", "counted"} => place[c] = "none"
                   /\ pc[c] = "holding" => place[c] = "held"

QueueInv == TypeOK /\ QueueMatchesCalls /\ HandOver

(* Every step keeps the wait list and the calls in agreement.              *)
LEMMA QueueStep ==
  ASSUME QueueInv, [Next]_vars
  PROVE  QueueInv'
<1> USE DEF QueueInv, QueueMatchesCalls, HandOver, Queued
<1>1. TypeOK'
  BY TypeStep
<1>2. /\ waiters \in Seq(Calls) /\ ToSet(waiters) \subseteq Calls
      /\ pc \in [Calls -> Locations] /\ place \in [Calls -> Places]
  <2>1. waiters \in Seq(Calls)
    BY DEF TypeOK
  <2>2. ToSet(waiters) \subseteq Calls
    BY <2>1, LenProperties, ElementOfSeq DEF ToSet
  <2> QED  BY <2>1, <2>2 DEF TypeOK
<1>3. SUFFICES QueueMatchesCalls' /\ HandOver'
  BY <1>1
<1>4. ASSUME NEW new \in Configurations, Configure(new)
      PROVE  QueueMatchesCalls' /\ HandOver'
  BY <1>4 DEF Configure
<1>5. ASSUME NEW c \in Calls, CountEnabled(c)  PROVE QueueMatchesCalls' /\ HandOver'
  BY <1>2, <1>5 DEF CountEnabled
<1>6. ASSUME NEW c \in Calls, AcquireNow(c)  PROVE QueueMatchesCalls' /\ HandOver'
  BY <1>2, <1>6 DEF AcquireNow, TryAcquire
<1>7. ASSUME NEW c \in Calls, AcquirePark(c)  PROVE QueueMatchesCalls' /\ HandOver'
  <2>1. c \notin ToSet(waiters)
    BY <1>7 DEF AcquirePark
  <2>2. ToSet(waiters') = ToSet(waiters) \cup {c} /\ NoDuplicates(waiters')
    <3>1. waiters' = InsertByPriority(waiters, ReqPriority, c) /\ NoDuplicates(waiters)
      BY <1>7 DEF AcquirePark
    <3> HIDE DEF QueueInv, QueueMatchesCalls, HandOver, Queued
    <3> QED  BY <1>2, <2>1, <3>1, InsertAddsOne, PriorityAssumption
  <2> QED  BY <1>2, <1>7, <2>2 DEF AcquirePark
<1>8. ASSUME NEW c \in Calls, Receive(c)  PROVE QueueMatchesCalls' /\ HandOver'
  BY <1>2, <1>8 DEF Receive
<1>9. ASSUME NEW c \in Calls, ContextDone(c)  PROVE QueueMatchesCalls' /\ HandOver'
  BY <1>2, <1>9 DEF ContextDone
<1>10. ASSUME NEW c \in Calls, Withdraw(c)  PROVE QueueMatchesCalls' /\ HandOver'
  <2>1. ToSet(waiters') = ToSet(waiters) \ {c} /\ NoDuplicates(waiters')
    BY <1>2, <1>10, RemoveFirstDropsOne DEF Withdraw
  <2> QED  BY <1>2, <1>10, <2>1 DEF Withdraw
<1>11. ASSUME NEW c \in Calls, Drain(c)  PROVE QueueMatchesCalls' /\ HandOver'
  BY <1>2, <1>11 DEF Drain
<1>12. ASSUME NEW c \in Calls, Release(c)  PROVE QueueMatchesCalls' /\ HandOver'
  BY <1>2, <1>12 DEF Release
<1>13. ASSUME NEW c \in Calls, FreeSlot(c)  PROVE QueueMatchesCalls' /\ HandOver'
  BY <1>2, <1>13 DEF FreeSlot
<1>14. ASSUME NEW c \in Calls, WakeSend(c)  PROVE QueueMatchesCalls' /\ HandOver'
  BY <1>2, <1>14 DEF WakeSend
<1>15. CASE WakePop
  <2>1. /\ Head(waiters) \in ToSet(waiters) /\ Head(waiters) \in Calls
        /\ ToSet(waiters') = ToSet(waiters) \ {Head(waiters)}
        /\ NoDuplicates(waiters')
    BY <1>2, <1>15, TailDropsHead DEF WakePop
  <2> QED  BY <1>2, <1>15, <2>1 DEF WakePop, TryAcquire
<1>16. CASE WakeExit
  BY <1>16 DEF WakeExit
<1>17. CASE UNCHANGED vars
  BY <1>17 DEF vars
<1> QED
  BY <1>4, <1>5, <1>6, <1>7, <1>8, <1>9, <1>10, <1>11, <1>12, <1>13, <1>14,
     <1>15, <1>16, <1>17 DEF Next, CallNext

(* The pool starts with an empty wait list.                                *)
LEMMA InitQueue == Init => QueueInv
<1>1. ToSet(<<>>) = {} /\ NoDuplicates(<<>>)
  BY DEF ToSet, NoDuplicates
<1> QED  BY <1>1, InitTypes DEF Init, QueueInv, QueueMatchesCalls, HandOver, Queued

(* The wait list holds exactly the calls that wait for an instance, each   *)
(* of them once, through every hand-over and every cancellation.           *)
THEOREM QueueIsExact == Spec => []QueueMatchesCalls
<1>1. QueueInv => QueueMatchesCalls
  BY DEF QueueInv
<1> QED  BY <1>1, InitQueue, QueueStep, PTL DEF Spec

(* A wake-up is never lost: one that finds somebody waiting leaves either  *)
(* another turn of the loop, or nothing free, behind.                      *)
LEMMA WakeupStep ==
  ASSUME QueueInv, NoLostWakeup, [Next]_vars
  PROVE  NoLostWakeup'
<1> DEFINE Waking == wakers > 0 \/ \E c \in Calls : place[c] = "hand"
<1>1. /\ waiters \in Seq(Calls) /\ wakers \in Nat /\ place \in [Calls -> Places]
      /\ \A c \in Calls : c \in ToSet(waiters) =>
           pc[c] \in {"parked", "cancelling"} /\ place[c] = "none"
      /\ \A c \in Calls : pc[c] = "holding" => place[c] = "held"
      /\ \A c \in Calls : pc[c] = "counted" => place[c] = "none"
      /\ NoDuplicates(waiters)
  BY DEF QueueInv, TypeOK, QueueMatchesCalls, HandOver, Queued
<1>2. waiters # <<>> /\ Free # {} => Waking
  BY DEF NoLostWakeup
<1>3. SUFFICES waiters' # <<>> /\ Free' # {} => Waking'
  BY DEF NoLostWakeup
<1>4. ASSUME wakers' = wakers + 1  PROVE Waking'
  BY <1>1, <1>4
<1>5. ASSUME waiters' # <<>> => waiters # <<>>, Free' \subseteq Free,
             wakers' = wakers, \A c \in Calls : place[c] = "hand" => place'[c] = "hand"
      PROVE  waiters' # <<>> /\ Free' # {} => Waking'
  BY <1>2, <1>5
<1>6. ASSUME NEW new \in Configurations, Configure(new)  PROVE Waking'
  BY <1>4, <1>6 DEF Configure
<1>7. ASSUME NEW c \in Calls, CountEnabled(c)
      PROVE  waiters' # <<>> /\ Free' # {} => Waking'
  BY <1>5, <1>7 DEF CountEnabled, poolVars, Free, Enabled
<1>8. ASSUME NEW c \in Calls, AcquireNow(c)
      PROVE  waiters' # <<>> /\ Free' # {} => Waking'
  <2>1. Free' \subseteq Free
    BY <1>8 DEF AcquireNow, TryAcquire, Free, Enabled, poolVars
  <2>2. \A d \in Calls : place[d] = "hand" => place'[d] = "hand"
    BY <1>1, <1>8 DEF AcquireNow, TryAcquire
  <2> QED  BY <1>5, <1>8, <2>1, <2>2 DEF AcquireNow
<1>9. ASSUME NEW c \in Calls, AcquirePark(c)  PROVE Free' = {}
  BY <1>9 DEF AcquirePark, poolVars, Free, Enabled
<1>10. ASSUME NEW c \in Calls, Receive(c)
       PROVE  waiters' # <<>> /\ Free' # {} => Waking'
  <2>1. \A d \in Calls : place[d] = "hand" => place'[d] = "hand"
    BY <1>1, <1>10 DEF Receive
  <2> QED  BY <1>5, <1>10, <2>1 DEF Receive, poolVars, Free, Enabled
<1>11. ASSUME NEW c \in Calls, ContextDone(c)
       PROVE  waiters' # <<>> /\ Free' # {} => Waking'
  BY <1>5, <1>11 DEF ContextDone, poolVars, Free, Enabled
<1>12. ASSUME NEW c \in Calls, Withdraw(c)
       PROVE  waiters' # <<>> /\ Free' # {} => Waking'
  <2>1. waiters' # <<>> => waiters # <<>>
    <3>1. waiters' = RemoveFirst(waiters, c)
      BY <1>12 DEF Withdraw
    <3>2. RemoveFirst(<<>>, c) = <<>>
      BY DEF RemoveFirst
    <3> QED  BY <3>1, <3>2
  <2> QED  BY <1>5, <1>12, <2>1 DEF Withdraw, poolVars, Free, Enabled
<1>13. ASSUME NEW c \in Calls, Drain(c)
       PROVE  waiters' # <<>> /\ Free' # {} => Waking'
  <2>1. \A d \in Calls : place[d] = "hand" => place'[d] = "hand"
    BY <1>1, <1>13 DEF Drain
  <2> QED  BY <1>5, <1>13, <2>1 DEF Drain, poolVars, Free, Enabled
<1>14. ASSUME NEW c \in Calls, Release(c)
       PROVE  waiters' # <<>> /\ Free' # {} => Waking'
  <2>1. \A d \in Calls : place[d] = "hand" => place'[d] = "hand"
    BY <1>1, <1>14 DEF Release
  <2> QED  BY <1>5, <1>14, <2>1 DEF Release, poolVars, Free, Enabled
<1>15. ASSUME NEW c \in Calls, FreeSlot(c)  PROVE Waking'
  BY <1>4, <1>15 DEF FreeSlot
<1>16. ASSUME NEW c \in Calls, WakeSend(c)  PROVE Waking'
  BY <1>4, <1>16 DEF WakeSend
<1>17. CASE WakePop
  <2>1. Head(waiters) \in Calls
    BY <1>1, <1>17, TailDropsHead DEF WakePop
  <2>2. place'[Head(waiters)] = "hand"
    BY <1>1, <1>17, <2>1 DEF WakePop, TryAcquire
  <2> QED  BY <2>1, <2>2
<1>18. CASE WakeExit
  BY <1>18 DEF WakeExit, poolVars, Free, Enabled
<1>19. CASE UNCHANGED vars
  BY <1>5, <1>19 DEF vars, Free, Enabled
<1> QED
  BY <1>6, <1>7, <1>8, <1>9, <1>10, <1>11, <1>12, <1>13, <1>14, <1>15, <1>16,
     <1>17, <1>18, <1>19 DEF Next, CallNext

(* No lost wake-up: whenever somebody waits and an instance is free, a     *)
(* goroutine is in wakeWaiters or about to return to the head of its loop, *)
(* however often the settings change and whoever is cancelled.             *)
THEOREM NoWakeupIsLost == Spec => []NoLostWakeup
<1>1. Init => NoLostWakeup
  BY DEF Init, NoLostWakeup
<1>2. QueueInv /\ NoLostWakeup /\ [Next]_vars => (QueueInv /\ NoLostWakeup)'
  BY QueueStep, WakeupStep
<1> QED  BY <1>1, <1>2, InitQueue, PTL DEF Spec

(***************************************************************************)
(* The order of service.                                                   *)
(***************************************************************************)

(* Every step keeps the wait list in the order of the request priorities.  *)
LEMMA SortedStep ==
  ASSUME TypeOK, WaitersSorted, [Next]_vars
  PROVE  WaitersSorted'
<1> USE DEF WaitersSorted
<1>1. waiters \in Seq(Calls)
  BY DEF TypeOK
<1>2. ASSUME UNCHANGED waiters  PROVE WaitersSorted'
  BY <1>2
<1>3. ASSUME NEW c \in Calls, AcquirePark(c)  PROVE WaitersSorted'
  BY <1>1, <1>3, InsertKeepsOrder, PriorityAssumption DEF AcquirePark
<1>4. ASSUME NEW c \in Calls, Withdraw(c)  PROVE WaitersSorted'
  BY <1>1, <1>4, RemoveFirstKeepsOrder DEF Withdraw
<1>5. CASE WakePop
  BY <1>1, <1>5, TailKeepsOrder DEF WakePop
<1> QED
  BY <1>2, <1>3, <1>4, <1>5 DEF Next, CallNext, vars, Configure, CountEnabled,
     AcquireNow, Receive, ContextDone, Drain, Release, FreeSlot, WakeSend, WakeExit

(* The wait list is sorted by request priority at every moment.            *)
THEOREM WaitListIsSorted == Spec => []WaitersSorted
<1>1. Init => WaitersSorted
  BY DEF Init, WaitersSorted, SortedByPriority
<1>2. TypeOK /\ WaitersSorted /\ [Next]_vars => (TypeOK /\ WaitersSorted)'
  BY TypeStep, SortedStep
<1> QED  BY <1>1, <1>2, InitTypes, PTL DEF Spec

(* A parked call that is handed an instance was the head of the wait list: *)
(* the one with the lowest request priority of all that wait.              *)
THEOREM LowestIsServedFirst == Spec => ServedInOrder
<1> DEFINE Served == \A c, d \in Queued :
                       place'[c] = "hand" => ReqPriority[c] <= ReqPriority[d]
<1>1. ASSUME QueueInv, WaitersSorted, [Next]_vars
      PROVE  [Served]_vars
  <2>1. /\ waiters \in Seq(Calls) /\ place \in [Calls -> Places]
        /\ \A c \in Queued : c \in Calls /\ place[c] = "none"
    <3>1. waiters \in Seq(Calls) /\ place \in [Calls -> Places]
      BY <1>1 DEF QueueInv, TypeOK
    <3>2. Queued \subseteq Calls
      BY <3>1, LenProperties, ElementOfSeq DEF ToSet, Queued
    <3> QED  BY <1>1, <3>1, <3>2 DEF QueueInv, QueueMatchesCalls
  <2>2. CASE WakePop
    <3>1. waiters # <<>> /\ place' = [place EXCEPT ![Head(waiters)] = "hand"]
      BY <2>2 DEF WakePop, TryAcquire
    <3>2. ASSUME NEW c \in Queued, NEW d \in Queued, place'[c] = "hand"
          PROVE  ReqPriority[c] <= ReqPriority[d]
      <4>1. c = Head(waiters)
        BY <2>1, <3>1, <3>2
      <4> QED  BY <1>1, <2>1, <3>1, <4>1, HeadIsLeast, PriorityAssumption
               DEF WaitersSorted, Queued
    <3> QED  BY <3>2
  <2>3. ASSUME \A c \in Calls : place'[c] = "hand" => place[c] = "hand"
        PROVE  Served
    BY <2>1, <2>3
  <2>4. CASE ~WakePop
    <3>1. CASE UNCHANGED place
      BY <2>3, <3>1
    <3>2. ASSUME NEW c \in Calls, AcquireNow(c) \/ Receive(c) \/ Drain(c)
                                   \/ Release(c) \/ FreeSlot(c) \/ WakeSend(c)
          PROVE  Served
      <4>1. \A d \in Calls : place'[d] = "hand" => place[d] = "hand"
        BY <2>1, <3>2 DEF AcquireNow, TryAcquire, Receive, Drain, Release,
                          FreeSlot, WakeSend
      <4> QED  BY <2>3, <4>1
    <3>3. UNCHANGED place
            \/ \E c \in Calls : AcquireNow(c) \/ Receive(c) \/ Drain(c)
                                  \/ Release(c) \/ FreeSlot(c) \/ WakeSend(c)
      BY <1>1, <2>4 DEF Next, CallNext, vars, Configure, CountEnabled, AcquirePark,
                        ContextDone, Withdraw, WakeExit
    <3> QED  BY <3>1, <3>2, <3>3
  <2> QED  BY <2>2, <2>4
<1> QED
  BY <1>1, QueueStep, SortedStep, InitQueue, WaitListIsSorted, PTL
     DEF Spec, ServedInOrder

(* The wait list keeps its order of arrival: a step that leaves two calls  *)
(* waiting leaves them as they stood, and whoever arrives stands behind    *)
(* all calls of its own and of better priorities.                          *)
THEOREM ArrivalOrderIsKept == Spec => FirstComeFirstServed
<1> DEFINE Kept ==
      \A c, d \in ToSet(waiters') :
        c \in Queued /\ (IF d \in Queued THEN Precedes(waiters, c, d)
                                         ELSE ReqPriority[c] <= ReqPriority[d])
          => Precedes(waiters', c, d)
<1>1. ASSUME QueueInv, WaitersSorted, [Next]_vars
      PROVE  [Kept]_vars
  <2>1. /\ waiters \in Seq(Calls) /\ NoDuplicates(waiters)
        /\ SortedByPriority(waiters, ReqPriority)
        /\ \A c \in Calls : c \in Queued => pc[c] \in {"parked", "cancelling"}
    BY <1>1 DEF QueueInv, TypeOK, QueueMatchesCalls, WaitersSorted
  <2>2. ASSUME ToSet(waiters') \subseteq Queued,
               \A c, d \in ToSet(waiters') :
                 Precedes(waiters, c, d) => Precedes(waiters', c, d)
        PROVE  Kept
    BY <2>2
  <2>3. CASE UNCHANGED waiters
    BY <2>2, <2>3 DEF Queued
  <2>4. ASSUME NEW c \in Calls, AcquirePark(c)  PROVE Kept
    <3>1. c \notin Queued /\ waiters' = InsertByPriority(waiters, ReqPriority, c)
      BY <2>1, <2>4 DEF AcquirePark
    <3>2. ToSet(waiters') = Queued \cup {c}
      BY <2>1, <3>1, InsertAddsOne, PriorityAssumption DEF Queued
    <3>3. /\ \A d, e : Precedes(waiters, d, e) => Precedes(waiters', d, e)
          /\ \A d \in ToSet(waiters) :
               ReqPriority[d] <= ReqPriority[c] => Precedes(waiters', d, c)
      BY <2>1, <3>1, InsertKeepsPlaces, PriorityAssumption
    <3> QED  BY <3>1, <3>2, <3>3 DEF Queued
  <2>5. ASSUME NEW c \in Calls, Withdraw(c)  PROVE Kept
    <3>1. waiters' = RemoveFirst(waiters, c)
      BY <2>5 DEF Withdraw
    <3>2. ToSet(waiters') = Queued \ {c}
      BY <2>1, <3>1, RemoveFirstDropsOne DEF Queued
    <3>3. ASSUME NEW d \in ToSet(waiters'), NEW e \in ToSet(waiters'),
                 Precedes(waiters, d, e)
          PROVE  Precedes(waiters', d, e)
      BY <2>1, <3>1, <3>2, <3>3, RemoveFirstKeepsPlaces
    <3> QED  BY <2>2, <3>2, <3>3
  <2>6. CASE WakePop
    <3>1. waiters # <<>> /\ waiters' = Tail(waiters)
      BY <2>6 DEF WakePop
    <3>2. ToSet(waiters') = Queued \ {Head(waiters)}
      BY <2>1, <3>1, TailDropsHead DEF Queued
    <3>3. ASSUME NEW d \in ToSet(waiters'), NEW e \in ToSet(waiters'),
                 Precedes(waiters, d, e)
          PROVE  Precedes(waiters', d, e)
      BY <2>1, <3>1, <3>2, <3>3, TailKeepsPlaces
    <3> QED  BY <2>2, <3>2, <3>3
  <2> QED
    BY <1>1, <2>3, <2>4, <2>5, <2>6 DEF Next, CallNext, vars, Configure,
       CountEnabled, AcquireNow, Receive, ContextDone, Drain, Release, FreeSlot,
       WakeSend, WakeExit
<1>2. TypeOK /\ WaitersSorted /\ [Next]_vars => WaitersSorted'
  BY SortedStep
<1>3. Init => QueueInv /\ WaitersSorted
  BY InitQueue DEF Init, WaitersSorted, SortedByPriority
<1>4. QueueInv /\ [Next]_vars => QueueInv'
  BY QueueStep
<1>5. QueueInv => TypeOK
  BY DEF QueueInv
<1> QED  BY <1>1, <1>2, <1>3, <1>4, <1>5, PTL DEF Spec, FirstComeFirstServed

(***************************************************************************)
(* The instances.                                                          *)
(***************************************************************************)

LeaseInv == QueueInv /\ BusyHasLease

(* Every step leaves a lease of the present settings on each busy slot.    *)
LEMMA BusyStep ==
  ASSUME LeaseInv, [Next]_vars
  PROVE  BusyHasLease'
<1> USE DEF Current, Out
<1>1. /\ place \in [Calls -> Places] /\ lease \in [Calls -> [slot : Nat, gen : Nat]]
      /\ waiters \in Seq(Calls) /\ QueueInv
      /\ \A c \in Calls : c \in ToSet(waiters) => place[c] = "none"
      /\ \A c \in Calls : /\ pc[c] = "counted" => place[c] = "none"
                          /\ pc[c] = "holding" => place[c] = "held"
  BY DEF LeaseInv, QueueInv, TypeOK, QueueMatchesCalls, HandOver, Queued
<1>2. \A i \in busy : \E c \in Current : lease[c].slot = i
  BY DEF LeaseInv, BusyHasLease
<1>3. ASSUME busy' \subseteq busy, gen' = gen, lease' = lease, Out \subseteq Out'
      PROVE  BusyHasLease'
  BY <1>2, <1>3 DEF BusyHasLease
<1>4. ASSUME NEW c \in Calls, NEW p \in {"hand", "held"}, TryAcquire(c, p),
             place[c] = "none", gen' = gen
      PROVE  BusyHasLease'
  <2>1. \A d \in Calls : d # c => lease'[d] = lease[d] /\ place'[d] = place[d]
    BY <1>1, <1>4 DEF TryAcquire
  <2>2. c \in Current' /\ lease'[c].slot = Best
    BY <1>1, <1>4 DEF TryAcquire
  <2>3. busy' = busy \cup {Best}
    BY <1>4 DEF TryAcquire
  <2>4. c \notin Current
    BY <1>4
  <2>5. ASSUME NEW d \in Current  PROVE d \in Current' /\ lease'[d] = lease[d]
    BY <1>4, <2>1, <2>4, <2>5
  <2> HIDE DEF Current, Out
  <2>6. ASSUME NEW i \in busy'  PROVE \E d \in Current' : lease'[d].slot = i
    BY <1>2, <2>2, <2>3, <2>5, <2>6
  <2> QED  BY <2>6 DEF BusyHasLease
<1>5. ASSUME NEW new \in Configurations, Configure(new)  PROVE BusyHasLease'
  BY <1>5 DEF Configure, BusyHasLease
<1>6. ASSUME NEW c \in Calls, AcquireNow(c)  PROVE BusyHasLease'
  BY <1>1, <1>4, <1>6 DEF AcquireNow, poolVars
<1>7. ASSUME NEW c \in Calls, FreeSlot(c)  PROVE BusyHasLease'
  <2>1. ASSUME NEW i \in busy'  PROVE \E d \in Current' : lease'[d].slot = i
    <3>1. i \in busy /\ i # lease[c].slot
      BY <1>7, <2>1 DEF FreeSlot
    <3>2. PICK d \in Current : lease[d].slot = i
      BY <1>2, <3>1
    <3>3. d # c
      BY <3>1, <3>2
    <3> QED  BY <1>1, <1>7, <3>2, <3>3 DEF FreeSlot, poolVars
  <2> QED  BY <2>1 DEF BusyHasLease
<1>8. CASE WakePop
  <2>1. Head(waiters) \in Calls /\ place[Head(waiters)] = "none"
    BY <1>1, <1>8, TailDropsHead DEF WakePop
  <2> QED  BY <1>4, <1>8, <2>1 DEF WakePop, poolVars
<1>9. ASSUME NEW c \in Calls, Receive(c) \/ Drain(c) \/ Release(c) \/ WakeSend(c)
      PROVE  BusyHasLease'
  <2>1. Out \subseteq Out'
    BY <1>1, <1>9 DEF Receive, Drain, Release, WakeSend
  <2> QED  BY <1>3, <1>9, <2>1 DEF Receive, Drain, Release, WakeSend, poolVars
<1>10. ASSUME UNCHANGED <<busy, gen, lease, place>>  PROVE BusyHasLease'
  BY <1>3, <1>10
<1> QED
  BY <1>5, <1>6, <1>7, <1>8, <1>9, <1>10 DEF Next, CallNext, vars, CountEnabled,
     AcquirePark, ContextDone, Withdraw, WakeExit, poolVars

(* An instance is busy only while a lease of the present settings is out   *)
(* on it, through every change of the settings.                            *)
THEOREM BusyIsLeased == Spec => []BusyHasLease
<1>1. Init => LeaseInv
  BY InitQueue DEF Init, LeaseInv, BusyHasLease
<1>2. LeaseInv /\ [Next]_vars => LeaseInv'
  BY QueueStep, BusyStep DEF LeaseInv
<1>3. LeaseInv => BusyHasLease
  BY DEF LeaseInv
<1> QED  BY <1>1, <1>2, <1>3, PTL DEF Spec

(* Settings applied once are in force for every lease there is, ...        *)
OneSetting ==
  /\ gen <= 1
  /\ gen = 0 => config.instances = <<>>
  /\ \A c \in Out : lease[c].gen = gen /\ gen = 1

ExclusiveInv == /\ QueueInv /\ OneSetting
                /\ ExclusiveInstances /\ LeasedIsBusy

(* ... so a slot is freed by the lease that made it busy, and by no other. *)
LEMMA ExclusiveStep ==
  ASSUME MaxConfigures <= 1, ExclusiveInv, [Next]_vars
  PROVE  OneSetting' /\ ExclusiveInstances' /\ LeasedIsBusy'
<1> DEFINE Goal == OneSetting /\ ExclusiveInstances /\ LeasedIsBusy
<1> USE DEF OneSetting, ExclusiveInstances, LeasedIsBusy, Current, Out
<1>1. /\ place \in [Calls -> Places] /\ lease \in [Calls -> [slot : Nat, gen : Nat]]
      /\ waiters \in Seq(Calls) /\ gen \in Nat /\ TypeOK
      /\ \A c \in Calls : c \in ToSet(waiters) => place[c] = "none"
      /\ \A c \in Calls : /\ pc[c] = "counted" => place[c] = "none"
                          /\ pc[c] = "holding" => place[c] = "held"
  BY DEF ExclusiveInv, QueueInv, TypeOK, QueueMatchesCalls, HandOver, Queued
<1>2. Goal
  BY DEF ExclusiveInv
<1>3. ASSUME UNCHANGED <<config, gen, lease, busy>>, Out' \subseteq Out
      PROVE  Goal'
  BY <1>2, <1>3
<1>4. ASSUME NEW c \in Calls, NEW p \in {"hand", "held"}, TryAcquire(c, p),
             place[c] = "none", UNCHANGED <<config, gen>>
      PROVE  Goal'
  <2>1. \A d \in Calls : d # c => lease'[d] = lease[d] /\ place'[d] = place[d]
    BY <1>1, <1>4 DEF TryAcquire
  <2>2. /\ lease'[c].slot = Best /\ lease'[c].gen = gen
        /\ busy' = busy \cup {Best}
    BY <1>1, <1>4 DEF TryAcquire
  <2>3. Best \in DOMAIN config.instances /\ Best \notin busy
    BY <1>1, <1>4, BestIsPosition DEF TryAcquire
  <2>4. gen = 1
    <3>1. config.instances # <<>>
      BY <2>3
    <3> QED  BY <1>1, <1>2, <3>1
  <2> HIDE DEF Best
  <2>5. OneSetting'
    BY <1>2, <1>4, <2>1, <2>2, <2>4
  <2>6. LeasedIsBusy'
    BY <1>2, <1>4, <2>1, <2>2
  <2>7. ASSUME NEW d \in Current', d # c
        PROVE  d \in Current /\ lease'[d] = lease[d] /\ lease[d].slot # Best
    BY <1>2, <1>4, <2>1, <2>3, <2>7
  <2>8. ExclusiveInstances'
    <3> SUFFICES ASSUME NEW d \in Current', NEW e \in Current',
                        lease'[d].slot = lease'[e].slot
                 PROVE  d = e
      OBVIOUS
    <3> QED  BY <1>2, <2>2, <2>7
  <2> QED  BY <2>5, <2>6, <2>8
<1>5. ASSUME NEW new \in Configurations, Configure(new)  PROVE Goal'
  <2>1. gen = 0 /\ gen' = 1
    BY <1>1, <1>5, BoundAssumption DEF Configure
  <2>2. Out = {}
    BY <1>2, <2>1
  <2>3. Out' = {}
    BY <1>5, <2>2 DEF Configure
  <2> QED  BY <2>1, <2>3
<1>6. ASSUME NEW c \in Calls, AcquireNow(c)  PROVE Goal'
  BY <1>1, <1>4, <1>6 DEF AcquireNow, poolVars
<1>7. ASSUME NEW c \in Calls, FreeSlot(c)  PROVE Goal'
  <2>1. /\ c \in Out /\ Out' = Out \ {c} /\ UNCHANGED <<config, gen, lease>>
        /\ busy' = busy \ {lease[c].slot}
    BY <1>1, <1>7 DEF FreeSlot, poolVars
  <2>2. \A d \in Out' : d \in Current /\ c \in Current /\ d # c
    BY <1>2, <2>1
  <2>3. LeasedIsBusy'
    BY <1>2, <2>1, <2>2
  <2> QED  BY <1>2, <2>1, <2>3
<1>8. CASE WakePop
  <2>1. Head(waiters) \in Calls /\ place[Head(waiters)] = "none"
    BY <1>1, <1>8, TailDropsHead DEF WakePop
  <2> QED  BY <1>4, <1>8, <2>1 DEF WakePop, poolVars
<1>9. ASSUME NEW c \in Calls, Receive(c) \/ Drain(c) \/ Release(c) \/ WakeSend(c)
      PROVE  Goal'
  <2>1. Out' \subseteq Out
    BY <1>1, <1>9 DEF Receive, Drain, Release, WakeSend
  <2> QED  BY <1>3, <1>9, <2>1 DEF Receive, Drain, Release, WakeSend, poolVars
<1>10. ASSUME UNCHANGED <<config, gen, lease, busy, place>>  PROVE Goal'
  BY <1>3, <1>10
<1> QED
  BY <1>5, <1>6, <1>7, <1>8, <1>9, <1>10 DEF Next, CallNext, vars, CountEnabled,
     AcquirePark, ContextDone, Withdraw, WakeExit, poolVars

(* Acquire's promise, as far as it holds: under settings that are applied  *)
(* once, no instance that is leased or cooling down is handed out again,   *)
(* and it stays busy for as long.                                          *)
THEOREM InstancesAreExclusive ==
  ASSUME MaxConfigures <= 1
  PROVE  Spec => [](ExclusiveInstances /\ LeasedIsBusy)
<1>1. Init => ExclusiveInv
  BY InitQueue DEF Init, ExclusiveInv, OneSetting, ExclusiveInstances,
                   LeasedIsBusy, Current, Out
<1>2. ExclusiveInv /\ [Next]_vars => ExclusiveInv'
  BY QueueStep, ExclusiveStep DEF ExclusiveInv
<1>3. ExclusiveInv => ExclusiveInstances /\ LeasedIsBusy
  BY DEF ExclusiveInv
<1> QED  BY <1>1, <1>2, <1>3, PTL DEF Spec

(* No lease is made under settings that are still to come.                 *)
NoLeaseAhead == \A c \in Out : lease[c].gen <= gen

LEMMA NoLeaseAheadStep ==
  ASSUME QueueInv, NoLeaseAhead, [Next]_vars
  PROVE  NoLeaseAhead'
<1> USE DEF NoLeaseAhead, Out
<1>1. /\ place \in [Calls -> Places] /\ lease \in [Calls -> [slot : Nat, gen : Nat]]
      /\ gen \in Nat /\ waiters \in Seq(Calls)
      /\ \A c \in Calls : pc[c] = "holding" => place[c] = "held"
  BY DEF QueueInv, TypeOK, HandOver
<1>2. ASSUME UNCHANGED <<gen, lease>>, Out' \subseteq Out  PROVE NoLeaseAhead'
  BY <1>2
<1>3. ASSUME NEW c \in Calls, NEW p, TryAcquire(c, p), UNCHANGED gen  PROVE NoLeaseAhead'
  <2>1. \A d \in Calls : d # c => lease'[d] = lease[d] /\ place'[d] = place[d]
    BY <1>1, <1>3 DEF TryAcquire
  <2>2. lease'[c].gen = gen
    BY <1>1, <1>3 DEF TryAcquire
  <2> QED  BY <1>1, <1>3, <2>1, <2>2
<1>4. ASSUME NEW new \in Configurations, Configure(new)  PROVE NoLeaseAhead'
  BY <1>1, <1>4 DEF Configure
<1>5. ASSUME NEW c \in Calls, AcquireNow(c)  PROVE NoLeaseAhead'
  BY <1>3, <1>5 DEF AcquireNow, poolVars
<1>6. CASE WakePop
  <2>1. Head(waiters) \in Calls
    BY <1>1, <1>6, TailDropsHead DEF WakePop
  <2> QED  BY <1>3, <1>6, <2>1 DEF WakePop, poolVars
<1>7. ASSUME NEW c \in Calls, Receive(c) \/ Drain(c) \/ Release(c) \/ WakeSend(c) \/ FreeSlot(c)
      PROVE  NoLeaseAhead'
  <2>1. Out' \subseteq Out
    BY <1>1, <1>7 DEF Receive, Drain, Release, WakeSend, FreeSlot
  <2> QED  BY <1>2, <1>7, <2>1 DEF Receive, Drain, Release, WakeSend, FreeSlot, poolVars
<1> QED
  BY <1>2, <1>4, <1>5, <1>6, <1>7 DEF Next, CallNext, vars, CountEnabled,
     AcquirePark, ContextDone, Withdraw, WakeExit, poolVars

(* However often the settings change: as long as no lease of replaced      *)
(* settings is freed, every instance has one lease and stays busy for it;  *)
(* and Configure itself, which forgets all leases, makes it so again.      *)
THEOREM SharingIsStale == Spec => OnlyStaleReleasesShare
<1> DEFINE Good == ExclusiveInstances /\ LeasedIsBusy
           Stale == \E c \in Calls : /\ place[c] = "releasing" /\ place'[c] = "freed"
                                    /\ lease[c].gen < gen
<1>1. ASSUME QueueInv, NoLeaseAhead, Good, Next, ~Stale  PROVE Good'
  <2> USE DEF ExclusiveInstances, LeasedIsBusy, Current, Out
  <2>1. /\ place \in [Calls -> Places] /\ lease \in [Calls -> [slot : Nat, gen : Nat]]
        /\ waiters \in Seq(Calls) /\ gen \in Nat /\ TypeOK
        /\ \A c \in Calls : c \in ToSet(waiters) => place[c] = "none"
        /\ \A c \in Calls : /\ pc[c] = "counted" => place[c] = "none"
                            /\ pc[c] = "holding" => place[c] = "held"
    BY <1>1 DEF QueueInv, TypeOK, QueueMatchesCalls, HandOver, Queued
  <2>2. ASSUME UNCHANGED <<gen, lease, busy>>, Out' \subseteq Out  PROVE Good'
    BY <1>1, <2>2
  <2>3. ASSUME NEW c \in Calls, NEW p \in {"hand", "held"}, TryAcquire(c, p), UNCHANGED gen
        PROVE  Good'
    <3>1. \A d \in Calls : d # c => lease'[d] = lease[d] /\ place'[d] = place[d]
      BY <2>1, <2>3 DEF TryAcquire
    <3>2. lease'[c].slot = Best /\ busy' = busy \cup {Best}
      BY <2>1, <2>3 DEF TryAcquire
    <3>3. Best \notin busy
      BY <2>1, <2>3, BestIsPosition DEF TryAcquire
    <3> HIDE DEF Best
    <3>4. LeasedIsBusy'
      BY <1>1, <2>3, <3>1, <3>2
    <3>5. ASSUME NEW d \in Current', d # c
          PROVE  d \in Current /\ lease'[d] = lease[d] /\ lease[d].slot # Best
      BY <1>1, <2>3, <3>1, <3>3, <3>5
    <3>6. ExclusiveInstances'
      <4> SUFFICES ASSUME NEW d \in Current', NEW e \in Current',
                          lease'[d].slot = lease'[e].slot
                   PROVE  d = e
        OBVIOUS
      <4> QED  BY <1>1, <3>2, <3>5
    <3> QED  BY <3>4, <3>6
  <2>4. ASSUME NEW new \in Configurations, Configure(new)  PROVE Good'
    <3>1. Current' = {}
      BY <1>1, <2>1, <2>4 DEF Configure, NoLeaseAhead
    <3> QED  BY <3>1
  <2>5. ASSUME NEW c \in Calls, AcquireNow(c)  PROVE Good'
    BY <2>1, <2>3, <2>5 DEF AcquireNow, poolVars
  <2>6. ASSUME NEW c \in Calls, FreeSlot(c)  PROVE Good'
    <3>1. /\ c \in Out /\ Out' = Out \ {c} /\ UNCHANGED <<gen, lease>>
          /\ busy' = busy \ {lease[c].slot} /\ place[c] = "releasing" /\ place'[c] = "freed"
      BY <2>1, <2>6 DEF FreeSlot, poolVars
    <3>2. c \in Current
      BY <1>1, <2>1, <3>1 DEF NoLeaseAhead
    <3>3. \A d \in Current' : d \in Current /\ d # c
      BY <3>1
    <3> QED  BY <1>1, <3>1, <3>2, <3>3
  <2>7. CASE WakePop
    <3>1. Head(waiters) \in Calls /\ place[Head(waiters)] = "none"
      BY <2>1, <2>7, TailDropsHead DEF WakePop
    <3> QED  BY <2>3, <2>7, <3>1 DEF WakePop, poolVars
  <2>8. ASSUME NEW c \in Calls, Receive(c) \/ Drain(c) \/ Release(c) \/ WakeSend(c)
        PROVE  Good'
    <3>1. Out' \subseteq Out
      BY <2>1, <2>8 DEF Receive, Drain, Release, WakeSend
    <3> QED  BY <2>2, <2>8, <3>1 DEF Receive, Drain, Release, WakeSend, poolVars
  <2>9. ASSUME UNCHANGED <<gen, lease, busy, place>>  PROVE Good'
    BY <2>2, <2>9
  <2> QED
    BY <1>1, <2>4, <2>5, <2>6, <2>7, <2>8, <2>9 DEF Next, CallNext, CountEnabled,
       AcquirePark, ContextDone, Withdraw, WakeExit, poolVars
<1> DEFINE Blamed ==
      ExclusiveInstances /\ LeasedIsBusy =>
        \/ ExclusiveInstances' /\ LeasedIsBusy'
        \/ \E c \in Calls : /\ place[c] = "releasing" /\ place'[c] = "freed"
                            /\ lease[c].gen < gen
<1>2. QueueInv /\ NoLeaseAhead /\ [Next]_vars => [Blamed]_vars
  BY <1>1
<1>3. Init => QueueInv /\ NoLeaseAhead
  BY InitQueue DEF Init, NoLeaseAhead, Out
<1>4. QueueInv /\ NoLeaseAhead /\ [Next]_vars => (QueueInv /\ NoLeaseAhead)'
  BY QueueStep, NoLeaseAheadStep
<1> HIDE DEF Blamed
<1>5. Spec => [][Blamed]_vars
  BY <1>2, <1>3, <1>4, PTL DEF Spec
<1> QED  BY <1>5 DEF Blamed, OnlyStaleReleasesShare

(***************************************************************************)
(* The abstract pool.                                                      *)
(***************************************************************************)

RefinementInv == /\ ExclusiveInv
                 /\ gen # 0 => config \in Configurations

(* Whom the mapping makes the owner of an instance: the one call that has  *)
(* a lease out on it, or nobody (0, which is no call).                     *)
LEMMA OwnerIsLeaseholder ==
  ASSUME ExclusiveInstances
  PROVE  /\ \A c \in Current : AbstractOwner(lease[c].slot) = c
         /\ \A i : (\A c \in Current : lease[c].slot # i) => AbstractOwner(i) = 0
BY DEF ExclusiveInstances, AbstractOwner

(* The same of the state after a step.                                     *)
LEMMA OwnerIsLeaseholderNext ==
  ASSUME ExclusiveInstances'
  PROVE  /\ \A c \in Current' : AbstractOwner(lease[c].slot)' = c
         /\ \A i : (\A c \in Current' : lease'[c].slot # i) => AbstractOwner(i)' = 0
BY DEF ExclusiveInstances, AbstractOwner

(* Every step is a step of the abstract pool, or leaves it as it is.       *)
LEMMA MappedStep ==
  ASSUME 0 \notin Calls, MaxConfigures <= 1, RefinementInv, [Next]_vars,
         RefinementInv'
  PROVE  [Leases!Next]_(Leases!vars)
<1> DEFINE st == [c \in Calls |-> AbstractState(c)]
           ow == [i \in AbstractSlots |-> AbstractOwner(i)]
<1>1. /\ place \in [Calls -> Places] /\ pc \in [Calls -> Locations]
      /\ lease \in [Calls -> [slot : Nat, gen : Nat]]
      /\ waiters \in Seq(Calls) /\ TypeOK
      /\ \A c \in Calls : c \in ToSet(waiters) =>
           place[c] = "none" /\ pc[c] \in {"parked", "cancelling"}
      /\ \A c \in Calls : /\ pc[c] \in {"start", "counted"} => place[c] = "none"
                          /\ pc[c] = "holding" => place[c] = "held"
  BY DEF RefinementInv, ExclusiveInv, QueueInv, TypeOK, QueueMatchesCalls,
         HandOver, Queued
<1>2. /\ Current = Out /\ Current' = Out' /\ ExclusiveInstances /\ ExclusiveInstances'
      /\ \A c \in Out : lease[c].slot \in busy
  BY DEF RefinementInv, ExclusiveInv, OneSetting, Current, LeasedIsBusy
<1>3. /\ \A c \in Out : AbstractOwner(lease[c].slot) = c
      /\ \A i : (\A c \in Out : lease[c].slot # i) => AbstractOwner(i) = 0
      /\ \A c \in Out' : AbstractOwner(lease[c].slot)' = c
      /\ \A i : (\A c \in Out' : lease'[c].slot # i) => AbstractOwner(i)' = 0
  BY <1>2, OwnerIsLeaseholder, OwnerIsLeaseholderNext
<1> HIDE DEF AbstractOwner
<1>3a. AbstractSlots' = AbstractSlots
  BY DEF AbstractSlots
<1>4. ASSUME Out' = Out, UNCHANGED lease
      PROVE  ow' = ow
  <2>1. ASSUME NEW i \in AbstractSlots  PROVE AbstractOwner(i)' = AbstractOwner(i)
    <3>1. CASE \E c \in Out : lease[c].slot = i
      BY <1>3, <1>4, <3>1
    <3>2. CASE \A c \in Out : lease[c].slot # i
      BY <1>3, <1>4, <3>2
    <3> QED  BY <3>1, <3>2
  <2> QED  BY <2>1 DEF AbstractSlots
<1>5. ASSUME ow' = ow, \A d \in Calls : AbstractState(d)' = AbstractState(d)
      PROVE  UNCHANGED Leases!vars
  BY <1>5 DEF Leases!vars
<1>6. ASSUME ow' = ow, NEW c \in Calls,
             \A d \in Calls : d # c => AbstractState(d)' = AbstractState(d)
      PROVE  /\ AbstractState(c) = "new" /\ AbstractState(c)' = "asking"
                  => Leases!Next
             /\ AbstractState(c) \in {"new", "asking"} /\ AbstractState(c)' = "over"
                  => Leases!Next
             /\ AbstractState(c) = "granted" /\ AbstractState(c)' = "over"
                  => Leases!Next
             /\ AbstractState(c) = AbstractState(c)' => UNCHANGED Leases!vars
  <2>1. \A v : AbstractState(c)' = v => st' = [st EXCEPT ![c] = v]
    BY <1>6
  <2>2. st[c] = AbstractState(c)
    OBVIOUS
  <2> HIDE DEF st, ow
  <2>3. AbstractState(c) = "new" /\ AbstractState(c)' = "asking" => Leases!Ask(c)
    BY <1>6, <2>1, <2>2 DEF Leases!Ask, st, ow
  <2>4. AbstractState(c) \in {"new", "asking"} /\ AbstractState(c)' = "over"
          => Leases!GoWithout(c)
    BY <1>6, <2>1, <2>2 DEF Leases!GoWithout, st, ow
  <2>5. AbstractState(c) = "granted" /\ AbstractState(c)' = "over"
          => Leases!Return(c)
    BY <1>6, <2>1, <2>2 DEF Leases!Return, st, ow
  <2>6. AbstractState(c) = AbstractState(c)' => UNCHANGED Leases!vars
    BY <1>5, <1>6
  <2> QED  BY <2>3, <2>4, <2>5, <2>6 DEF Leases!Next
<1>7. ASSUME NEW c \in Calls, NEW p \in {"hand", "held"}, TryAcquire(c, p),
             place[c] = "none", pc[c] # "returned", UNCHANGED <<config, gen>>,
             pc' \in [Calls -> Locations],
             \A d \in Calls : d # c => pc'[d] = pc[d], pc'[c] # "returned"
      PROVE  Leases!Next
  <2> PICK b : b = Best
    OBVIOUS
  <2>1. /\ \A d \in Calls : d # c => lease'[d] = lease[d] /\ place'[d] = place[d]
        /\ place'[c] = p /\ lease'[c].slot = b
    BY <1>1, <1>7 DEF TryAcquire
  <2>2. b \in DOMAIN config.instances /\ b \notin busy
    BY <1>1, <1>7, BestIsPosition DEF TryAcquire
  <2>3. b \in AbstractSlots
    <3>1. gen # 0
      <4>1. config.instances # <<>>
        BY <2>2
      <4> QED  BY <4>1 DEF RefinementInv, ExclusiveInv, OneSetting
    <3> QED  BY <2>2, <3>1 DEF RefinementInv, AbstractSlots
  <2>4. /\ c \notin Out /\ Out' = Out \cup {c}
        /\ \A d \in Out : d # c /\ lease[d].slot # b
    BY <1>2, <1>7, <2>1, <2>2 DEF Out
  <2>5. AbstractOwner(b) = 0 /\ AbstractOwner(b)' = c
    BY <1>3, <2>1, <2>4
  <2>6. ASSUME NEW i \in AbstractSlots, i # b
        PROVE  AbstractOwner(i)' = AbstractOwner(i)
    <3>1. CASE \E d \in Out : lease[d].slot = i
      <4>1. PICK d \in Out : lease[d].slot = i
        BY <3>1
      <4>2. d \in Out' /\ lease'[d].slot = i
        BY <2>1, <2>4, <4>1 DEF Out
      <4>3. AbstractOwner(i) = d
        BY <1>3, <4>1
      <4>4. AbstractOwner(i)' = d
        BY <1>3, <4>2
      <4> QED  BY <4>3, <4>4
    <3>2. CASE \A d \in Out : lease[d].slot # i
      <4>1. AbstractOwner(i) = 0
        BY <1>3, <3>2
      <4>2. \A d \in Out' : lease'[d].slot # i
        BY <2>1, <2>4, <2>6, <3>2 DEF Out
      <4>3. AbstractOwner(i)' = 0
        BY <1>3, <4>2
      <4> QED  BY <4>1, <4>3
    <3> QED  BY <3>1, <3>2
  <2>7. /\ AbstractState(c) \in {"new", "asking"} /\ AbstractState(c)' = "granted"
        /\ \A d \in Calls : d # c => AbstractState(d)' = AbstractState(d)
    BY <1>7, <2>1 DEF AbstractState
  <2>8. st' = [st EXCEPT ![c] = "granted"] /\ st[c] \in {"new", "asking"}
    BY <2>7
  <2>9. ow' = [ow EXCEPT ![b] = c] /\ ow[b] = 0
    BY <1>3a, <2>3, <2>5, <2>6
  <2>10. Leases!Grant(c, b)
    BY <2>8, <2>9 DEF Leases!Grant
  <2> QED  BY <2>3, <2>10 DEF Leases!Next
<1>8. ASSUME NEW new \in Configurations, Configure(new)
      PROVE  UNCHANGED Leases!vars
  <2>1. Out' = Out
    BY <1>8 DEF Configure, Out
  <2> QED  BY <1>4, <1>5, <1>8, <2>1 DEF Configure, AbstractState
<1>9. ASSUME NEW c \in Calls, CountEnabled(c)  PROVE [Leases!Next]_(Leases!vars)
  <2>1. ow' = ow
    BY <1>4, <1>9 DEF CountEnabled, Out
  <2>2. /\ \A d \in Calls : d # c => AbstractState(d)' = AbstractState(d)
        /\ AbstractState(c) = "new" /\ AbstractState(c)' \in {"new", "over"}
    BY <1>1, <1>9 DEF CountEnabled, AbstractState
  <2> QED  BY <1>6, <2>1, <2>2
<1>10. ASSUME NEW c \in Calls, AcquireNow(c)  PROVE Leases!Next
  BY <1>1, <1>7, <1>10 DEF AcquireNow, poolVars, Locations
<1>11. ASSUME NEW c \in Calls, AcquirePark(c)  PROVE Leases!Next
  <2>1. ow' = ow
    BY <1>4, <1>11 DEF AcquirePark, Out
  <2>2. /\ \A d \in Calls : d # c => AbstractState(d)' = AbstractState(d)
        /\ AbstractState(c) = "new" /\ AbstractState(c)' = "asking"
    BY <1>1, <1>11 DEF AcquirePark, AbstractState
  <2> QED  BY <1>6, <2>1, <2>2
<1>12. ASSUME NEW c \in Calls, Receive(c) \/ ContextDone(c) \/ Withdraw(c) \/ WakeSend(c)
       PROVE  UNCHANGED Leases!vars
  <2>1. Out' = Out
    BY <1>1, <1>12 DEF Receive, ContextDone, Withdraw, WakeSend, Out
  <2>2. ow' = ow
    BY <1>4, <1>12, <2>1 DEF Receive, ContextDone, Withdraw, WakeSend
  <2>3. \A d \in Calls : AbstractState(d)' = AbstractState(d)
    BY <1>1, <1>12 DEF Receive, ContextDone, Withdraw, WakeSend, AbstractState
  <2> QED  BY <1>5, <2>2, <2>3
<1>13. ASSUME NEW c \in Calls, Drain(c) \/ Release(c)
       PROVE  [Leases!Next]_(Leases!vars)
  <2>1. Out' = Out
    BY <1>1, <1>13 DEF Drain, Release, Out
  <2>2. ow' = ow
    BY <1>4, <1>13, <2>1 DEF Drain, Release
  <2>3. /\ \A d \in Calls : d # c => AbstractState(d)' = AbstractState(d)
        /\ AbstractState(c) \in {"asking", "granted", "over"}
        /\ AbstractState(c)' = "over"
    BY <1>1, <1>13 DEF Drain, Release, AbstractState
  <2> QED  BY <1>6, <2>2, <2>3
<1>14. ASSUME NEW c \in Calls, FreeSlot(c)  PROVE [Leases!Next]_(Leases!vars)
  <2> PICK s : s = lease[c].slot
    OBVIOUS
  <2>1. /\ c \in Out /\ Out' = Out \ {c} /\ UNCHANGED <<config, gen, lease, pc>>
        /\ \A d \in Out' : lease[d].slot # s
    BY <1>1, <1>2, <1>14 DEF FreeSlot, poolVars, Out, ExclusiveInstances
  <2>2. AbstractOwner(s) = c /\ AbstractOwner(s)' = 0
    BY <1>3, <2>1
  <2>3. ASSUME NEW i \in AbstractSlots, i # s
        PROVE  AbstractOwner(i)' = AbstractOwner(i)
    <3>1. CASE \E d \in Out : lease[d].slot = i
      BY <1>3, <2>1, <2>3, <3>1
    <3>2. CASE \A d \in Out : lease[d].slot # i
      BY <1>3, <2>1, <3>2
    <3> QED  BY <3>1, <3>2
  <2>4. /\ \A d \in Calls : AbstractState(d)' = AbstractState(d)
        /\ AbstractState(c) = "over"
    BY <1>1, <1>14 DEF FreeSlot, AbstractState
  <2>5. CASE s \in AbstractSlots
    <3>1. st' = st /\ st[c] = "over"
      BY <2>4
    <3>2. ow' = [ow EXCEPT ![s] = 0] /\ ow[s] = c
      BY <1>3a, <2>2, <2>3, <2>5
    <3>3. Leases!Recycle(s)
      BY <3>1, <3>2 DEF Leases!Recycle
    <3> QED  BY <2>5, <3>3 DEF Leases!Next
  <2>6. CASE s \notin AbstractSlots
    <3>1. ow' = ow
      BY <2>3, <2>6 DEF AbstractSlots
    <3> QED  BY <1>5, <2>4, <3>1
  <2> QED  BY <2>5, <2>6
<1>15. CASE WakePop
  <2>1. Head(waiters) \in Calls /\ Head(waiters) \in ToSet(waiters)
    BY <1>1, <1>15, TailDropsHead DEF WakePop
  <2> QED  BY <1>1, <1>7, <1>15, <2>1 DEF WakePop, poolVars
<1>16. CASE WakeExit \/ UNCHANGED vars
  <2>1. Out' = Out /\ UNCHANGED <<lease, place, pc>>
    BY <1>16 DEF WakeExit, vars, Out
  <2> QED  BY <1>4, <1>5, <2>1 DEF AbstractState
<1> QED
  BY <1>8, <1>9, <1>10, <1>11, <1>12, <1>13, <1>14, <1>15, <1>16 DEF Next, CallNext

(* The pool implements the abstract one under settings that are applied    *)
(* once: an instance is granted only when it is nobody's, and comes back   *)
(* only when the call it was granted to is over.                           *)
THEOREM PoolImplementsLeasePool ==
  ASSUME 0 \notin Calls, MaxConfigures <= 1
  PROVE  Spec => ImplementsLeasePool
<1>1. Init => RefinementInv /\ Leases!Init
  <2>1. ASSUME Init  PROVE RefinementInv
    BY <2>1, InitQueue DEF Init, RefinementInv, ExclusiveInv, OneSetting,
       ExclusiveInstances, LeasedIsBusy, Current, Out
  <2>2. ASSUME Init  PROVE Leases!Init
    <3>1. \A c \in Calls : AbstractState(c) = "new"
      BY <2>2 DEF Init, AbstractState
    <3>2. \A i : AbstractOwner(i) = 0
      BY <2>2 DEF Init, AbstractOwner, Current, Out
    <3> QED  BY <3>1, <3>2 DEF Leases!Init
  <2> QED  BY <2>1, <2>2
<1>2. RefinementInv /\ [Next]_vars => RefinementInv'
  <2> SUFFICES ASSUME RefinementInv, [Next]_vars  PROVE RefinementInv'
    OBVIOUS
  <2>1. ExclusiveInv'
    BY QueueStep, ExclusiveStep DEF RefinementInv, ExclusiveInv
  <2>2. UNCHANGED <<config, gen>> \/ config' \in Configurations
    BY DEF Next, CallNext, vars, poolVars, Configure, CountEnabled, AcquireNow,
       AcquirePark, Receive, ContextDone, Withdraw, Drain, Release, FreeSlot,
       WakeSend, WakePop, WakeExit
  <2> QED  BY <2>1, <2>2 DEF RefinementInv
<1>3. RefinementInv /\ RefinementInv' /\ [Next]_vars
        => [Leases!Next]_(Leases!vars)
  BY MappedStep
<1> QED  BY <1>1, <1>2, <1>3, PTL DEF Spec, ImplementsLeasePool, Leases!Spec
=============================================================================
