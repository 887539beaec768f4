-------------------------- MODULE ScanQueueProofs --------------------------
(***************************************************************************)
(* Theorems about the scan queue, for any jobs, priorities and sites, any  *)
(* depth of preemption, any number of workers, and Stops at any time; and  *)
(* about what comes before it, the startup and the migration of the        *)
(* database.                                                               *)
(***************************************************************************)
EXTENDS ScanQueue, Startup, DbMigration, PriorityQueueTheorems, FiniteSetTheorems,
        FunctionTheorems

-----------------------------------------------------------------------------
(* The jobs a call of run answers for: its own until it has been saved,    *)
(* and the one that it has popped.                                         *)
Own(f) == {j \in Jobs : (j = f.job /\ f.at # "saved") \/ j = f.next}

(* The jobs that n calls of a stack answer for; and the jobs on it.        *)
OwnOf(s, n) == UNION {Own(s[i]) : i \in 1 .. n}

UnreturnedOf(s) ==
  {s[i].job : i \in {k \in DOMAIN s : s[k].at # "saved"}}
    \cup ({s[i].next : i \in DOMAIN s} \ {NoJob})

RunningOf(s) == {s[i].job : i \in DOMAIN s} \cup ({s[i].next : i \in DOMAIN s} \ {NoJob})

(* A call has popped a job just when it is about to yield to it.           *)
PopsToYield(f) ==
  IF f.at = "yield" THEN f.next \in Jobs /\ Prio[f.next] < Prio[f.job]
                    ELSE f.next = NoJob

(* The stack: each call outranks all those below it, which wait for it.    *)
Nested(s) ==
  \A i \in 1 .. Len(s) :
    /\ PopsToYield(s[i])
    /\ i < Len(s) => s[i].at = "nested"
    /\ \A k \in 1 .. Len(s) : k < i => Prio[s[i].job] < Prio[s[k].job]

StackInv ==
  /\ Nested(stack)
  /\ ~worker => stack = <<>> /\ queue = <<>>
  /\ worker => epoch # 0

(* Each job that was accepted is in one place.                             *)
Accounts(Q, U, C, H, A) ==
  /\ A = Q \cup U \cup C \cup H
  /\ Q \cap (U \cup C \cup H) = {}
  /\ U \cap (C \cup H) = {}
  /\ C \cap H = {}

Ledger ==
  /\ NoDuplicates(queue)
  /\ Accounts(ToSet(queue), Unreturned, cleared, InHistory, accepted)

(* All that runs was accepted, and if the worker is being stopped, found.  *)
StopsReach ==
  /\ Running \subseteq accepted
  /\ epoch \in stopping \cup cancelled => ToSet(queue) \cup Running \subseteq doomed
  /\ CancelledOnlyByStop

ScanInv == ScanTypeOK /\ StackInv /\ Ledger /\ StopsReach

-----------------------------------------------------------------------------
(* Stacks.                                                                 *)

LEMMA StackShape ==
  ASSUME NEW s \in Seq(Frame)
  PROVE  /\ Len(s) \in Nat /\ DOMAIN s = 1 .. Len(s)
         /\ \A i \in 1 .. Len(s) : /\ s[i] \in Frame /\ s[i].job \in Jobs
                                   /\ s[i].next \in Jobs \cup {NoJob}
         /\ s # <<>> => Len(s) \in 1 .. Len(s)
         /\ s = <<>> => Len(s) = 0
<1>1. Len(s) \in Nat /\ DOMAIN s = 1 .. Len(s)
  BY LenProperties
<1>2. \A i \in 1 .. Len(s) : s[i] \in Frame
  BY ElementOfSeq
<1>3. s # <<>> => Len(s) \in 1 .. Len(s)
  BY <1>1, EmptySeq
<1>4. s = <<>> => Len(s) = 0
  BY EmptySeq
<1> QED  BY <1>1, <1>2, <1>3, <1>4 DEF Frame

(* What a stack answers for, call by call.                                 *)
LEMMA UnreturnedByCall ==
  ASSUME NEW s \in Seq(Frame)
  PROVE  UnreturnedOf(s) = OwnOf(s, Len(s))
<1>1. /\ DOMAIN s = 1 .. Len(s)
      /\ \A i \in 1 .. Len(s) : s[i].job \in Jobs /\ s[i].next \in Jobs \cup {NoJob}
  BY StackShape
<1>2. ASSUME NEW j
      PROVE  j \in UnreturnedOf(s) <=> \E i \in 1 .. Len(s) : j \in Own(s[i])
  BY <1>1, JobsAssumption DEF UnreturnedOf, Own
<1> QED  BY <1>2 DEF OwnOf

(* The active call's share, and that of those below it.                    *)
LEMMA ActiveAndBelow ==
  ASSUME NEW s, NEW n \in Nat \ {0}
  PROVE  OwnOf(s, n) = OwnOf(s, n - 1) \cup Own(s[n])
<1>1. 1 .. n = (1 .. n - 1) \cup {n}
  OBVIOUS
<1> QED  BY <1>1 DEF OwnOf

(* What calls have in common, they answer for alike.                       *)
LEMMA SameCalls ==
  ASSUME NEW s, NEW t, NEW n \in Nat, \A i \in 1 .. n : s[i] = t[i]
  PROVE  OwnOf(s, n) = OwnOf(t, n)
BY DEF OwnOf

(* A job on a stack.                                                       *)
LEMMA RunningByCall ==
  ASSUME NEW s \in Seq(Frame), NEW j
  PROVE  j \in RunningOf(s) <=>
           j # NoJob /\ \E i \in 1 .. Len(s) : j = s[i].job \/ j = s[i].next
<1>1. /\ DOMAIN s = 1 .. Len(s)
      /\ \A i \in 1 .. Len(s) : s[i].job \in Jobs
  BY StackShape
<1> QED  BY <1>1, JobsAssumption DEF RunningOf

(* The calls below the active one have other jobs than it.                 *)
LEMMA ActiveIsNotBelow ==
  ASSUME NEW s \in Seq(Frame), Nested(s), s # <<>>
  PROVE  s[Len(s)].job \notin OwnOf(s, Len(s) - 1)
<1>1. /\ Len(s) \in Nat /\ Len(s) \in 1 .. Len(s)
      /\ \A i \in 1 .. Len(s) : s[i].job \in Jobs
  BY StackShape
<1>2. SUFFICES ASSUME NEW i \in 1 .. Len(s) - 1, s[Len(s)].job \in Own(s[i])
               PROVE  FALSE
  BY DEF OwnOf
<1>3. i \in 1 .. Len(s) /\ i < Len(s)
  BY <1>1
<1>4. s[i].at = "nested" /\ s[i].next = NoJob
  BY <1>3 DEF Nested, PopsToYield
<1>5. Prio[s[Len(s)].job] < Prio[s[i].job]
  BY <1>1, <1>3 DEF Nested
<1>6. s[Len(s)].job = s[i].job
  BY <1>1, <1>2, <1>4, JobsAssumption DEF Own
<1>7. Prio[s[i].job] \in Int
  BY <1>1, <1>3, JobsAssumption
<1> QED  BY <1>5, <1>6, <1>7

(* The active call's record is replaced, by one of the same job.           *)
LEMMA TopReplaced ==
  ASSUME NEW s \in Seq(Frame), Nested(s), s # <<>>, NEW f \in Frame,
         f.job = s[Len(s)].job, PopsToYield(f),
         NEW t, t = [s EXCEPT ![Len(s)] = f]
  PROVE  /\ t \in Seq(Frame) /\ Nested(t) /\ t # <<>> /\ Len(t) = Len(s) /\ t[Len(t)] = f
         /\ UnreturnedOf(t) = OwnOf(s, Len(s) - 1) \cup Own(f)
         /\ UnreturnedOf(s) = OwnOf(s, Len(s) - 1) \cup Own(s[Len(s)])
         /\ RunningOf(t) \subseteq RunningOf(s) \cup ({f.next} \ {NoJob})
<1> DEFINE n == Len(s)
<1>1. /\ n \in Nat /\ n \in 1 .. n
      /\ \A i \in 1 .. n : s[i] \in Frame
  BY StackShape
<1>2. /\ t \in Seq(Frame) /\ Len(t) = n /\ t[n] = f
      /\ \A i \in 1 .. n : i # n => t[i] = s[i]
  BY <1>1, ExceptSeq
<1>3. t # <<>>
  BY <1>1, <1>2, EmptySeq
<1>4. \A i \in 1 .. n : t[i].job = s[i].job
  BY <1>2
<1>5. Nested(t)
  <2>1. \A i \in 1 .. n : PopsToYield(t[i])
    BY <1>2 DEF Nested
  <2>2. \A i \in 1 .. n : i < n => t[i].at = "nested"
    <3>1. \A i \in 1 .. n : i < n => s[i].at = "nested"
      BY DEF Nested
    <3>2. \A i \in 1 .. n : i < n => i # n
      BY <1>1
    <3> QED  BY <1>2, <3>1, <3>2
  <2>3. \A i, k \in 1 .. n : k < i => Prio[s[i].job] < Prio[s[k].job]
    BY DEF Nested
  <2>4. \A i, k \in 1 .. n : k < i => Prio[t[i].job] < Prio[t[k].job]
    BY <1>4, <2>3
  <2> QED  BY <1>2, <2>1, <2>2, <2>4 DEF Nested
<1>6. OwnOf(t, n - 1) = OwnOf(s, n - 1)
  <2>1. n - 1 \in Nat /\ \A i \in 1 .. n - 1 : i \in 1 .. n /\ i # n
    BY <1>1
  <2>2. \A i \in 1 .. n - 1 : t[i] = s[i]
    BY <1>2, <2>1
  <2> QED  BY <2>1, <2>2, SameCalls
<1>7. /\ UnreturnedOf(t) = OwnOf(s, n - 1) \cup Own(f)
      /\ UnreturnedOf(s) = OwnOf(s, n - 1) \cup Own(s[n])
  <2>1. n \in Nat \ {0}
    BY <1>1
  <2>2. OwnOf(t, n) = OwnOf(t, n - 1) \cup Own(t[n])
    BY <2>1, ActiveAndBelow
  <2>3. OwnOf(s, n) = OwnOf(s, n - 1) \cup Own(s[n])
    BY <2>1, ActiveAndBelow
  <2> QED  BY <1>2, <1>6, <2>2, <2>3, UnreturnedByCall
<1>8. RunningOf(t) \subseteq RunningOf(s) \cup ({f.next} \ {NoJob})
  <2>1. SUFFICES ASSUME NEW j \in RunningOf(t), j # f.next  PROVE j \in RunningOf(s)
    BY <1>2, RunningByCall
  <2>2. j # NoJob /\ \E i \in 1 .. n : j = t[i].job \/ j = t[i].next
    <3>1. t \in Seq(Frame) /\ j \in RunningOf(t)
      BY <1>2, <2>1
    <3>2. \A x : x \in RunningOf(t) <=>
                   x # NoJob /\ \E i \in 1 .. Len(t) : x = t[i].job \/ x = t[i].next
      BY <3>1, RunningByCall
    <3>3. j # NoJob /\ \E i \in 1 .. Len(t) : j = t[i].job \/ j = t[i].next
      BY <3>1, <3>2
    <3>4. Len(t) = n
      BY <1>2
    <3> QED  BY <3>3, <3>4
  <2>3. PICK i \in 1 .. n : j = t[i].job \/ j = t[i].next
    BY <2>2
  <2>4. j = s[i].job \/ j = s[i].next
    BY <1>2, <1>4, <2>1, <2>3
  <2> QED  BY <2>2, <2>4, RunningByCall
<1> QED  BY <1>2, <1>3, <1>5, <1>7, <1>8

(* A call is put on top.                                                   *)
LEMMA CallPushed ==
  ASSUME NEW s \in Seq(Frame), Nested(s), NEW f \in Frame, PopsToYield(f),
         s # <<>> => s[Len(s)].at = "nested" /\ Prio[f.job] < Prio[s[Len(s)].job],
         NEW t, t = Append(s, f)
  PROVE  /\ t \in Seq(Frame) /\ Nested(t) /\ t # <<>>
         /\ UnreturnedOf(t) = UnreturnedOf(s) \cup Own(f)
         /\ RunningOf(t) \subseteq RunningOf(s) \cup {f.job} \cup ({f.next} \ {NoJob})
<1> DEFINE n == Len(s)
<1>1. /\ n \in Nat /\ n + 1 \in 1 .. n + 1
      /\ \A i \in 1 .. n : s[i] \in Frame /\ s[i].job \in Jobs
      /\ s # <<>> => n \in 1 .. n
      /\ s = <<>> => n = 0
  BY StackShape
<1>2. /\ t \in Seq(Frame) /\ t # <<>> /\ Len(t) = n + 1 /\ t[n + 1] = f
      /\ \A i \in 1 .. n : t[i] = s[i]
  BY AppendProperties
<1>3. f.job \in Jobs /\ Prio \in [Jobs -> Int]
  BY JobsAssumption DEF Frame
<1>4. \A k \in 1 .. n : Prio[f.job] < Prio[s[k].job]
  <2>1. SUFFICES ASSUME NEW k \in 1 .. n  PROVE Prio[f.job] < Prio[s[k].job]
    OBVIOUS
  <2>2. n \in 1 .. n /\ Prio[f.job] < Prio[s[n].job]
    BY <1>1
  <2>3. k = n \/ Prio[s[n].job] < Prio[s[k].job]
    BY <1>1, <2>2 DEF Nested
  <2>4. /\ Prio[f.job] \in Int /\ Prio[s[n].job] \in Int /\ Prio[s[k].job] \in Int
    BY <1>1, <1>3, <2>2
  <2> QED  BY <2>2, <2>3, <2>4
<1>5. Nested(t)
  <2>1. SUFFICES ASSUME NEW i \in 1 .. n + 1
                 PROVE  /\ PopsToYield(t[i])
                        /\ i < n + 1 => t[i].at = "nested"
                        /\ \A k \in 1 .. n + 1 : k < i => Prio[t[i].job] < Prio[t[k].job]
    BY <1>2 DEF Nested
  <2>2. CASE i = n + 1
    BY <1>1, <1>2, <1>4, <2>2
  <2>3. CASE i # n + 1
    <3>1. i \in 1 .. n /\ t[i] = s[i]
      BY <1>1, <1>2, <2>3
    <3>2. PopsToYield(s[i]) /\ (i < n => s[i].at = "nested")
      BY <3>1 DEF Nested
    <3>3. i = n => s[i].at = "nested"
      BY <1>1, <3>1
    <3>4. \A k \in 1 .. n + 1 : k < i => k \in 1 .. n /\ t[k] = s[k]
      BY <1>1, <1>2, <3>1
    <3>5. \A k \in 1 .. n : k < i => Prio[s[i].job] < Prio[s[k].job]
      BY <3>1 DEF Nested
    <3> QED  BY <1>1, <3>1, <3>2, <3>3, <3>4, <3>5
  <2> QED  BY <2>2, <2>3
<1>6. OwnOf(t, n) = OwnOf(s, n)
  BY <1>1, <1>2, SameCalls
<1>7. OwnOf(t, n + 1) = OwnOf(t, n) \cup Own(f)
  <2>1. n + 1 \in Nat \ {0} /\ (n + 1) - 1 = n
    BY <1>1
  <2>2. \A m \in Nat \ {0} : OwnOf(t, m) = OwnOf(t, m - 1) \cup Own(t[m])
    BY ActiveAndBelow
  <2>3. OwnOf(t, n + 1) = OwnOf(t, (n + 1) - 1) \cup Own(t[n + 1])
    BY <2>1, <2>2
  <2> QED  BY <1>2, <2>1, <2>3
<1>8. UnreturnedOf(t) = UnreturnedOf(s) \cup Own(f)
  BY <1>2, <1>6, <1>7, UnreturnedByCall
<1>9. RunningOf(t) \subseteq RunningOf(s) \cup {f.job} \cup ({f.next} \ {NoJob})
  <2>1. SUFFICES ASSUME NEW j \in RunningOf(t)
                 PROVE  j \in RunningOf(s) \cup {f.job} \cup ({f.next} \ {NoJob})
    OBVIOUS
  <2>2. j # NoJob /\ \E i \in 1 .. n + 1 : j = t[i].job \/ j = t[i].next
    <3>1. t \in Seq(Frame) /\ j \in RunningOf(t)
      BY <1>2, <2>1
    <3>2. \A x : x \in RunningOf(t) <=>
                   x # NoJob /\ \E i \in 1 .. Len(t) : x = t[i].job \/ x = t[i].next
      BY <3>1, RunningByCall
    <3> QED  BY <1>2, <3>1, <3>2
  <2>3. PICK i \in 1 .. n + 1 : j = t[i].job \/ j = t[i].next
    BY <2>2
  <2>4. i = n + 1 \/ (i \in 1 .. n /\ t[i] = s[i])
    BY <1>1, <1>2
  <2> QED  BY <1>2, <2>2, <2>3, <2>4, RunningByCall
<1> QED  BY <1>2, <1>5, <1>8, <1>9

(* The active call, which has been saved, returns.                         *)
LEMMA CallReturned ==
  ASSUME NEW s \in Seq(Frame), Nested(s), s # <<>>, s[Len(s)].at = "saved",
         NEW t, t = Front(s)
  PROVE  /\ t \in Seq(Frame) /\ Nested(t)
         /\ UnreturnedOf(t) = UnreturnedOf(s)
         /\ RunningOf(t) \subseteq RunningOf(s)
<1> DEFINE n == Len(s)
<1>1. /\ n \in Nat /\ n \in 1 .. n /\ n - 1 \in 0 .. n /\ n \in Nat \ {0} /\ n - 1 \in Nat
      /\ \A i \in 1 .. n : s[i] \in Frame /\ s[i].next \in Jobs \cup {NoJob}
  BY StackShape
<1>2. t = SubSeq(s, 1, n - 1)
  BY DEF Front
<1>3. /\ t \in Seq(Frame) /\ Len(t) = n - 1
      /\ \A i \in 1 .. n - 1 : t[i] = s[i]
  <2> DEFINE m == n - 1
  <2>1. m \in Nat /\ m \in Int /\ \A i \in 1 .. m : s[i] \in Frame
    BY <1>1
  <2> HIDE DEF m
  <2>2. /\ SubSeq(s, 1, m) \in Seq(Frame)
        /\ Len(SubSeq(s, 1, m)) = IF 1 <= m THEN m - 1 + 1 ELSE 0
        /\ \A i \in 1 .. m - 1 + 1 : SubSeq(s, 1, m)[i] = s[1 + i - 1]
    BY <2>1, SubSeqProperties
  <2>3. Len(SubSeq(s, 1, m)) = m
    BY <2>1, <2>2
  <2>4. \A i \in 1 .. m : i \in 1 .. m - 1 + 1 /\ 1 + i - 1 = i
    BY <2>1
  <2>5. \A i \in 1 .. m : SubSeq(s, 1, m)[i] = s[i]
    BY <2>2, <2>4
  <2> QED  BY <1>2, <2>2, <2>3, <2>5 DEF m
<1>4. Nested(t)
  <2>1. \A i \in 1 .. n - 1 : i \in 1 .. n /\ i < n
    BY <1>1
  <2> QED  BY <1>3, <2>1 DEF Nested
<1>5. OwnOf(t, n - 1) = OwnOf(s, n - 1)
  BY <1>1, <1>3, SameCalls
<1>6. Own(s[n]) = {}
  <2>1. s[n].next = NoJob
    BY <1>1 DEF Nested, PopsToYield
  <2> QED  BY <2>1, JobsAssumption DEF Own
<1>7. UnreturnedOf(t) = UnreturnedOf(s)
  <2>1. OwnOf(s, n) = OwnOf(s, n - 1) \cup Own(s[n])
    BY <1>1, ActiveAndBelow
  <2> QED  BY <1>3, <1>5, <1>6, <2>1, UnreturnedByCall
<1>8. RunningOf(t) \subseteq RunningOf(s)
  BY <1>1, <1>3, RunningByCall
<1> QED  BY <1>3, <1>4, <1>7, <1>8

-----------------------------------------------------------------------------
(* The steps.                                                              *)

LEMMA Stacks ==
  /\ Unreturned = UnreturnedOf(stack) /\ Unreturned' = UnreturnedOf(stack')
  /\ Running = RunningOf(stack) /\ Running' = RunningOf(stack')
BY DEF Unreturned, UnreturnedOf, Running, RunningOf

(* The active call.                                                        *)
LEMMA TopCall ==
  ASSUME ScanTypeOK, StackInv, stack # <<>>
  PROVE  /\ stack \in Seq(Frame) /\ Nested(stack) /\ worker = TRUE
         /\ Len(stack) \in 1 .. Len(stack) /\ Top = stack[Len(stack)]
         /\ Top \in Frame /\ Top.job \in Jobs /\ Top.rec \in Record
         /\ PopsToYield(Top) /\ Top.job \in Running
<1>1. stack \in Seq(Frame) /\ Nested(stack) /\ worker = TRUE
  BY DEF ScanTypeOK, StackInv
<1>2. /\ Len(stack) \in 1 .. Len(stack) /\ DOMAIN stack = 1 .. Len(stack)
      /\ stack[Len(stack)] \in Frame
  BY <1>1, StackShape
<1>3. PopsToYield(stack[Len(stack)])
  BY <1>1, <1>2 DEF Nested
<1> QED  BY <1>1, <1>2, <1>3 DEF Top, Frame, Running

(* A call that goes on: it has popped nothing, and pops nothing.           *)
LEMMA TopGoesOn ==
  ASSUME ScanInv, stack # <<>>, Top.at \notin {"yield", "saved"},
         NEW f \in Frame, SetTop(f), f.job = Top.job, f.next = NoJob,
         f.at \notin {"yield", "saved"},
         scanStatus' \in [running : BOOLEAN, rec : Record],
         UNCHANGED <<queue, worker, haltVars, history, callVars>>
  PROVE  ScanInv'
<1> USE DEF haltVars, callVars
<1>1. /\ stack \in Seq(Frame) /\ Nested(stack) /\ worker = TRUE
      /\ Top = stack[Len(stack)] /\ PopsToYield(Top)
  BY TopCall DEF ScanInv
<1>2. PopsToYield(f) /\ stack' = [stack EXCEPT ![Len(stack)] = f]
  BY DEF PopsToYield, SetTop
<1>3. /\ stack' \in Seq(Frame) /\ Nested(stack') /\ stack' # <<>>
      /\ UnreturnedOf(stack') = OwnOf(stack, Len(stack) - 1) \cup Own(f)
      /\ UnreturnedOf(stack) = OwnOf(stack, Len(stack) - 1) \cup Own(Top)
      /\ RunningOf(stack') \subseteq RunningOf(stack) \cup ({f.next} \ {NoJob})
  <2>1. f.job = stack[Len(stack)].job
    BY <1>1
  <2> QED  BY <1>1, <1>2, <2>1, TopReplaced
<1>4. Own(f) = Own(Top)
  BY <1>1 DEF Own, PopsToYield
<1>5. Unreturned' = Unreturned /\ Running' \subseteq Running
  BY <1>3, <1>4, Stacks
<1>6. ScanTypeOK'
  BY <1>3 DEF ScanInv, ScanTypeOK
<1>7. StackInv'
  BY <1>1, <1>3 DEF ScanInv, StackInv
<1>8. Ledger'
  BY <1>5 DEF ScanInv, Ledger, Accounts, InHistory
<1>9. StopsReach'
  BY <1>5 DEF ScanInv, StopsReach, CancelledOnlyByStop, InHistory
<1> QED  BY <1>6, <1>7, <1>8, <1>9 DEF ScanInv

(* Steps of that kind.                                                     *)
LEMMA GoingOn ==
  ASSUME ScanInv,
         \/ BeginRun \/ BeginFails \/ Resume \/ CheckpointPass \/ CheckpointCancelled
         \/ NextSite \/ ListItem \/ SiteFails \/ Listed \/ SaveItem \/ SiteDone
  PROVE  ScanInv'
<1>1. stack # <<>> /\ Top.at \notin {"yield", "saved"}
  BY DEF BeginRun, BeginFails, Resume, CheckpointPass, CheckpointCancelled, NextSite,
         ListItem, SiteFails, Listed, SaveItem, SiteDone, At
<1>2. /\ Top \in Frame /\ Top.rec \in Record /\ Top.job \in Jobs /\ Top.next = NoJob
      /\ scanStatus \in [running : BOOLEAN, rec : Record]
  BY <1>1, TopCall DEF ScanInv, ScanTypeOK, PopsToYield
<1>0. Top.site + 1 \in Nat /\ Top.item + 1 \in Nat /\ (Top.item > 0 => Top.item - 1 \in Nat)
  <2>1. Top.site \in Nat /\ Top.item \in Nat
    BY <1>2 DEF Frame
  <2> QED  BY <2>1
<1>3. scanStatus.rec \in Record /\ Prio \in [Jobs -> Int] /\ SiteTotal \in [Jobs -> Nat]
  BY <1>2, JobsAssumption
<1> DEFINE GoesTo(f) == /\ f \in Frame /\ f.job = Top.job /\ f.next = NoJob
                        /\ f.at \notin {"yield", "saved"} /\ SetTop(f)
<1>4. SUFFICES /\ \E f : GoesTo(f)
               /\ scanStatus' \in [running : BOOLEAN, rec : Record]
               /\ UNCHANGED <<queue, worker, haltVars, history, callVars>>
  BY <1>1, TopGoesOn
<1>5. CASE BeginRun
  <2> DEFINE rec == [scanStatus.rec EXCEPT !.sites = IF Top.job \in WholeCatalog
                                                     THEN SiteTotal[Top.job] ELSE @]
             f == [Top EXCEPT !.rec = rec, !.at = IF SiteTotal[Top.job] = 0 THEN "end" ELSE "check"]
  <2>1. rec \in Record
    BY <1>2, <1>3 DEF Record
  <2>2. SetTop(f) /\ UNCHANGED <<queue, worker, haltVars, scanStatus, history, callVars>>
    BY <1>5 DEF BeginRun
  <2> HIDE DEF rec
  <2>3. f \in Frame /\ f.job = Top.job /\ f.next = NoJob /\ f.at \notin {"yield", "saved"}
    BY <1>2, <2>1 DEF Frame
  <2> QED  BY <1>2, <2>2, <2>3
<1>6. CASE BeginFails
  <2> DEFINE rec == [scanStatus.rec EXCEPT !.failed = TRUE]
             f == [Top EXCEPT !.rec = rec, !.broken = TRUE, !.at = "end"]
  <2>1. rec \in Record
    BY <1>3 DEF Record
  <2>2. SetTop(f) /\ UNCHANGED <<queue, worker, haltVars, scanStatus, history, callVars>>
    BY <1>6 DEF BeginFails
  <2> HIDE DEF rec
  <2>3. f \in Frame /\ f.job = Top.job /\ f.next = NoJob /\ f.at \notin {"yield", "saved"}
    BY <1>2, <2>1 DEF Frame
  <2> QED  BY <1>2, <2>2, <2>3
<1>7. CASE Resume
  <2> DEFINE rec == [Top.rec EXCEPT !.paused = FALSE]
             f == [Top EXCEPT !.at = "check", !.rec = rec]
  <2>1. rec \in Record
    BY <1>2 DEF Record
  <2>2. /\ SetTop(f) /\ scanStatus' = [running |-> TRUE, rec |-> rec]
        /\ UNCHANGED <<queue, worker, haltVars, history, callVars>>
    BY <1>7 DEF Resume, PublishStatus
  <2> HIDE DEF rec
  <2>3. f \in Frame /\ f.job = Top.job /\ f.next = NoJob /\ f.at \notin {"yield", "saved"}
    BY <1>2, <2>1 DEF Frame
  <2> QED  BY <2>1, <2>2, <2>3
<1>8. CASE CheckpointPass \/ CheckpointCancelled
  <2> DEFINE to == IF Top.at = "check" THEN "go" ELSE "end"
             f == [Top EXCEPT !.at = to]
  <2>1. SetTop(f) /\ UNCHANGED <<queue, worker, haltVars, scanStatus, history, callVars>>
    BY <1>8 DEF CheckpointPass, CheckpointCancelled, At
  <2>2. f \in Frame /\ f.job = Top.job /\ f.next = NoJob /\ f.at \notin {"yield", "saved"}
    BY <1>2 DEF Frame
  <2> QED  BY <1>2, <2>1, <2>2
<1>9. CASE NextSite
  <2> DEFINE rec == [Top.rec EXCEPT !.failed = FALSE]
             f == [Top EXCEPT !.at = "check", !.phase = "list", !.rec = rec,
                              !.site = @ + 1, !.item = 0]
  <2>1. rec \in Record
    BY <1>2 DEF Record
  <2>2. /\ SetTop(f) /\ scanStatus' = [running |-> TRUE, rec |-> rec]
        /\ UNCHANGED <<queue, worker, haltVars, history, callVars>>
    BY <1>9 DEF NextSite, PublishStatus
  <2> HIDE DEF rec
  <2>3. f \in Frame /\ f.job = Top.job /\ f.next = NoJob /\ f.at \notin {"yield", "saved"}
    <3> DEFINE up == Top.site + 1
    <3>1. up \in Nat
      BY <1>0
    <3> HIDE DEF up
    <3>2. [Top EXCEPT !.at = "check", !.phase = "list", !.rec = rec, !.site = up, !.item = 0] \in Frame
      BY <1>2, <2>1, <3>1 DEF Frame
    <3> QED  BY <1>2, <3>2 DEF Frame, up
  <2> QED  BY <2>1, <2>2, <2>3
<1>10. CASE ListItem
  <2> DEFINE f == [Top EXCEPT !.at = "check", !.item = @ + 1]
  <2>1. /\ SetTop(f) /\ scanStatus' = [running |-> TRUE, rec |-> Top.rec]
        /\ UNCHANGED <<queue, worker, haltVars, history, callVars>>
    BY <1>10 DEF ListItem, PublishStatus
  <2>2. f \in Frame /\ f.job = Top.job /\ f.next = NoJob /\ f.at \notin {"yield", "saved"}
    <3> DEFINE up == Top.item + 1
    <3>1. up \in Nat
      BY <1>0
    <3> HIDE DEF up
    <3>2. [Top EXCEPT !.at = "check", !.item = up] \in Frame
      BY <1>2, <3>1 DEF Frame
    <3> QED  BY <1>2, <3>2 DEF Frame, up
  <2> QED  BY <1>2, <2>1, <2>2
<1>11. CASE SiteFails
  <2> DEFINE g == [Top EXCEPT !.rec.failed = TRUE, !.broken = TRUE]
             f == AfterSite(g)
  <2>1. SetTop(f) /\ UNCHANGED <<queue, worker, haltVars, scanStatus, history, callVars>>
    BY <1>11 DEF SiteFails
  <2>2. g \in Frame /\ g.job = Top.job /\ g.next = NoJob
    BY <1>2 DEF Frame, Record
  <2> HIDE DEF g
  <2>3. f \in Frame /\ f.job = Top.job /\ f.next = NoJob /\ f.at \notin {"yield", "saved"}
    BY <2>2 DEF Frame, AfterSite
  <2> HIDE DEF f
  <2> QED  BY <1>2, <2>1, <2>3
<1>12. CASE Listed
  <2>1. PICK failures \in BOOLEAN :
          SetTop([Top EXCEPT !.at = "check", !.phase = "save",
                             !.rec.failed = @ \/ failures, !.broken = @ \/ failures])
    BY <1>12 DEF Listed
  <2> DEFINE f == [Top EXCEPT !.at = "check", !.phase = "save",
                              !.rec.failed = @ \/ failures, !.broken = @ \/ failures]
  <2>2. UNCHANGED <<queue, worker, haltVars, scanStatus, history, callVars>>
    BY <1>12 DEF Listed
  <2>3. f \in Frame /\ f.job = Top.job /\ f.next = NoJob /\ f.at \notin {"yield", "saved"}
    BY <1>2 DEF Frame, Record
  <2> QED  BY <1>2, <2>1, <2>2, <2>3
<1>13. CASE SaveItem
  <2>1. PICK failure \in BOOLEAN :
          SetTop([Top EXCEPT !.at = "check", !.item = @ - 1,
                             !.rec.failed = @ \/ failure, !.broken = @ \/ failure])
    BY <1>13 DEF SaveItem
  <2> DEFINE f == [Top EXCEPT !.at = "check", !.item = @ - 1,
                              !.rec.failed = @ \/ failure, !.broken = @ \/ failure]
  <2>2. /\ Top.item > 0
        /\ UNCHANGED <<queue, worker, haltVars, scanStatus, history, callVars>>
    BY <1>13 DEF SaveItem
  <2>3. f \in Frame /\ f.job = Top.job /\ f.next = NoJob /\ f.at \notin {"yield", "saved"}
    <3> DEFINE down == Top.item - 1
    <3>1. down \in Nat
      BY <1>0, <2>2
    <3> HIDE DEF down
    <3>2. [Top EXCEPT !.at = "check", !.item = down, !.rec.failed = @ \/ failure,
                      !.broken = @ \/ failure] \in Frame
      BY <1>2, <3>1 DEF Frame, Record
    <3> QED  BY <1>2, <3>2 DEF Frame, down
  <2> QED  BY <1>2, <2>1, <2>2, <2>3
<1>14. CASE SiteDone
  <2> DEFINE f == AfterSite(Top)
  <2>1. SetTop(f) /\ UNCHANGED <<queue, worker, haltVars, scanStatus, history, callVars>>
    BY <1>14 DEF SiteDone
  <2>2. f \in Frame /\ f.job = Top.job /\ f.next = NoJob /\ f.at \notin {"yield", "saved"}
    BY <1>2 DEF Frame, AfterSite
  <2> HIDE DEF f
  <2> QED  BY <1>2, <2>1, <2>2
<1> QED  BY <1>5, <1>6, <1>7, <1>8, <1>9, <1>10, <1>11, <1>12, <1>13, <1>14

(* checkpoint pops the head of the queue, which outranks the active job.   *)
LEMMA Popping ==
  ASSUME ScanInv, CheckpointPop
  PROVE  ScanInv'
<1> USE DEF haltVars, callVars
<1> DEFINE h == Head(queue)
           f == [Top EXCEPT !.at = "yield", !.next = h]
<1>1. stack # <<>> /\ Top.at = "check" /\ queue # <<>> /\ Prio[h] < Prio[Top.job]
  BY DEF CheckpointPop, At, Outranks
<1>2. /\ SetTop(f) /\ queue' = Tail(queue)
      /\ UNCHANGED <<worker, haltVars, scanStatus, history, callVars>>
  BY DEF CheckpointPop
<1>3. /\ h \in ToSet(queue) /\ h \in Jobs /\ Tail(queue) \in Seq(Jobs)
      /\ NoDuplicates(Tail(queue)) /\ ToSet(Tail(queue)) = ToSet(queue) \ {h}
  BY <1>1, TailDropsHead DEF ScanInv, ScanTypeOK, Ledger
<1> HIDE DEF h
<1>4. /\ stack \in Seq(Frame) /\ Nested(stack) /\ worker = TRUE
      /\ Top = stack[Len(stack)] /\ PopsToYield(Top) /\ Top \in Frame /\ Top.job \in Jobs
  BY <1>1, TopCall DEF ScanInv
<1>5. f \in Frame /\ f.job = Top.job /\ f.next = h /\ f.at = "yield"
  BY <1>3, <1>4 DEF Frame
<1> HIDE DEF f
<1>6. PopsToYield(f) /\ stack' = [stack EXCEPT ![Len(stack)] = f]
  BY <1>1, <1>2, <1>3, <1>5 DEF PopsToYield, SetTop
<1>7. /\ stack' \in Seq(Frame) /\ Nested(stack') /\ stack' # <<>>
      /\ UnreturnedOf(stack') = OwnOf(stack, Len(stack) - 1) \cup Own(f)
      /\ UnreturnedOf(stack) = OwnOf(stack, Len(stack) - 1) \cup Own(Top)
      /\ RunningOf(stack') \subseteq RunningOf(stack) \cup ({f.next} \ {NoJob})
  <2>1. /\ stack \in Seq(Frame) /\ Nested(stack) /\ stack # <<>> /\ f \in Frame
        /\ f.job = stack[Len(stack)].job
    BY <1>1, <1>4, <1>5
  <2> QED  BY <1>4, <1>6, <2>1, TopReplaced
<1>8. Own(f) = Own(Top) \cup {h}
  BY <1>1, <1>3, <1>4, <1>5, JobsAssumption DEF Own, PopsToYield
<1>9. Unreturned' = Unreturned \cup {h} /\ Running' \subseteq Running \cup {h}
  BY <1>5, <1>7, <1>8, Stacks
<1>10. ScanTypeOK'
  BY <1>2, <1>3, <1>7 DEF ScanInv, ScanTypeOK
<1>11. StackInv'
  BY <1>2, <1>4, <1>7 DEF ScanInv, StackInv
<1>12. Ledger'
  <2>1. InHistory' = InHistory
    BY <1>2 DEF InHistory
  <2>2. Accounts(ToSet(queue), Unreturned, cleared, InHistory, accepted)
    BY DEF ScanInv, Ledger
  <2>3. Accounts(ToSet(queue) \ {h}, Unreturned \cup {h}, cleared, InHistory, accepted)
    BY <1>3, <2>2 DEF Accounts
  <2> QED  BY <1>2, <1>3, <1>9, <2>1, <2>3 DEF Ledger
<1>13. StopsReach'
  <2>1. h \in accepted
    BY <1>3 DEF ScanInv, Ledger, Accounts
  <2>2. ToSet(queue') \cup Running' \subseteq ToSet(queue) \cup Running
    BY <1>2, <1>3, <1>9
  <2>3. CancelledOnlyByStop'
    BY <1>2 DEF ScanInv, StopsReach, CancelledOnlyByStop, InHistory
  <2> QED  BY <1>2, <1>9, <2>1, <2>2, <2>3 DEF ScanInv, StopsReach
<1> QED  BY <1>10, <1>11, <1>12, <1>13 DEF ScanInv

(* What it has popped is run on top of it.                                 *)
LEMMA Yielding ==
  ASSUME ScanInv, Yield
  PROVE  ScanInv'
<1> USE DEF haltVars, callVars
<1> DEFINE rec == [Top.rec EXCEPT !.paused = TRUE]
           f == [Top EXCEPT !.at = "nested", !.rec = rec, !.next = NoJob]
           low == [stack EXCEPT ![Len(stack)] = f]
           g == NewFrame(Top.next)
<1>1. stack # <<>> /\ Top.at = "yield"
  BY DEF Yield, At
<1>2. /\ stack' = Append(low, g) /\ scanStatus' = [running |-> TRUE, rec |-> rec]
      /\ UNCHANGED <<queue, worker, haltVars, history, callVars>>
  BY DEF Yield, PublishStatus
<1>3. /\ stack \in Seq(Frame) /\ Nested(stack) /\ worker = TRUE
      /\ Top = stack[Len(stack)] /\ PopsToYield(Top) /\ Top \in Frame
      /\ Top.job \in Jobs /\ Top.rec \in Record /\ Top.next \in Jobs
      /\ Prio[Top.next] < Prio[Top.job]
  BY <1>1, TopCall DEF ScanInv, PopsToYield
<1>4. rec \in Record
  BY <1>3 DEF Record
<1> HIDE DEF rec
<1>5. f \in Frame /\ f.job = Top.job /\ f.next = NoJob /\ f.at = "nested"
  BY <1>3, <1>4 DEF Frame
<1>6. g \in Frame /\ g.job = Top.next /\ g.next = NoJob /\ g.at = "begin"
  BY <1>3 DEF NewFrame, Frame, Clean, Record
<1> HIDE DEF f, g
<1>7. PopsToYield(f) /\ PopsToYield(g)
  BY <1>5, <1>6 DEF PopsToYield
<1>8. /\ low \in Seq(Frame) /\ Nested(low) /\ low # <<>> /\ low[Len(low)] = f
      /\ UnreturnedOf(low) = OwnOf(stack, Len(stack) - 1) \cup Own(f)
      /\ UnreturnedOf(stack) = OwnOf(stack, Len(stack) - 1) \cup Own(Top)
      /\ RunningOf(low) \subseteq RunningOf(stack) \cup ({f.next} \ {NoJob})
  <2>1. stack \in Seq(Frame) /\ Nested(stack) /\ stack # <<>> /\ Top = stack[Len(stack)]
    BY <1>1, <1>3
  <2>2. f \in Frame /\ f.job = stack[Len(stack)].job /\ PopsToYield(f)
    BY <1>5, <1>7, <2>1
  <2>3. /\ low \in Seq(Frame) /\ Nested(low) /\ low # <<>> /\ Len(low) = Len(stack) /\ low[Len(low)] = f
        /\ UnreturnedOf(low) = OwnOf(stack, Len(stack) - 1) \cup Own(f)
        /\ UnreturnedOf(stack) = OwnOf(stack, Len(stack) - 1) \cup Own(stack[Len(stack)])
        /\ RunningOf(low) \subseteq RunningOf(stack) \cup ({f.next} \ {NoJob})
    BY <2>1, <2>2, TopReplaced
  <2> QED  BY <2>1, <2>3
<1> HIDE DEF low
<1>9. /\ stack' \in Seq(Frame) /\ Nested(stack') /\ stack' # <<>>
      /\ UnreturnedOf(stack') = UnreturnedOf(low) \cup Own(g)
      /\ RunningOf(stack') \subseteq RunningOf(low) \cup {g.job} \cup ({g.next} \ {NoJob})
  <2>1. low[Len(low)].at = "nested" /\ Prio[g.job] < Prio[low[Len(low)].job]
    BY <1>3, <1>5, <1>6, <1>8
  <2>2. low \in Seq(Frame) /\ Nested(low) /\ g \in Frame /\ PopsToYield(g) /\ stack' = Append(low, g)
    BY <1>2, <1>6, <1>7, <1>8
  <2> QED  BY <2>1, <2>2, CallPushed
<1>10. Own(f) \cup Own(g) = Own(Top)
  BY <1>1, <1>3, <1>5, <1>6, JobsAssumption DEF Own
<1>11. Unreturned' = Unreturned
  BY <1>8, <1>9, <1>10, Stacks
<1>12. Top.next \in Running
  <2>1. Len(stack) \in DOMAIN stack
    BY <1>1, <1>3, StackShape
  <2> QED  BY <1>3, <2>1, JobsAssumption DEF Running
<1>13. Running' \subseteq Running
  BY <1>5, <1>6, <1>8, <1>9, <1>12, Stacks
<1>14. ScanTypeOK'
  BY <1>2, <1>4, <1>9 DEF ScanInv, ScanTypeOK
<1>15. StackInv'
  BY <1>2, <1>3, <1>9 DEF ScanInv, StackInv
<1>16. Ledger'
  BY <1>2, <1>11 DEF ScanInv, Ledger, Accounts, InHistory
<1>17. StopsReach'
  BY <1>2, <1>13 DEF ScanInv, StopsReach, CancelledOnlyByStop, InHistory
<1> QED  BY <1>14, <1>15, <1>16, <1>17 DEF ScanInv

(* A run's outcome is recorded; it is "cancelled" only after a Stop.       *)
LEMMA Ending ==
  ASSUME ScanInv, EndRun
  PROVE  ScanInv'
<1> USE DEF haltVars, callVars
<1> DEFINE j == Top.job
           out == IF JobContextDone THEN "cancelled"
                  ELSE IF Top.rec.failed THEN "failed" ELSE "completed"
           f == [Top EXCEPT !.at = "saved"]
<1>1. stack # <<>> /\ Top.at = "end"
  BY DEF EndRun, At
<1>2. /\ history' = [history EXCEPT ![j] = [outcome |-> out, broken |-> Top.broken]]
      /\ SetTop(f)
      /\ UNCHANGED <<queue, worker, haltVars, scanStatus, callVars>>
  BY DEF EndRun
<1>3. /\ stack \in Seq(Frame) /\ Nested(stack) /\ worker = TRUE
      /\ Top = stack[Len(stack)] /\ PopsToYield(Top) /\ Top \in Frame
      /\ j \in Jobs /\ j \in Running /\ Top.broken \in BOOLEAN
  BY <1>1, TopCall DEF ScanInv, Frame
<1>4. out \in {"completed", "failed", "cancelled"} /\ (out = "cancelled" => epoch \in cancelled)
  BY DEF JobContextDone
<1>5. f \in Frame /\ f.job = stack[Len(stack)].job /\ f.next = NoJob /\ f.at = "saved"
  BY <1>1, <1>3 DEF Frame, PopsToYield
<1> HIDE DEF f, out
<1>6. PopsToYield(f) /\ stack' = [stack EXCEPT ![Len(stack)] = f]
  BY <1>2, <1>5 DEF PopsToYield, SetTop
<1>7. /\ stack' \in Seq(Frame) /\ Nested(stack') /\ stack' # <<>>
      /\ UnreturnedOf(stack') = OwnOf(stack, Len(stack) - 1) \cup Own(f)
      /\ UnreturnedOf(stack) = OwnOf(stack, Len(stack) - 1) \cup Own(Top)
      /\ RunningOf(stack') \subseteq RunningOf(stack) \cup ({f.next} \ {NoJob})
  BY <1>1, <1>3, <1>5, <1>6, TopReplaced
<1>8. Own(f) = {} /\ Own(Top) = {j}
  BY <1>1, <1>3, <1>5, JobsAssumption DEF Own, PopsToYield
<1>9. j \notin OwnOf(stack, Len(stack) - 1)
  BY <1>1, <1>3, ActiveIsNotBelow
<1>10. j \in Unreturned /\ Unreturned' = Unreturned \ {j} /\ Running' \subseteq Running
  BY <1>5, <1>7, <1>8, <1>9, Stacks
<1>11. history \in [Jobs -> [outcome : Outcomes, broken : BOOLEAN]]
  BY DEF ScanInv, ScanTypeOK
<1>12. /\ history' \in [Jobs -> [outcome : Outcomes, broken : BOOLEAN]]
       /\ history'[j].outcome = out
       /\ \A k \in Jobs : k # j => history'[k] = history[k]
  BY <1>2, <1>3, <1>4, <1>11 DEF Outcomes
<1>13. InHistory' = InHistory \cup {j}
  BY <1>3, <1>4, <1>12 DEF InHistory
<1>14. ScanTypeOK'
  BY <1>2, <1>7, <1>12 DEF ScanInv, ScanTypeOK
<1>15. StackInv'
  BY <1>2, <1>3, <1>7 DEF ScanInv, StackInv
<1>16. Ledger'
  <2>1. Accounts(ToSet(queue), Unreturned, cleared, InHistory, accepted)
    BY DEF ScanInv, Ledger
  <2>2. Accounts(ToSet(queue), Unreturned \ {j}, cleared, InHistory \cup {j}, accepted)
    BY <1>10, <2>1 DEF Accounts
  <2> QED  BY <1>2, <1>10, <1>13, <2>2 DEF ScanInv, Ledger
<1>17. StopsReach'
  <2>1. out = "cancelled" => j \in doomed
    BY <1>3, <1>4 DEF ScanInv, StopsReach
  <2>2. CancelledOnlyByStop'
    BY <1>2, <1>12, <1>13, <2>1 DEF ScanInv, StopsReach, CancelledOnlyByStop, InHistory
  <2> QED  BY <1>2, <1>10, <2>2 DEF ScanInv, StopsReach
<1> QED  BY <1>14, <1>15, <1>16, <1>17 DEF ScanInv

(* run returns to the call below, or to runQueue.                          *)
LEMMA Returning ==
  ASSUME ScanInv, Return
  PROVE  ScanInv'
<1> USE DEF haltVars, callVars
<1>1. stack # <<>> /\ Top.at = "saved"
  BY DEF Return, At
<1>2. /\ stack' = Front(stack) /\ scanStatus' = [running |-> queue # <<>>, rec |-> Top.rec]
      /\ UNCHANGED <<queue, worker, haltVars, history, callVars>>
  BY DEF Return
<1>3. /\ stack \in Seq(Frame) /\ Nested(stack) /\ worker = TRUE
      /\ Top = stack[Len(stack)] /\ Top.rec \in Record
  BY <1>1, TopCall DEF ScanInv
<1>4. /\ stack' \in Seq(Frame) /\ Nested(stack')
      /\ UnreturnedOf(stack') = UnreturnedOf(stack) /\ RunningOf(stack') \subseteq RunningOf(stack)
  BY <1>1, <1>2, <1>3, CallReturned
<1>5. Unreturned' = Unreturned /\ Running' \subseteq Running
  BY <1>4, Stacks
<1>6. ScanTypeOK'
  BY <1>2, <1>3, <1>4 DEF ScanInv, ScanTypeOK
<1>7. StackInv'
  BY <1>2, <1>3, <1>4 DEF ScanInv, StackInv
<1>8. Ledger'
  BY <1>2, <1>5 DEF ScanInv, Ledger, Accounts, InHistory
<1>9. StopsReach'
  BY <1>2, <1>5 DEF ScanInv, StopsReach, CancelledOnlyByStop, InHistory
<1> QED  BY <1>6, <1>7, <1>8, <1>9 DEF ScanInv

(* A call on the empty stack.                                              *)
LEMMA FirstCall ==
  ASSUME ScanInv, stack = <<>>, NEW j \in Jobs, stack' = <<NewFrame(j)>>
  PROVE  /\ stack' \in Seq(Frame) /\ Nested(stack')
         /\ Unreturned = {} /\ Unreturned' = {j} /\ Running' = {j}
<1> DEFINE f == NewFrame(j)
<1>1. f \in Frame /\ f.job = j /\ f.next = NoJob /\ f.at = "begin"
  BY DEF NewFrame, Frame, Clean, Record
<1> HIDE DEF f
<1>2. stack' = <<f>> /\ stack' \in Seq(Frame) /\ Len(stack') = 1 /\ stack'[1] = f
  BY <1>1 DEF f
<1>3. DOMAIN stack' = {1}
  BY <1>2
<1>4. Nested(stack')
  BY <1>1, <1>2 DEF Nested, PopsToYield
<1>5. Unreturned = {}
  <2>1. DOMAIN stack = {}
    OBVIOUS
  <2> QED  BY <2>1 DEF Unreturned
<1>6. Unreturned' = {j} /\ Running' = {j}
  BY <1>1, <1>2, <1>3 DEF Unreturned, Running
<1> QED  BY <1>2, <1>4, <1>5, <1>6

LEMMA Promoting ==
  ASSUME ScanInv, Promote
  PROVE  ScanInv'
<1> USE DEF haltVars, callVars
<1> DEFINE h == Head(queue)
<1>1. /\ worker /\ stack = <<>> /\ queue # <<>> /\ stack' = <<NewFrame(h)>> /\ queue' = Tail(queue)
      /\ scanStatus' = [running |-> TRUE, rec |-> Clean]
      /\ UNCHANGED <<worker, haltVars, history, callVars>>
  BY DEF Promote, PublishStatus
<1>2. /\ h \in ToSet(queue) /\ h \in Jobs /\ Tail(queue) \in Seq(Jobs)
      /\ NoDuplicates(Tail(queue)) /\ ToSet(Tail(queue)) = ToSet(queue) \ {h}
  BY <1>1, TailDropsHead DEF ScanInv, ScanTypeOK, Ledger
<1> HIDE DEF h
<1>3. /\ stack' \in Seq(Frame) /\ Nested(stack')
      /\ Unreturned = {} /\ Unreturned' = {h} /\ Running' = {h}
  BY <1>1, <1>2, FirstCall
<1>4. ScanTypeOK'
  <2>1. Clean \in Record
    BY DEF Clean, Record
  <2> QED  BY <1>1, <1>2, <1>3, <2>1 DEF ScanInv, ScanTypeOK
<1>5. StackInv'
  BY <1>1, <1>3 DEF ScanInv, StackInv
<1>6. Ledger'
  <2>1. Accounts(ToSet(queue), {}, cleared, InHistory, accepted)
    BY <1>3 DEF ScanInv, Ledger
  <2>2. Accounts(ToSet(queue) \ {h}, {h}, cleared, InHistory, accepted)
    BY <1>2, <2>1 DEF Accounts
  <2> QED  BY <1>1, <1>2, <1>3, <2>2 DEF Ledger, InHistory
<1>7. StopsReach'
  <2>1. h \in accepted
    BY <1>2 DEF ScanInv, Ledger, Accounts
  <2>2. ToSet(queue') \cup Running' \subseteq ToSet(queue)
    BY <1>1, <1>2, <1>3
  <2>3. CancelledOnlyByStop'
    BY <1>1 DEF ScanInv, StopsReach, CancelledOnlyByStop, InHistory
  <2> QED  BY <1>1, <1>3, <2>1, <2>2, <2>3 DEF ScanInv, StopsReach
<1> QED  BY <1>4, <1>5, <1>6, <1>7 DEF ScanInv

(* A worker starts with a context that no Stop has seen.                   *)
LEMMA Starting ==
  ASSUME ScanInv, NEW j \in Jobs, StartWorker(j)
  PROVE  ScanInv'
<1>1. /\ ~worker /\ j \notin accepted /\ accepted' = accepted \cup {j} /\ worker' = TRUE
      /\ epoch' = epoch + 1 /\ scanStatus' = [running |-> TRUE, rec |-> Clean]
      /\ stack' = <<NewFrame(j)>>
      /\ UNCHANGED <<queue, cancelled, stopping, history, cleared, doomed>>
  BY DEF StartWorker, PublishStatus
<1>2. stack = <<>> /\ queue = <<>>
  BY <1>1 DEF ScanInv, StackInv
<1>3. /\ stack' \in Seq(Frame) /\ Nested(stack')
      /\ Unreturned = {} /\ Unreturned' = {j} /\ Running' = {j}
  BY <1>1, <1>2, FirstCall
<1>4. /\ epoch' \in Nat /\ epoch' # 0 /\ epoch' \notin cancelled \cup stopping
      /\ cancelled \subseteq 1 .. epoch' /\ stopping \subseteq 1 .. epoch'
  BY <1>1 DEF ScanInv, ScanTypeOK
<1>5. ScanTypeOK'
  <2>1. Clean \in Record
    BY DEF Clean, Record
  <2> QED  BY <1>1, <1>3, <1>4, <2>1 DEF ScanInv, ScanTypeOK
<1>6. StackInv'
  BY <1>1, <1>3, <1>4 DEF ScanInv, StackInv
<1>7. Ledger'
  <2>1. Accounts(ToSet(queue), {}, cleared, InHistory, accepted)
    BY <1>3 DEF ScanInv, Ledger
  <2>2. Accounts(ToSet(queue), {j}, cleared, InHistory, accepted \cup {j})
    BY <1>1, <2>1 DEF Accounts
  <2> QED  BY <1>1, <1>3, <2>2 DEF ScanInv, Ledger, InHistory
<1>8. StopsReach'
  <2>1. CancelledOnlyByStop'
    BY <1>1 DEF ScanInv, StopsReach, CancelledOnlyByStop, InHistory
  <2> QED  BY <1>1, <1>3, <1>4, <2>1 DEF StopsReach
<1> QED  BY <1>5, <1>6, <1>7, <1>8 DEF ScanInv

LEMMA Enqueuing ==
  ASSUME ScanInv, NEW j \in Jobs, Enqueue(j)
  PROVE  ScanInv'
<1> USE DEF haltVars
<1>1. /\ worker /\ j \notin accepted /\ accepted' = accepted \cup {j}
      /\ \/ cleared' = cleared \cup {j} /\ queue' = queue
         \/ queue' = InsertByPriority(queue, Prio, j) /\ cleared' = cleared
      /\ doomed' = IF epoch \in stopping \cup cancelled THEN doomed \cup {j} ELSE doomed
      /\ UNCHANGED <<worker, haltVars, stack, scanStatus, history>>
  BY DEF Enqueue
<1>2. Accounts(ToSet(queue), Unreturned, cleared, InHistory, accepted)
  BY DEF ScanInv, Ledger
<1>3. j \notin ToSet(queue)
  BY <1>1, <1>2 DEF Accounts
<1>4. LET q == InsertByPriority(queue, Prio, j)
      IN  q \in Seq(Jobs) /\ NoDuplicates(q) /\ ToSet(q) = ToSet(queue) \cup {j}
  <2>1. queue \in Seq(Jobs) /\ NoDuplicates(queue) /\ Prio \in [Jobs -> Int]
    BY JobsAssumption DEF ScanInv, ScanTypeOK, Ledger
  <2> QED  BY <1>3, <2>1, InsertAddsOne
<1> DEFINE q == InsertByPriority(queue, Prio, j)
<1> HIDE DEF q
<1>5. Unreturned' = Unreturned /\ Running' = Running /\ InHistory' = InHistory
  BY <1>1 DEF Unreturned, Running, InHistory
<1>6. queue' \in Seq(Jobs) /\ NoDuplicates(queue') /\ ToSet(queue') \subseteq ToSet(queue) \cup {j}
  BY <1>1, <1>4 DEF ScanInv, ScanTypeOK, Ledger
<1>7. ScanTypeOK'
  BY <1>1, <1>6 DEF ScanInv, ScanTypeOK
<1>8. StackInv'
  BY <1>1 DEF ScanInv, StackInv
<1>9. Ledger'
  <2>1. CASE cleared' = cleared \cup {j} /\ queue' = queue
    <3>1. Accounts(ToSet(queue), Unreturned, cleared \cup {j}, InHistory, accepted \cup {j})
      BY <1>1, <1>2 DEF Accounts
    <3> QED  BY <1>1, <1>5, <1>6, <2>1, <3>1 DEF Ledger
  <2>2. CASE queue' = InsertByPriority(queue, Prio, j) /\ cleared' = cleared
    <3>1. ToSet(queue') = ToSet(queue) \cup {j}
      BY <1>4, <2>2
    <3>2. Accounts(ToSet(queue) \cup {j}, Unreturned, cleared, InHistory, accepted \cup {j})
      BY <1>1, <1>2 DEF Accounts
    <3> QED  BY <1>1, <1>5, <1>6, <2>2, <3>1, <3>2 DEF Ledger
  <2> QED  BY <1>1, <2>1, <2>2
<1>10. StopsReach'
  BY <1>1, <1>5, <1>6 DEF ScanInv, StopsReach, CancelledOnlyByStop
<1> QED  BY <1>7, <1>8, <1>9, <1>10 DEF ScanInv

LEMMA Stopping ==
  ASSUME ScanInv, StopClear \/ StopCancel
  PROVE  ScanInv'
<1> USE DEF callVars
<1>1. Accounts(ToSet(queue), Unreturned, cleared, InHistory, accepted)
  BY DEF ScanInv, Ledger
<1>2. CASE StopClear
  <2>1. /\ worker /\ queue' = <<>> /\ cleared' = cleared \cup ToSet(queue)
        /\ doomed' = doomed \cup ToSet(queue) \cup Running
        /\ stopping' = stopping \cup {epoch}
        /\ UNCHANGED <<worker, epoch, cancelled, stack, scanStatus, history, accepted>>
    BY <1>2 DEF StopClear
  <2>2. Unreturned' = Unreturned /\ Running' = Running /\ InHistory' = InHistory
    BY <2>1 DEF Unreturned, Running, InHistory
  <2>3. queue' \in Seq(Jobs) /\ ToSet(queue') = {} /\ NoDuplicates(queue')
    BY <2>1 DEF ToSet, NoDuplicates
  <2>4. epoch \in 1 .. epoch
    <3>1. epoch \in Nat
      BY DEF ScanInv, ScanTypeOK
    <3>2. epoch # 0
      BY <2>1 DEF ScanInv, StackInv
    <3> QED  BY <3>1, <3>2
  <2>5. ScanTypeOK'
    <3>1. ToSet(queue) \subseteq accepted /\ Running \subseteq accepted
      BY <1>1 DEF Accounts, ScanInv, StopsReach
    <3> QED  BY <2>1, <2>3, <2>4, <3>1 DEF ScanInv, ScanTypeOK
  <2>6. StackInv'
    BY <2>1 DEF ScanInv, StackInv
  <2>7. Ledger'
    <3>1. Accounts({}, Unreturned, cleared \cup ToSet(queue), InHistory, accepted)
      BY <1>1 DEF Accounts
    <3> QED  BY <2>1, <2>2, <2>3, <3>1 DEF Ledger
  <2>8. StopsReach'
    BY <2>1, <2>2, <2>3 DEF ScanInv, StopsReach, CancelledOnlyByStop
  <2> QED  BY <2>5, <2>6, <2>7, <2>8 DEF ScanInv
<1>3. CASE StopCancel
  <2>1. /\ cancelled' = cancelled \cup stopping /\ stopping' = {}
        /\ UNCHANGED <<queue, worker, epoch, stack, scanStatus, history, callVars>>
    BY <1>3 DEF StopCancel
  <2>2. Unreturned' = Unreturned /\ Running' = Running /\ InHistory' = InHistory
    BY <2>1 DEF Unreturned, Running, InHistory
  <2>3. ScanTypeOK' /\ StackInv'
    BY <2>1 DEF ScanInv, ScanTypeOK, StackInv
  <2>4. Ledger'
    BY <2>1, <2>2 DEF ScanInv, Ledger
  <2>5. StopsReach'
    BY <2>1, <2>2 DEF ScanInv, StopsReach, CancelledOnlyByStop
  <2> QED  BY <2>3, <2>4, <2>5 DEF ScanInv
<1> QED  BY <1>2, <1>3

(* The last job is done, and the worker over; or nothing happens.          *)
LEMMA Resting ==
  ASSUME ScanInv, Retire \/ UNCHANGED scanVars
  PROVE  ScanInv'
<1> USE DEF haltVars, callVars
<1>1. /\ UNCHANGED <<queue, haltVars, stack, history, callVars>>
      /\ worker' = FALSE => stack = <<>> /\ queue = <<>>
      /\ worker' \in BOOLEAN /\ (worker' => worker)
      /\ scanStatus' \in [running : BOOLEAN, rec : Record]
  <2>1. scanStatus \in [running : BOOLEAN, rec : Record] /\ worker \in BOOLEAN
    BY DEF ScanInv, ScanTypeOK
  <2>2. [scanStatus EXCEPT !.running = FALSE] \in [running : BOOLEAN, rec : Record]
    BY <2>1
  <2>3. CASE Retire
    <3>1. /\ worker /\ stack = <<>> /\ queue = <<>> /\ worker' = FALSE
          /\ scanStatus' = [scanStatus EXCEPT !.running = FALSE]
          /\ UNCHANGED <<queue, haltVars, stack, history, callVars>>
      BY <2>3 DEF Retire
    <3> QED  BY <2>2, <3>1
  <2>4. CASE UNCHANGED scanVars
    BY <2>1, <2>4 DEF scanVars, ScanInv, StackInv
  <2> QED  BY <2>3, <2>4
<1>2. Unreturned' = Unreturned /\ Running' = Running /\ InHistory' = InHistory
  BY <1>1 DEF Unreturned, Running, InHistory
<1>3. ScanTypeOK' /\ StackInv'
  BY <1>1 DEF ScanInv, ScanTypeOK, StackInv
<1>4. Ledger'
  BY <1>1, <1>2 DEF ScanInv, Ledger
<1>5. StopsReach'
  BY <1>1, <1>2 DEF ScanInv, StopsReach, CancelledOnlyByStop
<1> QED  BY <1>3, <1>4, <1>5 DEF ScanInv

-----------------------------------------------------------------------------
(* The inductive invariant of the scan queue.                              *)
LEMMA ScanStart ==
  ASSUME ScanInit  PROVE ScanInv
<1>1. queue \in Seq(Jobs) /\ ToSet(queue) = {} /\ NoDuplicates(queue)
  BY DEF ScanInit, ToSet, NoDuplicates
<1>2. stack \in Seq(Frame) /\ Len(stack) = 0 /\ DOMAIN stack = {}
  BY DEF ScanInit
<1>3. Unreturned = {} /\ Running = {} /\ InHistory = {}
  BY <1>2 DEF Unreturned, Running, InHistory, ScanInit
<1>4. ScanTypeOK
  BY <1>1, <1>2 DEF ScanInit, ScanTypeOK, Clean, Record, Outcomes
<1>5. StackInv
  <2>1. \A i \in 1 .. Len(stack) : FALSE
    BY <1>2
  <2> QED  BY <2>1 DEF StackInv, Nested, ScanInit
<1>6. Ledger
  BY <1>1, <1>3 DEF ScanInit, Ledger, Accounts
<1>7. StopsReach
  BY <1>3 DEF ScanInit, StopsReach, CancelledOnlyByStop
<1> QED  BY <1>4, <1>5, <1>6, <1>7 DEF ScanInv

(* The queue, the stack and the record of the scans, and what a Stop takes *)
(* from them (runQueue, checkpoint, Stop).                                 *)
THEOREM ScanQueueInvariant == ScanSpec => []ScanInv
<1>1. ScanInit => ScanInv
  BY ScanStart
<1>2. ScanInv /\ [ScanNext]_scanVars => ScanInv'
  BY GoingOn, Popping, Yielding, Ending, Returning, Promoting, Starting, Enqueuing,
     Stopping, Resting DEF ScanNext, WorkerStep
<1> QED  BY <1>1, <1>2, PTL DEF ScanSpec

(* No scan is lost and none is run twice: every job that was accepted is   *)
(* queued, on the worker's stack, dropped, or recorded, and in one of them *)
(* only; and a job is preempted only by one that outranks it, by nested    *)
(* calls each of which waits for the one above (runQueue, checkpoint).     *)
THEOREM JobsHaveOnePlace == ScanSpec => []OnePlaceEach
<1>1. ScanInv => OnePlaceEach
  <2>1. SUFFICES ASSUME ScanInv  PROVE OnePlaceEach
    OBVIOUS
  <2>2. Len(stack) \in Nat /\ DOMAIN stack = 1 .. Len(stack)
    BY StackShape DEF ScanInv, ScanTypeOK
  <2>3. ASSUME NEW i \in DOMAIN stack
        PROVE  /\ i > 1 => Prio[stack[i].job] < Prio[stack[i - 1].job]
               /\ i < Len(stack) => stack[i].at = "nested"
    <3>1. i \in 1 .. Len(stack) /\ (i > 1 => i - 1 \in 1 .. Len(stack) /\ i - 1 < i)
      BY <2>2, <2>3
    <3> QED  BY <2>1, <3>1 DEF ScanInv, StackInv, Nested
  <2> QED  BY <2>1, <2>3 DEF ScanInv, Ledger, Accounts, OnePlaceEach
<1> QED  BY <1>1, ScanQueueInvariant, PTL

(* When the worker is over, nothing is left behind: every job that was     *)
(* accepted is recorded or was dropped. A job that comes while the worker  *)
(* looks for the last time is queued or starts the next worker (runQueue,  *)
(* StartOptions). That the worker ends at last is AcceptedEnds.            *)
THEOREM NothingIsLeftBehind ==
  ScanSpec => [](~worker => accepted \subseteq InHistory \cup cleared)
<1>1. ASSUME ScanInv, ~worker  PROVE accepted \subseteq InHistory \cup cleared
  <2>1. stack = <<>> /\ queue = <<>>
    BY <1>1 DEF ScanInv, StackInv
  <2>2. DOMAIN stack = {} /\ ToSet(queue) = {}
    BY <2>1 DEF ToSet
  <2>3. Unreturned = {}
    BY <2>2 DEF Unreturned
  <2> QED  BY <1>1, <2>2, <2>3 DEF ScanInv, Ledger, Accounts
<1> QED  BY <1>1, ScanQueueInvariant, PTL

(* A job that is recorded as cancelled was running or queued when a Stop   *)
(* came, or joined the worker that it was stopping: the cancel of a Stop   *)
(* that comes late does not reach the jobs of the next worker.             *)
THEOREM StopCancelsItsOwn == ScanSpec => []CancelledOnlyByStop
<1>1. ScanInv => CancelledOnlyByStop
  BY DEF ScanInv, StopsReach
<1> QED  BY <1>1, ScanQueueInvariant, PTL

-----------------------------------------------------------------------------
(***************************************************************************)
(* The startup (Startup): no migration loses what a user has edited, and   *)
(* no notice of an update stays pending that the user was shown, for any   *)
(* editions of the database and any number of deaths, outages, upgrades    *)
(* and edits.                                                              *)
(*                                                                         *)
(* While a database is migrated a wish of the user lives in one place or   *)
(* another: a mark under its old or its new name, a cast in the releases   *)
(* or in the table they are split into, a release in its row or the one it *)
(* is merged into. Carries says where each may be, whatever was migrated   *)
(* so far, and each step keeps it. That the steps after a copy may drop    *)
(* the original needs Progress: what the first steps of an attempt have    *)
(* left behind (Reached), since an attempt may start from a database that  *)
(* an earlier one has left half migrated.                                  *)
(***************************************************************************)

DbType ==
  [schema : BOOLEAN, anchored : BOOLEAN, legacy : SUBSET Twins, people : SUBSET Nat, flags : SUBSET Flags, retired : BOOLEAN,
   oldMarks : SUBSET Nat, marks : SUBSET Nat, rows : SUBSET Nat, owner : Nat, link : Nat, local : SUBSET Nat,
   scene : SUBSET Nat, notes : SUBSET Nat, future : BOOLEAN, auto : BOOLEAN, ignored : BOOLEAN, hidden : BOOLEAN,
   seeded : BOOLEAN, setting : {"none", "default", "own"}, installed : Nat, pending : Nat \X Nat, key : BOOLEAN,
   user : {"none", "initial", "own"}]
WishType == [mark : BOOLEAN, auto : BOOLEAN, people : BOOLEAN, setting : BOOLEAN, cleared : BOOLEAN, owned : BOOLEAN]
BootType == [pc : Pcs, at : 1..16, fresh : BOOLEAN, empty : BOOLEAN, page : Pages, saving : BOOLEAN, shown : Nat \X Nat]

BootShapes ==
  /\ engine \in {"sqlite", "postgres"} /\ version \in Nat /\ retryNow \in BOOLEAN /\ reach \in BOOLEAN
  /\ db \in DbType /\ wish \in WishType /\ boot \in BootType
  /\ used \in [edits : Nat, deaths : Nat, outages : Nat]

\* What of a user's wish a database carries, whatever was migrated of it.
MarkKept(d, w) == (d.marks \cup d.oldMarks # {}) = w.mark
AutoKept(d, w) == (d.auto \/ d.future) = w.auto /\ ("redesign" \in d.flags => ~d.future)
SettingKept(d, w) == w.setting => d.setting = "own"
CastKept(d, w) == w.people => (d.people \cup d.legacy) \cap Twins # {}
ClearedKept(d, w) == w.cleared => d.notes = {} /\ "notes" \in d.flags
OwnerKept(d, w) == IF w.owned THEN d.owner \in d.rows \cap Twins ELSE d.owner = 0
RowsSound(d) ==
  /\ d.rows \subseteq Twins \cup {GigaRow}
  /\ d.oldMarks # {} => d.retired
  /\ d.marks \cup d.oldMarks \subseteq d.rows \cap Twins
  /\ d.link # 0 => d.link = GigaRow /\ GigaRow \in d.rows
  /\ "identity" \in d.flags => \A r, q \in d.rows \cap Twins : r = q
  /\ "giga" \in d.flags => GigaRow \notin d.rows
Carries(d, w) ==
  /\ MarkKept(d, w) /\ AutoKept(d, w) /\ SettingKept(d, w) /\ CastKept(d, w) /\ ClearedKept(d, w) /\ OwnerKept(d, w) /\ RowsSound(d)

\* What the first i steps of this attempt have left.
CopyAt == IF engine = "sqlite" THEN 2 ELSE 3
Reached(d, i) ==
  /\ i >= CopyAt => d.oldMarks \subseteq d.marks
  /\ i > CopyAt => d.oldMarks = {}
  /\ i >= 5 => "redesign" \in d.flags
  /\ i >= 7 => d.legacy \subseteq d.people
  /\ i >= 8 => "identity" \in d.flags
  /\ i >= 9 => d.legacy = {}
  /\ i >= 11 => "giga" \in d.flags
  /\ i >= 12 => "notes" \in d.flags

Started == {"track", "seed", "key", "user", "listen", "running"}
Progress == /\ boot.pc = "open" => Reached(db, boot.at - 1)
            /\ boot.pc \in Started => Reached(db, 15)
            /\ boot.saving => boot.pc = "running"

BootInv == BootShapes /\ Carries(db, wish) /\ Progress /\ PendingIsCurrent

-----------------------------------------------------------------------------
\* The steps of the migrations, and where the two lists differ.
LEMMA StepNames ==
  ASSUME engine \in {"sqlite", "postgres"}
  PROVE  /\ Len(Steps) = 15
         /\ Steps[CopyAt] = "copy" /\ Steps[CopyAt + 1] = "drop"
         /\ Steps[1] \in {"schema", "connect"} /\ Steps[2] \in {"schema", "copy"}
         /\ Steps[3] \in {"copy", "drop"} /\ Steps[4] \in {"drop", "presets"}
         /\ Steps[5] = "redesign" /\ Steps[6] = "text" /\ Steps[7] = "metadata" /\ Steps[8] = "identity"
         /\ Steps[9] = "columns" /\ Steps[10] = "normalized" /\ Steps[11] = "giga" /\ Steps[12] = "notes"
         /\ Steps[13] = "repair" /\ Steps[14] = "prefs" /\ Steps[15] = "prefsFlag"
<1>1. CASE engine = "sqlite"
  BY <1>1 DEF Steps, SqliteSteps, CopyAt
<1>2. CASE engine = "postgres"
  BY <1>2 DEF Steps, PostgresSteps, CopyAt
<1> QED  BY <1>1, <1>2

\* The step a position stands for: one that neither reads nor writes what a
\* user asked for, or one of those below.
Neutral == {"schema", "connect", "presets", "normalized", "repair", "prefs", "prefsFlag"}
LEMMA StepAtPosition ==
  ASSUME engine \in {"sqlite", "postgres"}, NEW i \in 1..15
  PROVE  /\ CopyAt \in {2, 3}
         /\ \/ Steps[i] \in Neutral /\ i \notin {CopyAt, CopyAt + 1, 5, 7, 8, 9, 11, 12}
            \/ i = CopyAt /\ Steps[i] = "copy"
            \/ i = CopyAt + 1 /\ Steps[i] = "drop"
            \/ i = 5 /\ Steps[i] = "redesign"
            \/ i = 6 /\ Steps[i] = "text"
            \/ i = 7 /\ Steps[i] = "metadata"
            \/ i = 8 /\ Steps[i] = "identity"
            \/ i = 9 /\ Steps[i] = "columns"
            \/ i = 11 /\ Steps[i] = "giga"
            \/ i = 12 /\ Steps[i] = "notes"
<1>1. CASE engine = "sqlite"
  <2>1. CopyAt = 2
    BY <1>1 DEF CopyAt
  <2>2. CASE i \in {1, 4}
    BY <1>1, <2>1, <2>2 DEF Steps, SqliteSteps, Neutral
  <2>3. CASE i \in {2, 3} \cup 5..15
    BY <2>1, <2>3, StepNames DEF Neutral
  <2> QED  BY <2>1, <2>2, <2>3
<1>2. CASE engine = "postgres"
  <2>1. CopyAt = 3
    BY <1>2 DEF CopyAt
  <2>2. CASE i \in {1, 2}
    BY <1>2, <2>1, <2>2 DEF Steps, PostgresSteps, Neutral
  <2>3. CASE i \in {3, 4} \cup 5..15
    BY <2>1, <2>3, StepNames DEF Neutral
  <2> QED  BY <2>1, <2>2, <2>3
<1> QED  BY <1>1, <1>2

\* What a step does to the rest: it keeps the version and its transition.
Migrated(d, e, w) == e \in DbType /\ Carries(e, w) /\ e.installed = d.installed /\ e.pending = d.pending
Same(d, e) ==
  /\ e.marks = d.marks /\ e.oldMarks = d.oldMarks /\ e.retired = d.retired /\ e.auto = d.auto /\ e.future = d.future /\ e.setting = d.setting
  /\ e.people = d.people /\ e.legacy = d.legacy /\ e.notes = d.notes /\ e.rows = d.rows /\ e.owner = d.owner /\ e.link = d.link
  /\ e.installed = d.installed /\ e.pending = d.pending

\* A step that changes nothing a user asked for, and sets no flag but its own.
LEMMA SameCarries ==
  ASSUME NEW d \in DbType, NEW w \in WishType, Carries(d, w), NEW e \in DbType, Same(d, e),
         d.flags \subseteq e.flags, e.flags \subseteq d.flags \cup {"text", "normalized", "prefs"}
  PROVE  Migrated(d, e, w)
<1>1. MarkKept(e, w) /\ SettingKept(e, w) /\ CastKept(e, w)
  BY DEF Carries, MarkKept, SettingKept, CastKept, Same
<1>2. AutoKept(e, w) /\ ClearedKept(e, w) /\ OwnerKept(e, w)
  BY DEF Carries, AutoKept, ClearedKept, OwnerKept, Same
<1>3. RowsSound(e)
  BY DEF Carries, RowsSound, Same
<1> QED  BY <1>1, <1>2, <1>3 DEF Carries, Migrated, Same

LEMMA FlagIsAdded ==
  ASSUME NEW d \in DbType, NEW flag \in Flags, NEW e, e = [d EXCEPT !.flags = d.flags \cup {flag}]
  PROVE  e \in DbType /\ Same(d, e) /\ e.flags = d.flags \cup {flag}
  BY DEF DbType, Same

LEMMA NeutralStep ==
  ASSUME NEW d \in DbType, NEW w \in WishType, Carries(d, w), NEW step \in Neutral, NEW e \in After(step, d)
  PROVE  Migrated(d, e, w) /\ Same(d, e) /\ d.flags \subseteq e.flags
<1>1. CASE step = "connect"
  <2>1. e = d
    BY <1>1 DEF After
  <2> QED  BY <2>1, SameCarries DEF Same
<1>2. CASE step = "schema"
  <2>1. e = [d EXCEPT !.schema = TRUE]
    BY <1>2 DEF After, AddSchema
  <2>2. e \in DbType /\ Same(d, e) /\ e.flags = d.flags
    BY <2>1 DEF DbType, Same
  <2> QED  BY <2>2, SameCarries
<1>3. CASE step = "presets"
  <2>1. e = [d EXCEPT !.anchored = FALSE]
    BY <1>3 DEF After, Presets
  <2>2. e \in DbType /\ Same(d, e) /\ e.flags = d.flags
    BY <2>1 DEF DbType, Same
  <2> QED  BY <2>2, SameCarries
<1>4. CASE step = "normalized"
  <2>1. e = [d EXCEPT !.flags = d.flags \cup {"normalized"}]
    BY <1>4 DEF After, NormalizedFlag
  <2>2. e \in DbType /\ Same(d, e) /\ e.flags = d.flags \cup {"normalized"}
    BY <2>1 DEF DbType, Same, Flags
  <2> QED  BY <2>2, SameCarries
<1>5. CASE step = "repair"
  <2>1. e = [d EXCEPT !.local = d.local \cap d.scene]
    BY <1>5 DEF After, RepairLocal
  <2>2. e \in DbType /\ Same(d, e) /\ e.flags = d.flags
    BY <2>1 DEF DbType, Same
  <2> QED  BY <2>2, SameCarries
<1>6. CASE step = "prefs"
  <2>1. e = d \/ e = [d EXCEPT !.hidden = d.ignored]
    BY <1>6 DEF After, MaterializePreferences
  <2>2. e \in DbType /\ Same(d, e) /\ e.flags = d.flags
    BY <2>1 DEF DbType, Same
  <2> QED  BY <2>2, SameCarries
<1>7. CASE step = "prefsFlag"
  <2>1. e = [d EXCEPT !.flags = d.flags \cup {"prefs"}]
    BY <1>7 DEF After, PreferencesFlag
  <2>2. e \in DbType /\ Same(d, e) /\ e.flags = d.flags \cup {"prefs"}
    BY <2>1 DEF DbType, Same, Flags
  <2> QED  BY <2>2, SameCarries
<1> QED  BY <1>1, <1>2, <1>3, <1>4, <1>5, <1>6, <1>7 DEF Neutral

\* The marks get their new name before the old one goes.
LEMMA CopyStep ==
  ASSUME NEW d \in DbType, NEW w \in WishType, Carries(d, w), NEW e \in After("copy", d)
  PROVE  /\ Migrated(d, e, w) /\ e.oldMarks = d.oldMarks /\ e.oldMarks \subseteq e.marks /\ e.flags = d.flags
         /\ e.legacy = d.legacy /\ e.people = d.people /\ e.retired = d.retired
<1>1. e = d \/ e = [d EXCEPT !.marks = d.marks \cup d.oldMarks]
  BY DEF After, CopyMarks
<1>2. d.retired => e = [d EXCEPT !.marks = d.marks \cup d.oldMarks]
  BY DEF After, CopyMarks
<1>3. /\ e \in DbType /\ e.oldMarks = d.oldMarks /\ e.flags = d.flags /\ e.legacy = d.legacy /\ e.people = d.people
      /\ e.retired = d.retired /\ e.auto = d.auto /\ e.future = d.future /\ e.setting = d.setting /\ e.notes = d.notes
      /\ e.rows = d.rows /\ e.owner = d.owner /\ e.link = d.link /\ e.installed = d.installed /\ e.pending = d.pending
      /\ e.marks \cup e.oldMarks = d.marks \cup d.oldMarks
  BY <1>1 DEF DbType
<1>4. e.oldMarks \subseteq e.marks
  <2>1. CASE d.retired
    <3>1. e.marks = d.marks \cup d.oldMarks
      BY <1>2, <2>1 DEF DbType
    <3> QED  BY <1>3, <3>1
  <2>2. CASE ~d.retired
    <3>1. d.oldMarks = {}
      BY <2>2 DEF Carries, RowsSound
    <3> QED  BY <1>3, <3>1
  <2> QED  BY <2>1, <2>2
<1>5. MarkKept(e, w) /\ SettingKept(e, w) /\ CastKept(e, w) /\ AutoKept(e, w)
  BY <1>3 DEF Carries, MarkKept, SettingKept, CastKept, AutoKept
<1>6. ClearedKept(e, w) /\ OwnerKept(e, w) /\ RowsSound(e)
  BY <1>3 DEF Carries, ClearedKept, OwnerKept, RowsSound
<1> QED  BY <1>3, <1>4, <1>5, <1>6 DEF Carries, Migrated

LEMMA DropStep ==
  ASSUME NEW d \in DbType, NEW w \in WishType, Carries(d, w), d.oldMarks \subseteq d.marks, NEW e \in After("drop", d)
  PROVE  /\ Migrated(d, e, w) /\ e.oldMarks = {} /\ e.flags = d.flags /\ e.legacy = d.legacy /\ e.people = d.people
<1>1. e = [d EXCEPT !.retired = FALSE, !.oldMarks = {}]
  BY DEF After, DropRetired
<1>3. /\ e \in DbType /\ e.oldMarks = {} /\ e.flags = d.flags /\ e.legacy = d.legacy /\ e.people = d.people
      /\ e.auto = d.auto /\ e.future = d.future /\ e.setting = d.setting /\ e.notes = d.notes
      /\ e.rows = d.rows /\ e.owner = d.owner /\ e.link = d.link /\ e.installed = d.installed /\ e.pending = d.pending
      /\ e.marks = d.marks
  BY <1>1 DEF DbType
<1>5. MarkKept(e, w) /\ SettingKept(e, w) /\ CastKept(e, w) /\ AutoKept(e, w)
  BY <1>3 DEF Carries, MarkKept, SettingKept, CastKept, AutoKept
<1>6. ClearedKept(e, w) /\ OwnerKept(e, w) /\ RowsSound(e)
  BY <1>3 DEF Carries, ClearedKept, OwnerKept, RowsSound
<1> QED  BY <1>3, <1>5, <1>6 DEF Carries, Migrated

LEMMA RedesignStep ==
  ASSUME NEW d \in DbType, NEW w \in WishType, Carries(d, w), NEW e \in After("redesign", d)
  PROVE  /\ Migrated(d, e, w) /\ e.oldMarks = d.oldMarks /\ e.marks = d.marks /\ e.legacy = d.legacy /\ e.people = d.people
         /\ e.flags = d.flags \cup {"redesign"}
<1> DEFINE auto == d.auto \/ d.future
           g == [d EXCEPT !.auto = auto, !.future = FALSE]
<1>a. auto \in BOOLEAN
  BY DEF DbType
<1>1. \/ "redesign" \in d.flags /\ e = d
      \/ e = [g EXCEPT !.flags = g.flags \cup {"redesign"}]
  BY DEF After, SiteMonitoringRedesign, Once
<1>b. /\ g \in DbType /\ g.auto = auto /\ g.future = FALSE
      /\ g.oldMarks = d.oldMarks /\ g.legacy = d.legacy /\ g.people = d.people /\ g.marks = d.marks
      /\ g.setting = d.setting /\ g.notes = d.notes /\ g.flags = d.flags /\ g.retired = d.retired
      /\ g.rows = d.rows /\ g.owner = d.owner /\ g.link = d.link /\ g.installed = d.installed /\ g.pending = d.pending
  <2> HIDE DEF auto
  <2>1. g \in DbType
    BY <1>a DEF DbType
  <2>2. g.auto = auto /\ g.future = FALSE
    BY DEF DbType
  <2> QED  BY <2>1, <2>2 DEF DbType
<1> HIDE DEF g
<1>c. \/ "redesign" \in d.flags /\ e = d
      \/ e \in DbType /\ Same(g, e) /\ e.flags = g.flags \cup {"redesign"}
  BY <1>1, <1>b, FlagIsAdded DEF Flags
<1>2. /\ e \in DbType /\ e.oldMarks = d.oldMarks /\ e.legacy = d.legacy /\ e.people = d.people /\ e.marks = d.marks
      /\ e.setting = d.setting /\ e.notes = d.notes /\ e.flags = d.flags \cup {"redesign"} /\ e.retired = d.retired
      /\ e.rows = d.rows /\ e.owner = d.owner /\ e.link = d.link /\ e.installed = d.installed /\ e.pending = d.pending
  BY <1>b, <1>c DEF Same
<1>3. AutoKept(e, w)
  <2>1. CASE e = d /\ "redesign" \in d.flags
    BY <2>1 DEF Carries, AutoKept
  <2>2. CASE e.auto = auto /\ e.future = FALSE
    BY <2>2 DEF Carries, AutoKept
  <2> QED  BY <1>b, <1>c, <2>1, <2>2 DEF Same
<1>4. MarkKept(e, w) /\ SettingKept(e, w) /\ CastKept(e, w)
  BY <1>2 DEF Carries, MarkKept, SettingKept, CastKept
<1>5. ClearedKept(e, w) /\ OwnerKept(e, w) /\ RowsSound(e)
  BY <1>2 DEF Carries, ClearedKept, OwnerKept, RowsSound
<1> QED  BY <1>2, <1>3, <1>4, <1>5 DEF Carries, Migrated

\* The names of the cast are added to the table and leave no column.
LEMMA CastSteps ==
  ASSUME NEW d \in DbType, NEW w \in WishType, Carries(d, w), NEW e \in After("text", d) \cup After("metadata", d)
  PROVE  /\ Migrated(d, e, w) /\ e.oldMarks = d.oldMarks /\ e.marks = d.marks /\ e.legacy = d.legacy
         /\ d.flags \subseteq e.flags
         /\ d.legacy \subseteq d.people => d.legacy \subseteq e.people
         /\ e \in After("metadata", d) => e.legacy \subseteq e.people
<1> DEFINE g == [d EXCEPT !.people = d.people \cup d.legacy]
<1>1. e = d \/ e = [g EXCEPT !.flags = g.flags \cup {"text"}] \/ e = g
  BY DEF After, CleanupText, ReleaseMetadata, Once
<1>a. d.people \cup d.legacy \in SUBSET Nat
  BY StartupAssumption DEF DbType
<1>b. /\ g \in DbType /\ g.oldMarks = d.oldMarks /\ g.legacy = d.legacy /\ g.marks = d.marks /\ g.auto = d.auto
      /\ g.future = d.future /\ g.retired = d.retired /\ g.setting = d.setting /\ g.notes = d.notes /\ g.flags = d.flags
      /\ g.rows = d.rows /\ g.owner = d.owner /\ g.link = d.link /\ g.installed = d.installed /\ g.pending = d.pending
      /\ g.people = d.people \cup d.legacy
  BY <1>a DEF DbType
<1> HIDE DEF g
<1>c. e = d \/ e = g \/ (e \in DbType /\ Same(g, e) /\ e.flags = g.flags \cup {"text"})
  BY <1>1, <1>b, FlagIsAdded DEF Flags
<1>2. /\ e \in DbType /\ e.oldMarks = d.oldMarks /\ e.legacy = d.legacy /\ e.marks = d.marks /\ e.auto = d.auto
      /\ e.future = d.future /\ e.retired = d.retired
      /\ e.setting = d.setting /\ e.notes = d.notes /\ d.flags \subseteq e.flags /\ e.flags \subseteq d.flags \cup {"text"}
      /\ e.rows = d.rows /\ e.owner = d.owner /\ e.link = d.link /\ e.installed = d.installed /\ e.pending = d.pending
      /\ d.people \subseteq e.people
  BY <1>b, <1>c DEF Same
<1>3. e \in After("metadata", d) => e.legacy \subseteq e.people
  <2>1. e \in After("metadata", d) => e = [d EXCEPT !.people = d.people \cup d.legacy]
    BY DEF After, ReleaseMetadata
  <2> QED  BY <2>1 DEF DbType
<1>4. MarkKept(e, w) /\ SettingKept(e, w) /\ CastKept(e, w) /\ AutoKept(e, w)
  BY <1>2 DEF Carries, MarkKept, SettingKept, CastKept, AutoKept
<1>5. ClearedKept(e, w) /\ OwnerKept(e, w) /\ RowsSound(e)
  BY <1>2 DEF Carries, ClearedKept, OwnerKept, RowsSound
<1> QED  BY <1>2, <1>3, <1>4, <1>5 DEF Carries, Migrated

LEMMA ColumnsStep ==
  ASSUME NEW d \in DbType, NEW w \in WishType, Carries(d, w), NEW e \in After("columns", d)
  PROVE  /\ Migrated(d, e, w) /\ e.oldMarks = d.oldMarks /\ e.marks = d.marks /\ e.legacy = {} /\ e.flags = d.flags
<1>1. e = [d EXCEPT !.legacy = {}] /\ d.legacy \subseteq d.people
  BY DEF After, DropLegacyColumns
<1>2. /\ e \in DbType /\ e.oldMarks = d.oldMarks /\ e.legacy = {} /\ e.marks = d.marks /\ e.auto = d.auto
      /\ e.future = d.future /\ e.retired = d.retired /\ e.people = d.people
      /\ e.setting = d.setting /\ e.notes = d.notes /\ e.flags = d.flags
      /\ e.rows = d.rows /\ e.owner = d.owner /\ e.link = d.link /\ e.installed = d.installed /\ e.pending = d.pending
  BY <1>1 DEF DbType
<1>4. MarkKept(e, w) /\ SettingKept(e, w) /\ CastKept(e, w) /\ AutoKept(e, w)
  BY <1>1, <1>2 DEF Carries, MarkKept, SettingKept, CastKept, AutoKept
<1>5. ClearedKept(e, w) /\ OwnerKept(e, w) /\ RowsSound(e)
  BY <1>2 DEF Carries, ClearedKept, OwnerKept, RowsSound
<1> QED  BY <1>2, <1>4, <1>5 DEF Carries, Migrated

LEMMA NotesStep ==
  ASSUME NEW d \in DbType, NEW w \in WishType, Carries(d, w), NEW e \in After("notes", d)
  PROVE  /\ Migrated(d, e, w) /\ e.oldMarks = d.oldMarks /\ e.marks = d.marks /\ e.legacy = d.legacy /\ e.people = d.people
         /\ e.flags = d.flags \cup {"notes"}
<1> DEFINE g == [d EXCEPT !.notes = d.notes \cup d.local]
<1>1. \/ "notes" \in d.flags /\ e = d
      \/ "notes" \notin d.flags /\ e = [g EXCEPT !.flags = g.flags \cup {"notes"}]
  BY DEF After, LocalAvailableNotifications, Once
<1>b. /\ g \in DbType /\ g.oldMarks = d.oldMarks /\ g.legacy = d.legacy /\ g.marks = d.marks /\ g.auto = d.auto
      /\ g.future = d.future /\ g.retired = d.retired /\ g.setting = d.setting /\ g.people = d.people /\ g.flags = d.flags
      /\ g.rows = d.rows /\ g.owner = d.owner /\ g.link = d.link /\ g.installed = d.installed /\ g.pending = d.pending
  BY DEF DbType
<1> HIDE DEF g
<1>c. \/ "notes" \in d.flags /\ e = d
      \/ "notes" \notin d.flags /\ e \in DbType /\ Same(g, e) /\ e.flags = g.flags \cup {"notes"}
  BY <1>1, <1>b, FlagIsAdded DEF Flags
<1>2. /\ e \in DbType /\ e.oldMarks = d.oldMarks /\ e.legacy = d.legacy /\ e.people = d.people /\ e.marks = d.marks
      /\ e.setting = d.setting /\ e.flags = d.flags \cup {"notes"} /\ e.retired = d.retired
      /\ e.auto = d.auto /\ e.future = d.future
      /\ e.rows = d.rows /\ e.owner = d.owner /\ e.link = d.link /\ e.installed = d.installed /\ e.pending = d.pending
  BY <1>b, <1>c DEF Same
<1>3. ClearedKept(e, w)
  BY <1>c DEF Carries, ClearedKept
<1>4. MarkKept(e, w) /\ SettingKept(e, w) /\ CastKept(e, w) /\ AutoKept(e, w)
  BY <1>2 DEF Carries, MarkKept, SettingKept, CastKept, AutoKept
<1>5. OwnerKept(e, w) /\ RowsSound(e)
  BY <1>2 DEF Carries, ClearedKept, OwnerKept, RowsSound
<1> QED  BY <1>2, <1>3, <1>4, <1>5 DEF Carries, Migrated

\* Moving what the other rows of a release knew to the one that is kept.
LEMMA MovedFacts ==
  ASSUME NEW S, NEW T, NEW keep \in Twins
  PROVE  /\ Moved(S, keep) \subseteq (S \ Twins) \cup {keep}
         /\ Moved(S, keep) = {} <=> S = {}
         /\ S \subseteq T => Moved(S, keep) \subseteq Moved(T, keep)
         /\ S \cap Twins # {} => keep \in Moved(S, keep)
         /\ S \ Twins \subseteq Moved(S, keep)
         /\ S \subseteq T \cap Twins => Moved(S, keep) \subseteq Moved(T, keep) \cap Twins
  BY DEF Moved

LEMMA IdentityStep ==
  ASSUME NEW d \in DbType, NEW w \in WishType, Carries(d, w), d.legacy \subseteq d.people, d.oldMarks = {},
         NEW e \in After("identity", d)
  PROVE  /\ Migrated(d, e, w) /\ e.oldMarks = {} /\ e.legacy \subseteq e.people /\ e.flags = d.flags \cup {"identity"}
<1>1. \/ "identity" \in d.flags /\ e = d
      \/ d.rows \cap Twins = {} /\ e = [d EXCEPT !.flags = d.flags \cup {"identity"}]
      \/ \E keep \in d.rows \cap Twins : e = [Merged(d, keep) EXCEPT !.flags = d.flags \cup {"identity"}]
  <2>1. \A keep : Merged(d, keep).flags = d.flags
    BY DEF Merged, DbType
  <2> QED  BY <2>1 DEF After, ReleaseIdentity, Once
<1>2. CASE "identity" \in d.flags /\ e = d
  BY <1>2 DEF Migrated, DbType
<1>3. CASE d.rows \cap Twins = {} /\ e = [d EXCEPT !.flags = d.flags \cup {"identity"}]
  <2>2. /\ e \in DbType /\ e.oldMarks = d.oldMarks /\ e.legacy = d.legacy /\ e.people = d.people /\ e.marks = d.marks
        /\ e.setting = d.setting /\ e.flags = d.flags \cup {"identity"} /\ e.retired = d.retired
        /\ e.auto = d.auto /\ e.future = d.future /\ e.notes = d.notes
        /\ e.rows = d.rows /\ e.owner = d.owner /\ e.link = d.link /\ e.installed = d.installed /\ e.pending = d.pending
    BY <1>3 DEF DbType, Flags
  <2>4. MarkKept(e, w) /\ SettingKept(e, w) /\ CastKept(e, w) /\ AutoKept(e, w)
    BY <2>2 DEF Carries, MarkKept, SettingKept, CastKept, AutoKept
  <2>5. ClearedKept(e, w) /\ OwnerKept(e, w) /\ RowsSound(e)
    BY <1>3, <2>2 DEF Carries, ClearedKept, OwnerKept, RowsSound
  <2> QED  BY <2>2, <2>4, <2>5 DEF Carries, Migrated
<1>4. ASSUME NEW keep \in d.rows \cap Twins, e = [Merged(d, keep) EXCEPT !.flags = d.flags \cup {"identity"}]
      PROVE  /\ Migrated(d, e, w) /\ e.oldMarks = {} /\ e.legacy \subseteq e.people /\ e.flags = d.flags \cup {"identity"}
  <2>1. \A S \in SUBSET Nat : Moved(S, keep) \in SUBSET Nat
    BY StartupAssumption DEF Moved
  <2> DEFINE m == Merged(d, keep)
             owner == IF d.owner \in Twins THEN keep ELSE d.owner
  <2>a. owner \in Nat /\ d.legacy \ (Twins \ {keep}) \in SUBSET Twins
    BY StartupAssumption DEF DbType
  <2>b. /\ m \in DbType /\ m.oldMarks = d.oldMarks /\ m.legacy = d.legacy \ (Twins \ {keep})
        /\ m.people = Moved(d.people, keep) /\ m.marks = Moved(d.marks, keep) /\ m.notes = Moved(d.notes, keep)
        /\ m.rows = Moved(d.rows, keep) /\ m.setting = d.setting /\ m.flags = d.flags /\ m.retired = d.retired
        /\ m.auto = d.auto /\ m.future = d.future /\ m.owner = owner /\ m.link = d.link
        /\ m.installed = d.installed /\ m.pending = d.pending
    <3> DEFINE m1 == [d EXCEPT !.rows = Moved(@, keep), !.marks = Moved(@, keep), !.local = Moved(@, keep), !.scene = Moved(@, keep)]
               legacy == d.legacy \ (Twins \ {keep})
    <3>1. /\ m1 \in DbType /\ m1.oldMarks = d.oldMarks /\ m1.legacy = d.legacy /\ m1.people = d.people
          /\ m1.marks = Moved(d.marks, keep) /\ m1.notes = d.notes /\ m1.rows = Moved(d.rows, keep) /\ m1.setting = d.setting
          /\ m1.flags = d.flags /\ m1.retired = d.retired /\ m1.auto = d.auto /\ m1.future = d.future /\ m1.owner = d.owner
          /\ m1.link = d.link /\ m1.installed = d.installed /\ m1.pending = d.pending
      BY <2>1 DEF DbType
    <3>2. m = [m1 EXCEPT !.notes = Moved(d.notes, keep), !.people = Moved(d.people, keep), !.legacy = legacy, !.owner = owner]
      BY DEF Merged, DbType
    <3>3. Moved(d.notes, keep) \in SUBSET Nat /\ Moved(d.people, keep) \in SUBSET Nat /\ legacy \in SUBSET Twins /\ owner \in Nat
      BY <2>1, <2>a DEF DbType
    <3> DEFINE m2 == [m1 EXCEPT !.notes = Moved(d.notes, keep), !.people = Moved(d.people, keep)]
    <3>5. m = [m2 EXCEPT !.legacy = legacy, !.owner = owner]
      BY <3>2
    <3> HIDE DEF m, m1, owner, legacy
    <3>6. /\ m2 \in DbType /\ m2.oldMarks = m1.oldMarks /\ m2.people = Moved(d.people, keep) /\ m2.marks = m1.marks
          /\ m2.notes = Moved(d.notes, keep) /\ m2.rows = m1.rows /\ m2.setting = m1.setting /\ m2.flags = m1.flags
          /\ m2.retired = m1.retired /\ m2.auto = m1.auto /\ m2.future = m1.future /\ m2.link = m1.link
          /\ m2.installed = m1.installed /\ m2.pending = m1.pending
      BY <3>1, <3>3 DEF DbType
    <3> HIDE DEF m2
    <3>4. /\ m \in DbType /\ m.oldMarks = m1.oldMarks /\ m.legacy = legacy
          /\ m.people = Moved(d.people, keep) /\ m.marks = m1.marks /\ m.notes = Moved(d.notes, keep)
          /\ m.rows = m1.rows /\ m.setting = m1.setting /\ m.flags = m1.flags /\ m.retired = m1.retired
          /\ m.auto = m1.auto /\ m.future = m1.future /\ m.owner = owner /\ m.link = m1.link
          /\ m.installed = m1.installed /\ m.pending = m1.pending
      <4>1. m \in DbType
        BY <3>3, <3>5, <3>6 DEF DbType
      <4>2. m.legacy = legacy /\ m.owner = owner
        BY <3>5, <3>6 DEF DbType
      <4> QED  BY <3>5, <3>6, <4>1, <4>2 DEF DbType
    <3> QED  BY <3>1, <3>4 DEF legacy
  <2> HIDE DEF m
  <2>c. e = [m EXCEPT !.flags = m.flags \cup {"identity"}] /\ "identity" \in Flags
    BY <1>4, <2>b DEF m, Flags
  <2>d. e \in DbType /\ Same(m, e) /\ e.flags = m.flags \cup {"identity"}
    BY <2>b, <2>c, FlagIsAdded
  <2>2. /\ e \in DbType /\ e.oldMarks = d.oldMarks /\ e.legacy = d.legacy \ (Twins \ {keep})
        /\ e.people = Moved(d.people, keep) /\ e.marks = Moved(d.marks, keep) /\ e.notes = Moved(d.notes, keep)
        /\ e.rows = Moved(d.rows, keep)
        /\ e.setting = d.setting /\ e.flags = d.flags \cup {"identity"} /\ e.retired = d.retired
        /\ e.auto = d.auto /\ e.future = d.future
        /\ e.owner = (IF d.owner \in Twins THEN keep ELSE d.owner) /\ e.link = d.link
        /\ e.installed = d.installed /\ e.pending = d.pending
    BY <2>b, <2>d DEF Same
  <2>3. e.legacy \subseteq e.people
    BY <2>2, MovedFacts DEF DbType
  <2>4. CastKept(e, w)
    <3>1. w.people => d.people \cap Twins # {}
      BY DEF Carries, CastKept
    <3>2. d.people \cap Twins # {} => keep \in e.people
      BY <2>2, MovedFacts
    <3> QED  BY <3>1, <3>2 DEF CastKept
  <2>5. MarkKept(e, w) /\ SettingKept(e, w) /\ AutoKept(e, w)
    <3>1. e.marks \cup e.oldMarks # {} <=> d.marks \cup d.oldMarks # {}
      BY <2>2, MovedFacts
    <3> QED  BY <2>2, <3>1 DEF Carries, MarkKept, SettingKept, AutoKept
  <2>6. ClearedKept(e, w)
    BY <2>2, MovedFacts DEF Carries, ClearedKept
  <2>7. OwnerKept(e, w)
    <3>1. keep \in e.rows \cap Twins
      BY <2>2, MovedFacts
    <3>2. CASE w.owned
      BY <2>2, <3>1, <3>2 DEF Carries, OwnerKept
    <3>3. CASE ~w.owned
      <4>1. d.owner = 0 /\ 0 \notin Twins
        BY <3>3, StartupAssumption DEF Carries, OwnerKept
      <4> QED  BY <2>2, <3>3, <4>1 DEF OwnerKept
    <3> QED  BY <3>2, <3>3
  <2>8. RowsSound(e)
    <3>a. RowsSound(d) /\ keep \in Twins /\ GigaRow \notin Twins
      BY StartupAssumption DEF Carries
    <3>b. keep \in e.rows /\ e.rows \subseteq (d.rows \ Twins) \cup {keep} /\ d.rows \ Twins \subseteq e.rows
      BY <2>2, MovedFacts
    <3>1. e.rows \subseteq Twins \cup {GigaRow} /\ e.rows \cap Twins = {keep}
      BY <3>a, <3>b DEF RowsSound
    <3>2. e.marks \cup e.oldMarks \subseteq e.rows \cap Twins
      <4>1. d.marks \subseteq d.rows \cap Twins /\ e.oldMarks = {}
        BY <2>2, <3>a DEF RowsSound
      <4>2. Moved(d.marks, keep) \subseteq Moved(d.rows, keep) \cap Twins
        BY <4>1, MovedFacts
      <4> QED  BY <2>2, <4>1, <4>2
    <3>3. GigaRow \in d.rows <=> GigaRow \in e.rows
      BY <3>a, <3>b
    <3>4. e.link # 0 => e.link = GigaRow /\ GigaRow \in e.rows
      BY <2>2, <3>3, <3>a DEF RowsSound
    <3>5. "giga" \in e.flags => GigaRow \notin e.rows
      <4>1. "giga" \in e.flags => "giga" \in d.flags
        BY <2>2
      <4> QED  BY <4>1, <3>3, <3>a DEF RowsSound
    <3>6. ("identity" \in e.flags => \A r, q \in e.rows \cap Twins : r = q) /\ (e.oldMarks # {} => e.retired)
      BY <2>2, <3>1
    <3> QED  BY <3>1, <3>2, <3>4, <3>5, <3>6 DEF RowsSound
  <2> QED  BY <2>2, <2>3, <2>4, <2>5, <2>6, <2>7, <2>8 DEF Carries, Migrated
<1> QED  BY <1>1, <1>2, <1>3, <1>4

LEMMA GigaStep ==
  ASSUME NEW d \in DbType, NEW w \in WishType, Carries(d, w), NEW e \in After("giga", d)
  PROVE  /\ Migrated(d, e, w) /\ e.oldMarks = d.oldMarks /\ e.marks = d.marks /\ e.legacy = d.legacy
         /\ e.flags = d.flags \cup {"giga"}
         /\ d.legacy \subseteq d.people => e.legacy \subseteq e.people
<1> DEFINE g == [d EXCEPT !.link = IF @ = GigaRow THEN 0 ELSE @, !.owner = IF @ = GigaRow THEN 0 ELSE @,
                          !.rows = @ \ {GigaRow}, !.marks = @ \ {GigaRow}, !.local = @ \ {GigaRow},
                          !.scene = @ \ {GigaRow}, !.notes = @ \ {GigaRow}, !.people = @ \ {GigaRow}]
<1>1. \/ "giga" \in d.flags /\ e = d
      \/ e = [g EXCEPT !.flags = d.flags \cup {"giga"}]
  <2>1. g.flags = d.flags
    BY DEF DbType
  <2>2. e \in Once("giga", d, {g})
    BY DEF After, RemoveGigaReleases
  <2> HIDE DEF g
  <2> QED  BY <2>1, <2>2 DEF Once
<1>2. CASE "giga" \in d.flags /\ e = d
  BY <1>2 DEF Migrated, DbType
<1>3. CASE e = [g EXCEPT !.flags = d.flags \cup {"giga"}]
  <2> DEFINE owner == IF d.owner = GigaRow THEN 0 ELSE d.owner
             link == IF d.link = GigaRow THEN 0 ELSE d.link
  <2>a. owner \in Nat /\ link \in Nat
    BY DEF DbType
  <2>b. /\ g \in DbType /\ g.oldMarks = d.oldMarks /\ g.legacy = d.legacy /\ g.people = d.people \ {GigaRow}
        /\ g.marks = d.marks \ {GigaRow} /\ g.notes = d.notes \ {GigaRow} /\ g.rows = d.rows \ {GigaRow}
        /\ g.setting = d.setting /\ g.flags = d.flags /\ g.retired = d.retired /\ g.auto = d.auto /\ g.future = d.future
        /\ g.owner = owner /\ g.link = link /\ g.installed = d.installed /\ g.pending = d.pending
    <3> DEFINE g1 == [d EXCEPT !.rows = @ \ {GigaRow}, !.marks = @ \ {GigaRow}, !.local = @ \ {GigaRow}, !.scene = @ \ {GigaRow}]
               notes == d.notes \ {GigaRow}
               people == d.people \ {GigaRow}
    <3>1. /\ g1 \in DbType /\ g1.oldMarks = d.oldMarks /\ g1.legacy = d.legacy /\ g1.people = d.people
          /\ g1.marks = d.marks \ {GigaRow} /\ g1.notes = d.notes /\ g1.rows = d.rows \ {GigaRow} /\ g1.setting = d.setting
          /\ g1.flags = d.flags /\ g1.retired = d.retired /\ g1.auto = d.auto /\ g1.future = d.future /\ g1.owner = d.owner
          /\ g1.link = d.link /\ g1.installed = d.installed /\ g1.pending = d.pending
      BY DEF DbType
    <3>2. g = [g1 EXCEPT !.notes = notes, !.people = people, !.link = link, !.owner = owner]
      BY DEF DbType
    <3>3. notes \in SUBSET Nat /\ people \in SUBSET Nat
      BY DEF DbType
    <3> DEFINE g2 == [g1 EXCEPT !.notes = notes, !.people = people]
    <3>5. g = [g2 EXCEPT !.link = link, !.owner = owner]
      BY <3>2
    <3> HIDE DEF g, g1, notes, people, owner, link
    <3>6. /\ g2 \in DbType /\ g2.oldMarks = g1.oldMarks /\ g2.legacy = g1.legacy /\ g2.people = people
          /\ g2.marks = g1.marks /\ g2.notes = notes /\ g2.rows = g1.rows
          /\ g2.setting = g1.setting /\ g2.flags = g1.flags /\ g2.retired = g1.retired /\ g2.auto = g1.auto
          /\ g2.future = g1.future /\ g2.installed = g1.installed /\ g2.pending = g1.pending
      BY <3>1, <3>3 DEF DbType
    <3> HIDE DEF g2
    <3>4. /\ g \in DbType /\ g.oldMarks = g1.oldMarks /\ g.legacy = g1.legacy /\ g.people = people
          /\ g.marks = g1.marks /\ g.notes = notes /\ g.rows = g1.rows
          /\ g.setting = g1.setting /\ g.flags = g1.flags /\ g.retired = g1.retired /\ g.auto = g1.auto /\ g.future = g1.future
          /\ g.owner = owner /\ g.link = link /\ g.installed = g1.installed /\ g.pending = g1.pending
      <4>1. g \in DbType
        BY <2>a, <3>5, <3>6 DEF DbType
      <4>2. g.link = link /\ g.owner = owner
        BY <3>5, <3>6 DEF DbType
      <4> QED  BY <3>5, <3>6, <4>1, <4>2 DEF DbType
    <3> QED  BY <3>1, <3>4 DEF notes, people
  <2> HIDE DEF g
  <2>c. e = [g EXCEPT !.flags = g.flags \cup {"giga"}] /\ "giga" \in Flags
    BY <1>3, <2>b DEF Flags
  <2>d. e \in DbType /\ Same(g, e) /\ e.flags = g.flags \cup {"giga"}
    BY <2>b, <2>c, FlagIsAdded
  <2>1. /\ e \in DbType /\ e.oldMarks = d.oldMarks /\ e.legacy = d.legacy /\ e.people = d.people \ {GigaRow}
        /\ e.marks = d.marks \ {GigaRow} /\ e.notes = d.notes \ {GigaRow} /\ e.rows = d.rows \ {GigaRow}
        /\ e.setting = d.setting /\ e.flags = d.flags \cup {"giga"} /\ e.retired = d.retired
        /\ e.auto = d.auto /\ e.future = d.future
        /\ e.owner = (IF d.owner = GigaRow THEN 0 ELSE d.owner) /\ e.link = (IF d.link = GigaRow THEN 0 ELSE d.link)
        /\ e.installed = d.installed /\ e.pending = d.pending
    BY <2>b, <2>d DEF Same
  <2>2. GigaRow \notin d.marks \cup d.oldMarks /\ GigaRow \notin d.legacy /\ d.owner # GigaRow
    <3>1. RowsSound(d) /\ OwnerKept(d, w) /\ GigaRow \notin Twins /\ GigaRow # 0
      BY StartupAssumption DEF Carries
    <3>2. GigaRow \notin d.marks \cup d.oldMarks
      BY <3>1 DEF RowsSound
    <3>3. GigaRow \notin d.legacy
      BY <3>1 DEF DbType
    <3>4. d.owner # GigaRow
      BY <3>1 DEF OwnerKept
    <3> QED  BY <3>2, <3>3, <3>4
  <2>3. MarkKept(e, w) /\ SettingKept(e, w) /\ AutoKept(e, w) /\ ClearedKept(e, w)
    BY <2>1, <2>2 DEF Carries, MarkKept, SettingKept, AutoKept, ClearedKept
  <2>4. CastKept(e, w) /\ OwnerKept(e, w)
    BY <2>1, <2>2, StartupAssumption DEF Carries, CastKept, OwnerKept
  <2>5. RowsSound(e)
    BY <2>1, <2>2, StartupAssumption DEF Carries, RowsSound
  <2> QED  BY <2>1, <2>2, <2>3, <2>4, <2>5 DEF Carries, Migrated
<1> QED  BY <1>1, <1>2, <1>3

\* A step of the migrations carries what it found and adds its own part.
LEMMA StepReaches ==
  ASSUME engine \in {"sqlite", "postgres"}, NEW d \in DbType, NEW w \in WishType, Carries(d, w),
         NEW i \in 1..15, Reached(d, i - 1), NEW e \in After(Steps[i], d)
  PROVE  Migrated(d, e, w) /\ Reached(e, i)
<1>1. CopyAt \in {2, 3}
  BY StepAtPosition
<1>2. CASE Steps[i] \in Neutral /\ i \notin {CopyAt, CopyAt + 1, 5, 7, 8, 9, 11, 12}
  <2>1. Migrated(d, e, w) /\ Same(d, e) /\ d.flags \subseteq e.flags
    BY <1>2, NeutralStep
  <2> QED  BY <1>1, <1>2, <2>1 DEF Reached, Same
<1>3. CASE i = CopyAt /\ Steps[i] = "copy"
  <2>1. Migrated(d, e, w) /\ e.oldMarks \subseteq e.marks
    BY <1>3, CopyStep
  <2> QED  BY <1>1, <1>3, <2>1 DEF Reached
<1>4. CASE i = CopyAt + 1 /\ Steps[i] = "drop"
  <2>1. Migrated(d, e, w) /\ e.oldMarks = {}
    BY <1>1, <1>4, DropStep DEF Reached
  <2> QED  BY <1>1, <1>4, <2>1 DEF Reached
<1>5. CASE i = 5 /\ Steps[i] = "redesign"
  <2>1. Migrated(d, e, w) /\ e.oldMarks = d.oldMarks /\ e.flags = d.flags \cup {"redesign"}
    BY <1>5, RedesignStep
  <2> QED  BY <1>1, <1>5, <2>1 DEF Reached
<1>6. CASE i = 6 /\ Steps[i] = "text"
  <2>1. Migrated(d, e, w) /\ e.oldMarks = d.oldMarks /\ d.flags \subseteq e.flags
    BY <1>6, CastSteps
  <2> QED  BY <1>1, <1>6, <2>1 DEF Reached
<1>7. CASE i = 7 /\ Steps[i] = "metadata"
  <2>1. Migrated(d, e, w) /\ e.oldMarks = d.oldMarks /\ d.flags \subseteq e.flags /\ e.legacy \subseteq e.people
    BY <1>7, CastSteps
  <2> QED  BY <1>1, <1>7, <2>1 DEF Reached
<1>8. CASE i = 8 /\ Steps[i] = "identity"
  <2>1. d.legacy \subseteq d.people /\ d.oldMarks = {} /\ "redesign" \in d.flags
    BY <1>1, <1>8 DEF Reached
  <2>2. Migrated(d, e, w) /\ e.oldMarks = {} /\ e.legacy \subseteq e.people /\ e.flags = d.flags \cup {"identity"}
    BY <1>8, <2>1, IdentityStep
  <2> QED  BY <1>1, <1>8, <2>1, <2>2 DEF Reached
<1>9. CASE i = 9 /\ Steps[i] = "columns"
  <2>1. d.oldMarks = {} /\ {"redesign", "identity"} \subseteq d.flags
    BY <1>1, <1>9 DEF Reached
  <2>2. Migrated(d, e, w) /\ e.oldMarks = d.oldMarks /\ e.legacy = {} /\ e.flags = d.flags
    BY <1>9, ColumnsStep
  <2> QED  BY <1>1, <1>9, <2>1, <2>2 DEF Reached
<1>10. CASE i = 11 /\ Steps[i] = "giga"
  <2>1. d.oldMarks = {} /\ {"redesign", "identity"} \subseteq d.flags /\ d.legacy = {}
    BY <1>1, <1>10 DEF Reached
  <2>2. Migrated(d, e, w) /\ e.oldMarks = d.oldMarks /\ e.legacy = d.legacy /\ e.flags = d.flags \cup {"giga"}
    BY <1>10, GigaStep
  <2> QED  BY <1>1, <1>10, <2>1, <2>2 DEF Reached
<1>11. CASE i = 12 /\ Steps[i] = "notes"
  <2>1. d.oldMarks = {} /\ {"redesign", "identity", "giga"} \subseteq d.flags /\ d.legacy = {}
    BY <1>1, <1>11 DEF Reached
  <2>2. Migrated(d, e, w) /\ e.oldMarks = d.oldMarks /\ e.legacy = d.legacy /\ e.flags = d.flags \cup {"notes"}
    BY <1>11, NotesStep
  <2> QED  BY <1>1, <1>11, <2>1, <2>2 DEF Reached
<1> QED  BY <1>2, <1>3, <1>4, <1>5, <1>6, <1>7, <1>8, <1>9, <1>10, <1>11, StepAtPosition

-----------------------------------------------------------------------------
\* The databases a start may find.
LEMMA OldestDb ==
  ASSUME NEW d \in FirstDbs
  PROVE  /\ d \in DbType /\ d.retired /\ d.rows = Twins /\ d.oldMarks \subseteq Twins /\ d.marks = {} /\ d.owner \in Twins
         /\ d.auto = FALSE /\ d.legacy = Twins /\ d.people = {} /\ d.link = 0 /\ d.flags = {} /\ d.pending = <<0, 0>>
<1>1. PICK old \in [marked : {{}} \cup {{r} : r \in Twins}, local : {{}, Twins}, owner : Twins, future : BOOLEAN] :
        d = FirstDb(old)
  BY DEF FirstDbs
<1>2. NewDb \in DbType
  BY DEF NewDb, DbType
<1>3. NewDb.marks = {} /\ NewDb.auto = FALSE /\ NewDb.people = {} /\ NewDb.link = 0 /\ NewDb.flags = {} /\ NewDb.pending = <<0, 0>>
  BY DEF NewDb
<1>4. /\ old.marked \in SUBSET Nat /\ old.marked \subseteq Twins /\ old.local \in SUBSET Nat /\ old.owner \in Twins
      /\ old.owner \in Nat /\ Twins \in SUBSET Nat /\ old.future \in BOOLEAN
  <2>1. Twins \in SUBSET Nat
    BY StartupAssumption
  <2>2. old.marked \in SUBSET Twins /\ old.local \in SUBSET Twins /\ old.owner \in Twins
    BY <1>1
  <2> QED  BY <1>1, <2>1, <2>2
<1>5. /\ d \in DbType /\ d.retired = TRUE /\ d.rows = Twins /\ d.oldMarks = old.marked /\ d.owner = old.owner /\ d.legacy = Twins
      /\ d.marks = NewDb.marks /\ d.auto = NewDb.auto /\ d.people = NewDb.people /\ d.link = NewDb.link
      /\ d.flags = NewDb.flags /\ d.pending = NewDb.pending
  <2> DEFINE half == [NewDb EXCEPT !.retired = TRUE, !.rows = Twins, !.oldMarks = old.marked,
                                   !.local = old.local, !.scene = old.local]
  <2>1. d = [half EXCEPT !.owner = old.owner, !.future = old.future, !.anchored = TRUE,
                         !.legacy = Twins, !.user = "own", !.seeded = TRUE]
    BY <1>1 DEF FirstDb
  <2>2. half \in DbType
    BY <1>2, <1>4 DEF DbType
  <2>3. /\ half.retired = TRUE /\ half.rows = Twins /\ half.oldMarks = old.marked
        /\ half.marks = NewDb.marks /\ half.auto = NewDb.auto /\ half.people = NewDb.people
        /\ half.link = NewDb.link /\ half.flags = NewDb.flags /\ half.pending = NewDb.pending
    BY <1>2 DEF DbType
  <2> HIDE DEF half
  <2>4. d \in DbType
    BY <1>4, <2>1, <2>2 DEF DbType
  <2>5. d.owner = old.owner /\ d.legacy = Twins
    BY <2>1, <2>2 DEF DbType
  <2>6. /\ d.retired = half.retired /\ d.rows = half.rows /\ d.oldMarks = half.oldMarks
        /\ d.marks = half.marks /\ d.auto = half.auto /\ d.people = half.people
        /\ d.link = half.link /\ d.flags = half.flags /\ d.pending = half.pending
    BY <2>1, <2>2 DEF DbType
  <2> QED  BY <2>3, <2>4, <2>5, <2>6
<1> QED  BY <1>3, <1>4, <1>5

LEMMA LatestDb ==
  ASSUME NEW d \in LaterDbs
  PROVE  /\ d \in DbType
         /\ \E r \in Twins : /\ d.rows = {r, GigaRow} /\ d.oldMarks = {} /\ d.marks = {r} /\ d.owner = r
                            /\ d.people = {r, GigaRow} /\ d.future = FALSE /\ d.auto = FALSE /\ d.legacy = {}
                            /\ d.link = GigaRow /\ "giga" \notin d.flags /\ d.pending = <<0, 0>>
<1>1. PICK r \in Twins :
        d = [NewDb EXCEPT !.schema = TRUE, !.flags = Flags \ {"giga"}, !.people = {r, GigaRow}, !.rows = {r, GigaRow},
                          !.marks = {r}, !.owner = r, !.link = GigaRow, !.key = TRUE, !.user = "own", !.seeded = TRUE]
  BY DEF LaterDbs
<1>2. NewDb \in DbType
  BY DEF NewDb, DbType
<1>3. NewDb.oldMarks = {} /\ NewDb.auto = FALSE /\ NewDb.future = FALSE /\ NewDb.legacy = {} /\ NewDb.pending = <<0, 0>>
  BY DEF NewDb
<1>4. {r} \in SUBSET Nat /\ {r, GigaRow} \in SUBSET Nat /\ r \in Nat /\ GigaRow \in Nat /\ Flags \ {"giga"} \in SUBSET Flags
  BY StartupAssumption
<1>5. /\ d \in DbType /\ d.rows = {r, GigaRow} /\ d.marks = {r} /\ d.owner = r /\ d.people = {r, GigaRow}
      /\ d.link = GigaRow /\ d.flags = Flags \ {"giga"} /\ d.oldMarks = NewDb.oldMarks /\ d.auto = NewDb.auto
      /\ d.future = NewDb.future /\ d.legacy = NewDb.legacy /\ d.pending = NewDb.pending
  <2> DEFINE half == [NewDb EXCEPT !.schema = TRUE, !.flags = Flags \ {"giga"}, !.people = {r, GigaRow},
                                   !.rows = {r, GigaRow}, !.marks = {r}]
  <2>1. d = [half EXCEPT !.owner = r, !.link = GigaRow, !.key = TRUE, !.user = "own", !.seeded = TRUE]
    BY <1>1
  <2>2. half \in DbType
    BY <1>2, <1>4 DEF DbType
  <2>3. /\ half.rows = {r, GigaRow} /\ half.marks = {r} /\ half.people = {r, GigaRow}
        /\ half.flags = Flags \ {"giga"} /\ half.oldMarks = NewDb.oldMarks /\ half.auto = NewDb.auto
        /\ half.future = NewDb.future /\ half.legacy = NewDb.legacy /\ half.pending = NewDb.pending
    BY <1>2 DEF DbType
  <2> HIDE DEF half
  <2>4. d \in DbType
    BY <1>4, <2>1, <2>2 DEF DbType
  <2>5. d.owner = r /\ d.link = GigaRow
    BY <2>1, <2>2 DEF DbType
  <2>6. /\ d.rows = half.rows /\ d.marks = half.marks /\ d.people = half.people
        /\ d.flags = half.flags /\ d.oldMarks = half.oldMarks /\ d.auto = half.auto
        /\ d.future = half.future /\ d.legacy = half.legacy /\ d.pending = half.pending
    BY <2>1, <2>2 DEF DbType
  <2> QED  BY <2>3, <2>4, <2>5, <2>6
<1> QED  BY <1>3, <1>5

\* The start of the process.
LEMMA BootInvInit ==
  BootInit => BootInv
<1> SUFFICES ASSUME BootInit  PROVE BootInv
  OBVIOUS
<1>1. BootShapes /\ Progress
  <2>1. boot \in BootType /\ boot.pc = "down" /\ boot.saving = FALSE /\ used \in [edits : Nat, deaths : Nat, outages : Nat]
    BY DEF BootInit, Down, BootType, Pcs, Pages
  <2>2. NewDb \in DbType
    BY DEF NewDb, DbType
  <2>5. db \in DbType
    BY <2>2, OldestDb, LatestDb DEF BootInit
  <2>6. wish \in WishType
    BY <2>5 DEF BootInit, WishType, DbType
  <2> QED  BY <2>1, <2>5, <2>6 DEF BootInit, BootShapes, Progress, Started
<1>2. db.pending = <<0, 0>>
  <2>1. NewDb.pending = <<0, 0>>
    BY DEF NewDb
  <2> QED  BY <2>1, OldestDb, LatestDb DEF BootInit
<1>3. Carries(db, wish)
  <2>1. wish = [mark |-> db.marks \cup db.oldMarks # {}, auto |-> db.auto \/ db.future,
                people |-> db.legacy \cup db.people # {}, setting |-> FALSE, cleared |-> FALSE, owned |-> db.owner # 0]
    BY DEF BootInit
  <2>2. SettingKept(db, wish) /\ ClearedKept(db, wish) /\ MarkKept(db, wish)
    BY <2>1 DEF SettingKept, ClearedKept, MarkKept
  <2>3. CASE db = NewDb
    BY <2>1, <2>2, <2>3 DEF Carries, AutoKept, CastKept, OwnerKept, RowsSound, NewDb
  <2>4. CASE db \in FirstDbs
    <3>1. /\ db.retired /\ db.rows = Twins /\ db.oldMarks \subseteq Twins /\ db.marks = {} /\ db.owner \in Twins
          /\ db.auto = FALSE /\ db.legacy = Twins /\ db.people = {} /\ db.link = 0 /\ db.flags = {} /\ db \in DbType
      BY <2>4, OldestDb
    <3>2. AutoKept(db, wish) /\ CastKept(db, wish)
      BY <2>1, <3>1, StartupAssumption DEF AutoKept, CastKept
    <3>3. OwnerKept(db, wish) /\ RowsSound(db)
      BY <2>1, <3>1, StartupAssumption DEF OwnerKept, RowsSound
    <3> QED  BY <2>2, <3>2, <3>3 DEF Carries
  <2>5. CASE db \in LaterDbs
    <3>1. PICK r \in Twins : /\ db.rows = {r, GigaRow} /\ db.oldMarks = {} /\ db.marks = {r} /\ db.owner = r
                             /\ db.people = {r, GigaRow} /\ db.future = FALSE /\ db.auto = FALSE /\ db.legacy = {}
                             /\ db.link = GigaRow /\ "giga" \notin db.flags
      BY <2>5, LatestDb
    <3>2. AutoKept(db, wish) /\ CastKept(db, wish)
      BY <2>1, <3>1, StartupAssumption DEF AutoKept, CastKept
    <3>3. OwnerKept(db, wish) /\ RowsSound(db)
      BY <2>1, <3>1, StartupAssumption DEF OwnerKept, RowsSound
    <3> QED  BY <2>2, <3>2, <3>3 DEF Carries
  <2> QED  BY <2>3, <2>4, <2>5 DEF BootInit
<1> QED  BY <1>1, <1>2, <1>3 DEF BootInv, PendingIsCurrent

-----------------------------------------------------------------------------
\* Steps that change neither the database nor what was asked for, and leave the
\* process no further than it was.
LEMMA ProcessMoves ==
  ASSUME BootInv, boot' \in BootType, UNCHANGED <<engine, db, wish>>, version' \in Nat, retryNow' \in BOOLEAN,
         reach' \in BOOLEAN, used' \in [edits : Nat, deaths : Nat, outages : Nat],
         boot'.pc = "open" => boot'.at = 1,
         boot'.pc \in Started => Reached(db, 15), boot'.saving => boot'.pc = "running"
  PROVE  BootInv'
<1>1. BootShapes' /\ Carries(db, wish)'
  BY DEF BootInv, BootShapes, Carries, MarkKept, AutoKept, SettingKept, CastKept, ClearedKept,
         OwnerKept, RowsSound
<1>2. Reached(db, 0)
  <2>1. CopyAt \in {2, 3}
    BY DEF CopyAt
  <2> QED  BY <2>1 DEF Reached
<1>3. Progress'
  BY <1>2 DEF Progress, Reached, CopyAt
<1> QED  BY <1>1, <1>3 DEF BootInv, PendingIsCurrent

LEMMA ProcessStands ==
  ASSUME BootInv, UNCHANGED <<engine, db, wish, boot>>, version' \in Nat, retryNow' \in BOOLEAN,
         reach' \in BOOLEAN, used' \in [edits : Nat, deaths : Nat, outages : Nat]
  PROVE  BootInv'
<1>1. BootShapes' /\ Carries(db, wish)'
  BY DEF BootInv, BootShapes, Carries, MarkKept, AutoKept, SettingKept, CastKept, ClearedKept,
         OwnerKept, RowsSound
<1>2. Progress'
  BY DEF BootInv, Progress, Reached, CopyAt
<1> QED  BY <1>1, <1>2 DEF BootInv, PendingIsCurrent

LEMMA EnvironmentKeeps ==
  ASSUME BootInv, Outage \/ Answers \/ (\E v \in 1..MaxVersion : Install(v)) \/ RequestRetry
  PROVE  BootInv'
<1>1. UNCHANGED <<engine, db, wish, boot>>
  BY DEF Outage, Answers, Install, RequestRetry
<1>2. /\ version' \in Nat /\ retryNow' \in BOOLEAN /\ reach' \in BOOLEAN
      /\ used' \in [edits : Nat, deaths : Nat, outages : Nat]
  <2>1. version \in Nat /\ retryNow \in BOOLEAN /\ reach \in BOOLEAN /\ used \in [edits : Nat, deaths : Nat, outages : Nat]
    BY DEF BootInv, BootShapes
  <2>2. [used EXCEPT !.outages = @ + 1] \in [edits : Nat, deaths : Nat, outages : Nat]
    BY <2>1
  <2>3. [used EXCEPT !.edits = @ + 1] \in [edits : Nat, deaths : Nat, outages : Nat]
    BY <2>1
  <2>4. CASE Outage
    BY <2>1, <2>2, <2>4 DEF Outage
  <2>5. CASE Answers \/ RequestRetry
    BY <2>1, <2>5 DEF Answers, RequestRetry
  <2>6. CASE \E v \in 1..MaxVersion : Install(v)
    <3>1. MaxVersion \in Nat
      BY StartupAssumption
    <3>2. version' \in 1..MaxVersion /\ UNCHANGED <<retryNow, reach>> /\ used' = [used EXCEPT !.edits = @ + 1]
      BY <2>6 DEF Install
    <3> QED  BY <2>1, <2>3, <3>1, <3>2
  <2> QED  BY <2>4, <2>5, <2>6
<1> QED  BY <1>1, <1>2, ProcessStands

LEMMA ProcessSteps ==
  ASSUME BootInv,
         \/ Start \/ Dies \/ StepFails \/ Opened \/ GraceRetry \/ EnterRecovery \/ RecoveryAttempt \/ Listen \/ ShowChangelog
  PROVE  BootInv'
<1>1. UNCHANGED <<engine, db, wish, version, reach>> /\ retryNow' \in BOOLEAN
  BY DEF Start, Dies, StepFails, Opened, GraceRetry, EnterRecovery, RecoveryAttempt,
         RecoveryWakes, Ticked, Clicked, Listen,
         ShowChangelog, BootInv, BootShapes
<1>2. used' \in [edits : Nat, deaths : Nat, outages : Nat]
  BY DEF Start, Dies, StepFails, Opened, GraceRetry, EnterRecovery, RecoveryAttempt, Listen,
         ShowChangelog, BootInv, BootShapes
<1>3. boot \in BootType /\ db \in DbType /\ (boot.saving => boot.pc = "running")
  BY DEF BootInv, BootShapes, Progress
<1>4. Down \in BootType /\ Down.pc = "down" /\ Down.saving = FALSE
  BY DEF Down, BootType, Pcs, Pages
<1>5. ASSUME boot' = Down  PROVE BootInv'
  BY <1>1, <1>2, <1>4, <1>5, ProcessMoves DEF BootInv, BootShapes, Started
<1>6. CASE Start
  <2>1. boot' = [Down EXCEPT !.pc = "open", !.page = "progress"]
    BY <1>6 DEF Start
  <2>2. boot' \in BootType /\ boot'.pc = "open" /\ boot'.at = 1 /\ boot'.saving = FALSE
    <3> DEFINE b == [Down EXCEPT !.pc = "open"]
    <3>1. b \in BootType /\ b.pc = "open" /\ b.at = 1 /\ b.saving = FALSE
      BY <1>4 DEF BootType, Pcs, Down
    <3>2. boot' = [b EXCEPT !.page = "progress"]
      BY <2>1
    <3> HIDE DEF b
    <3> QED  BY <3>1, <3>2 DEF BootType, Pages
  <2> QED  BY <1>1, <1>2, <2>2, ProcessMoves DEF BootInv, BootShapes, Started
<1>7. CASE Dies
  BY <1>5, <1>7 DEF Dies
<1>8. CASE StepFails
  <2>1. CASE boot' = Down
    BY <1>5, <2>1
  <2>2. CASE boot' = [boot EXCEPT !.pc = "failed"]
    <3>1. boot' \in BootType /\ boot'.pc = "failed" /\ boot'.saving = boot.saving /\ boot.pc = "open"
      BY <1>3, <1>8, <2>2 DEF StepFails, BootType, Pcs
    <3> QED  BY <1>1, <1>2, <1>3, <3>1, ProcessMoves DEF BootInv, BootShapes, Started
  <2> QED  BY <1>8, <2>1, <2>2 DEF StepFails
<1>9. CASE Opened
  <2>1. boot' = [boot EXCEPT !.pc = "track", !.at = 1] /\ boot.pc = "open" /\ boot.at > Len(Steps)
    BY <1>9 DEF Opened
  <2>2. boot' \in BootType /\ boot'.pc = "track" /\ boot'.saving = boot.saving
    <3> DEFINE b == [boot EXCEPT !.pc = "track"]
    <3>1. b \in BootType /\ b.pc = "track" /\ b.saving = boot.saving
      BY <1>3 DEF BootType, Pcs
    <3>2. boot' = [b EXCEPT !.at = 1]
      BY <2>1
    <3> HIDE DEF b
    <3> QED  BY <3>1, <3>2 DEF BootType
  <2>3. Len(Steps) = 15 /\ boot.at \in 1..16
    BY <1>3, StepNames DEF BootInv, BootShapes, BootType
  <2>4. boot.at - 1 = 15
    BY <2>1, <2>3
  <2>5. Reached(db, 15)
    BY <2>1, <2>4 DEF BootInv, Progress
  <2> QED  BY <1>1, <1>2, <1>3, <2>1, <2>2, <2>5, ProcessMoves DEF BootInv, BootShapes
<1>10. CASE GraceRetry \/ RecoveryAttempt
  <2>1. boot' = [boot EXCEPT !.pc = "open", !.at = 1] /\ boot.pc \in {"failed", "recovery"}
    BY <1>10 DEF GraceRetry, RecoveryAttempt
  <2>2. boot' \in BootType /\ boot'.pc = "open" /\ boot'.at = 1 /\ boot'.saving = boot.saving
    <3> DEFINE b == [boot EXCEPT !.pc = "open"]
    <3>1. b \in BootType /\ b.pc = "open" /\ b.saving = boot.saving
      BY <1>3 DEF BootType, Pcs
    <3>2. boot' = [b EXCEPT !.at = 1]
      BY <2>1
    <3> HIDE DEF b
    <3> QED  BY <3>1, <3>2 DEF BootType
  <2> QED  BY <1>1, <1>2, <1>3, <2>1, <2>2, ProcessMoves DEF BootInv, BootShapes, Started
<1>11. CASE EnterRecovery
  <2>1. boot' = [boot EXCEPT !.pc = "recovery", !.at = 1, !.page = "recovery"] /\ boot.pc = "failed"
    BY <1>11 DEF EnterRecovery
  <2>2. boot' \in BootType /\ boot'.pc = "recovery" /\ boot'.saving = boot.saving
    <3> DEFINE b == [boot EXCEPT !.pc = "recovery"]
               c == [b EXCEPT !.at = 1]
    <3>1. b \in BootType /\ b.pc = "recovery" /\ b.saving = boot.saving
      BY <1>3 DEF BootType, Pcs
    <3>2. boot' = [c EXCEPT !.page = "recovery"]
      BY <2>1
    <3> HIDE DEF b
    <3>3. c \in BootType /\ c.pc = "recovery" /\ c.saving = boot.saving
      BY <3>1 DEF BootType
    <3> HIDE DEF c
    <3> QED  BY <3>2, <3>3 DEF BootType, Pages
  <2> QED  BY <1>1, <1>2, <1>3, <2>1, <2>2, ProcessMoves DEF BootInv, BootShapes, Started
<1>12. CASE Listen
  <2>1. boot' = [boot EXCEPT !.pc = "running", !.page = "app"] /\ boot.pc = "listen"
    BY <1>12 DEF Listen
  <2>2. boot' \in BootType /\ boot'.pc = "running"
    BY <1>3, <2>1 DEF BootType, Pcs, Pages
  <2>3. Reached(db, 15)
    BY <2>1 DEF BootInv, Progress, Started
  <2> QED  BY <1>1, <1>2, <2>2, <2>3, ProcessMoves DEF BootInv, BootShapes, Started
<1>13. CASE ShowChangelog
  <2>1. boot' = [boot EXCEPT !.shown = db.pending] /\ boot.pc = "running"
    BY <1>13 DEF ShowChangelog
  <2>2. boot' \in BootType /\ boot'.pc = "running"
    BY <1>3, <2>1 DEF BootType, DbType
  <2>3. Reached(db, 15)
    BY <2>1 DEF BootInv, Progress, Started
  <2> QED  BY <1>1, <1>2, <2>2, <2>3, ProcessMoves DEF BootInv, BootShapes, Started
<1> QED  BY <1>6, <1>7, <1>8, <1>9, <1>10, <1>11, <1>12, <1>13

LEMMA MigrationKeeps ==
  ASSUME BootInv, MigrationStep
  PROVE  BootInv'
<1>1. /\ engine \in {"sqlite", "postgres"} /\ db \in DbType /\ wish \in WishType /\ Carries(db, wish) /\ boot \in BootType
      /\ PendingIsCurrent /\ Reached(db, boot.at - 1) /\ ~boot.saving
  BY DEF BootInv, BootShapes, MigrationStep, Progress
<1>2. /\ boot.pc = "open" /\ db' \in After(Steps[boot.at], db) /\ boot' = [boot EXCEPT !.at = boot.at + 1]
      /\ UNCHANGED <<engine, retryNow, reach, version, used, wish>> /\ boot.at <= 15
  BY <1>1, StepNames DEF MigrationStep
<1>3. boot.at \in 1..15
  BY <1>1, <1>2 DEF BootType
<1>4. Migrated(db, db', wish) /\ Reached(db', boot.at)
  <2> DEFINE d == db
             e == db'
             i == boot.at
             w == wish
  <2>1. /\ d \in DbType /\ w \in WishType /\ Carries(d, w) /\ i \in 1..15 /\ Reached(d, i - 1) /\ e \in After(Steps[i], d)
    BY <1>1, <1>2, <1>3
  <2> HIDE DEF d, e, i, w
  <2>2. Migrated(d, e, w) /\ Reached(e, i)
    BY <1>1, <2>1, StepReaches
  <2> QED  BY <2>2 DEF d, e, i, w
<1>5. boot' \in BootType /\ boot'.pc = "open" /\ boot'.at - 1 = boot.at /\ ~boot'.saving
  BY <1>1, <1>2, <1>3 DEF BootType
<1>6. BootShapes'
  BY <1>2, <1>4, <1>5 DEF BootInv, BootShapes, Migrated
<1>7. Carries(db, wish)'
  BY <1>2, <1>4
     DEF Migrated, Carries, MarkKept, AutoKept, SettingKept, CastKept, ClearedKept, OwnerKept,
         RowsSound
<1>8. Progress'
  BY <1>2, <1>4, <1>5 DEF Progress, Reached, CopyAt, Started
<1>9. PendingIsCurrent'
  BY <1>1, <1>4 DEF Migrated, PendingIsCurrent
<1> QED  BY <1>6, <1>7, <1>8, <1>9 DEF BootInv

-----------------------------------------------------------------------------
\* finishStartup: the version, the settings, the key and the user.
LEMMA FinishingKeeps ==
  ASSUME NEW d \in DbType, NEW w \in WishType, Carries(d, w), Reached(d, 15), NEW e \in DbType,
         e.marks = d.marks, e.oldMarks = d.oldMarks, e.retired = d.retired, e.auto = d.auto, e.future = d.future,
         e.people = d.people, e.legacy = d.legacy, e.notes = d.notes, e.rows = d.rows, e.owner = d.owner, e.link = d.link,
         e.flags = d.flags, d.setting = "own" => e.setting = "own"
  PROVE  Carries(e, w) /\ Reached(e, 15)
<1>1. MarkKept(e, w) /\ SettingKept(e, w) /\ CastKept(e, w) /\ AutoKept(e, w)
  BY DEF Carries, MarkKept, SettingKept, CastKept, AutoKept
<1>2. ClearedKept(e, w) /\ OwnerKept(e, w) /\ RowsSound(e)
  BY DEF Carries, ClearedKept, OwnerKept, RowsSound
<1>3. Reached(e, 15)
  BY DEF Reached
<1> QED  BY <1>1, <1>2, <1>3 DEF Carries

\* A started process that changes the database leaves it as it should be.
LEMMA StartedStep ==
  ASSUME BootInv, UNCHANGED <<engine, version>>, retryNow' \in BOOLEAN, reach' \in BOOLEAN,
         used' \in [edits : Nat, deaths : Nat, outages : Nat], boot' \in BootType,
         boot'.pc \in Started, boot'.saving => boot'.pc = "running",
         db' \in DbType, wish' \in WishType, Carries(db', wish'), Reached(db', 15), PendingIsCurrent'
  PROVE  BootInv'
<1>1. BootShapes'
  BY DEF BootInv, BootShapes
<1>2. Carries(db, wish)'
  BY DEF Carries, MarkKept, AutoKept, SettingKept, CastKept, ClearedKept, OwnerKept, RowsSound
<1>3. Progress'
  BY DEF Progress, Reached, CopyAt, Started
<1> QED  BY <1>1, <1>2, <1>3 DEF BootInv

\* What a started process is, and its database.
LEMMA StartedFacts ==
  ASSUME BootInv, boot.pc \in Started
  PROVE  /\ db \in DbType /\ wish \in WishType /\ boot \in BootType /\ Carries(db, wish) /\ Reached(db, 15)
         /\ PendingIsCurrent /\ version \in Nat /\ retryNow \in BOOLEAN /\ reach \in BOOLEAN
         /\ used \in [edits : Nat, deaths : Nat, outages : Nat] /\ (boot.saving => boot.pc = "running")
  BY DEF BootInv, BootShapes, Progress

LEMMA TrackKeeps ==
  ASSUME BootInv, Track
  PROVE  BootInv'
<1>1. boot.pc = "track" /\ boot.pc \in Started
  BY DEF Track, Started
<1>2. /\ db \in DbType /\ wish \in WishType /\ boot \in BootType /\ Carries(db, wish) /\ Reached(db, 15)
      /\ PendingIsCurrent /\ version \in Nat /\ boot.saving = FALSE
  BY <1>1, StartedFacts DEF BootType
<1> DEFINE fresh == db.user = "none"
           empty == NoSettings(db)
           from == IF db.installed = 0 THEN version - 1 ELSE db.installed
           to == IF from < version /\ from > 0 THEN <<from, version>> ELSE <<0, 0>>
           shown == IF db.installed = 0 /\ (fresh \/ from = 0) THEN db.pending ELSE to
<1>3. /\ boot' = [boot EXCEPT !.pc = "seed", !.fresh = fresh, !.empty = empty]
      /\ db' = IF db.installed = version THEN db ELSE [db EXCEPT !.installed = version, !.pending = shown]
      /\ UNCHANGED <<engine, retryNow, reach, version, used, wish>>
  BY DEF Track, Tracked
<1>4. boot' \in BootType /\ boot'.pc = "seed" /\ boot'.saving = FALSE
  <2>1. fresh \in BOOLEAN /\ empty \in BOOLEAN
    BY DEF NoSettings
  <2> DEFINE b1 == [boot EXCEPT !.pc = "seed"]
             b2 == [b1 EXCEPT !.fresh = fresh]
  <2>2. boot' = [b2 EXCEPT !.empty = empty]
    BY <1>3
  <2>3. b1 \in BootType /\ b1.pc = "seed" /\ b1.saving = FALSE
    BY <1>2 DEF BootType, Pcs
  <2> HIDE DEF b1, fresh, empty
  <2>4. b2 \in BootType /\ b2.pc = "seed" /\ b2.saving = FALSE
    BY <2>1, <2>3 DEF BootType
  <2> HIDE DEF b2
  <2> QED  BY <2>1, <2>2, <2>4 DEF BootType
<1>5. shown \in Nat \X Nat /\ (db.installed # version /\ shown # <<0, 0>> => shown[1] < shown[2] /\ shown[2] = version)
  <2>1. db.installed \in Nat /\ db.pending \in Nat \X Nat /\ version \in Nat
    BY <1>2 DEF DbType
  <2>2. CASE db.installed = 0 /\ (fresh \/ from = 0)
    <3>1. shown = db.pending
      BY <2>2
    <3>2. db.pending # <<0, 0>> => db.pending[1] < db.pending[2] /\ db.pending[2] = 0
      BY <1>2, <2>2 DEF PendingIsCurrent
    <3>3. db.pending[1] \in Nat
      BY <2>1
    <3> QED  BY <2>1, <3>1, <3>2, <3>3
  <2>3. CASE ~(db.installed = 0 /\ (fresh \/ from = 0))
    <3>1. shown = to
      BY <2>3
    <3>2. CASE from < version /\ from > 0
      <4>1. from \in Nat /\ to = <<from, version>>
        BY <2>1, <3>2
      <4> HIDE DEF from, to, shown
      <4> QED  BY <2>1, <3>1, <3>2, <4>1
    <3>3. CASE ~(from < version /\ from > 0)
      BY <3>1, <3>3
    <3> QED  BY <3>2, <3>3
  <2> QED  BY <2>2, <2>3
<1> HIDE DEF fresh, empty, from, to, shown
<1>6. /\ db' \in DbType /\ db'.marks = db.marks /\ db'.oldMarks = db.oldMarks /\ db'.retired = db.retired
      /\ db'.auto = db.auto /\ db'.future = db.future /\ db'.people = db.people /\ db'.legacy = db.legacy
      /\ db'.notes = db.notes /\ db'.rows = db.rows /\ db'.owner = db.owner /\ db'.link = db.link
      /\ db'.flags = db.flags /\ db'.setting = db.setting
  <2>1. CASE db.installed = version
    BY <1>2, <1>3, <2>1
  <2>2. CASE db.installed # version
    <3> DEFINE d1 == [db EXCEPT !.installed = version]
    <3>1. db' = [d1 EXCEPT !.pending = shown]
      BY <1>3, <2>2
    <3>2. /\ d1 \in DbType /\ d1.marks = db.marks /\ d1.oldMarks = db.oldMarks /\ d1.retired = db.retired
          /\ d1.auto = db.auto /\ d1.future = db.future /\ d1.people = db.people /\ d1.legacy = db.legacy
          /\ d1.notes = db.notes /\ d1.rows = db.rows /\ d1.owner = db.owner /\ d1.link = db.link
          /\ d1.flags = db.flags /\ d1.setting = db.setting
      BY <1>2 DEF DbType
    <3> HIDE DEF d1
    <3> QED  BY <1>5, <3>1, <3>2 DEF DbType
  <2> QED  BY <2>1, <2>2
<1>7. PendingIsCurrent'
  <2>1. CASE db.installed = version
    BY <1>2, <1>3, <2>1 DEF PendingIsCurrent
  <2>2. CASE db.installed # version
    <3>1. db'.installed = version /\ db'.pending = shown
      BY <1>2, <1>3, <2>2 DEF DbType
    <3> QED  BY <1>5, <2>2, <3>1 DEF PendingIsCurrent
  <2> QED  BY <2>1, <2>2
<1>8. Carries(db', wish) /\ Reached(db', 15)
  BY <1>2, <1>6, FinishingKeeps
<1> QED  BY <1>1, <1>2, <1>3, <1>4, <1>6, <1>7, <1>8, StartedStep, StartedFacts DEF Started

LEMMA SettingsKeep ==
  ASSUME BootInv, SeedSettings \/ ResolveApiKey
  PROVE  BootInv'
<1>1. boot.pc \in {"seed", "key"} /\ boot.pc \in Started
  BY DEF SeedSettings, ResolveApiKey, Started
<1>2. /\ db \in DbType /\ wish \in WishType /\ boot \in BootType /\ Carries(db, wish) /\ Reached(db, 15)
      /\ PendingIsCurrent /\ boot.saving = FALSE
  BY <1>1, StartedFacts DEF BootType
<1>3. UNCHANGED <<engine, retryNow, reach, version, used, wish>>
  BY DEF SeedSettings, ResolveApiKey
<1>4. boot' \in BootType /\ boot'.pc \in {"key", "user"} /\ boot'.saving = FALSE
  BY <1>2 DEF SeedSettings, ResolveApiKey, BootType, Pcs
<1>5. /\ db' \in DbType /\ db'.marks = db.marks /\ db'.oldMarks = db.oldMarks /\ db'.retired = db.retired
      /\ db'.auto = db.auto /\ db'.future = db.future /\ db'.people = db.people /\ db'.legacy = db.legacy
      /\ db'.notes = db.notes /\ db'.rows = db.rows /\ db'.owner = db.owner /\ db'.link = db.link
      /\ db'.flags = db.flags /\ (db.setting = "own" => db'.setting = "own")
      /\ db'.installed = db.installed /\ db'.pending = db.pending
  <2>1. CASE SeedSettings
    <3> DEFINE seeded == db.seeded \/ boot.empty
               setting == IF db.setting = "none" THEN "default" ELSE db.setting
               d1 == [db EXCEPT !.seeded = seeded]
    <3>1. db' = [d1 EXCEPT !.setting = setting]
      BY <2>1 DEF SeedSettings
    <3>2. seeded \in BOOLEAN /\ setting \in {"none", "default", "own"} /\ (db.setting = "own" => setting = "own")
      BY <1>2 DEF DbType, BootType
    <3> HIDE DEF seeded, setting
    <3>3. /\ d1 \in DbType /\ d1.marks = db.marks /\ d1.oldMarks = db.oldMarks /\ d1.retired = db.retired
          /\ d1.auto = db.auto /\ d1.future = db.future /\ d1.people = db.people /\ d1.legacy = db.legacy
          /\ d1.notes = db.notes /\ d1.rows = db.rows /\ d1.owner = db.owner /\ d1.link = db.link
          /\ d1.flags = db.flags /\ d1.installed = db.installed /\ d1.pending = db.pending
      BY <1>2, <3>2 DEF DbType
    <3> HIDE DEF d1
    <3> QED  BY <3>1, <3>2, <3>3 DEF DbType
  <2>2. CASE ResolveApiKey
    <3>1. db' = [db EXCEPT !.key = TRUE]
      BY <2>2 DEF ResolveApiKey
    <3> QED  BY <1>2, <3>1 DEF DbType
  <2> QED  BY <2>1, <2>2
<1>6. PendingIsCurrent'
  BY <1>2, <1>5 DEF PendingIsCurrent
<1>7. Carries(db', wish) /\ Reached(db', 15)
  BY <1>2, <1>5, FinishingKeeps
<1> QED  BY <1>1, <1>2, <1>3, <1>4, <1>5, <1>6, <1>7, StartedStep, StartedFacts DEF Started

LEMMA UserKeeps ==
  ASSUME BootInv, EnsureUser
  PROVE  BootInv'
<1>1. boot.pc = "user" /\ boot.pc \in Started
  BY DEF EnsureUser, Started
<1>2. /\ db \in DbType /\ wish \in WishType /\ boot \in BootType /\ Carries(db, wish) /\ Reached(db, 15)
      /\ PendingIsCurrent /\ boot.saving = FALSE /\ used \in [edits : Nat, deaths : Nat, outages : Nat]
  BY <1>1, StartedFacts DEF BootType
<1>3. /\ UNCHANGED <<engine, retryNow, reach, version, wish>>
      /\ db' = db \/ db' = [db EXCEPT !.user = "initial"]
      /\ used' = used \/ used' = [used EXCEPT !.outages = @ + 1]
      /\ boot' = [boot EXCEPT !.pc = "listen", !.page = "none"]
  BY DEF EnsureUser
<1>4. boot' \in BootType /\ boot'.pc = "listen" /\ boot'.saving = FALSE
  <2> DEFINE b == [boot EXCEPT !.pc = "listen"]
  <2>1. b \in BootType /\ b.pc = "listen" /\ b.saving = FALSE
    BY <1>2 DEF BootType, Pcs
  <2>2. boot' = [b EXCEPT !.page = "none"]
    BY <1>3
  <2> HIDE DEF b
  <2> QED  BY <2>1, <2>2 DEF BootType, Pages
<1>5. /\ db' \in DbType /\ db'.marks = db.marks /\ db'.oldMarks = db.oldMarks /\ db'.retired = db.retired
      /\ db'.auto = db.auto /\ db'.future = db.future /\ db'.people = db.people /\ db'.legacy = db.legacy
      /\ db'.notes = db.notes /\ db'.rows = db.rows /\ db'.owner = db.owner /\ db'.link = db.link
      /\ db'.flags = db.flags /\ db'.setting = db.setting
      /\ db'.installed = db.installed /\ db'.pending = db.pending
  BY <1>2, <1>3 DEF DbType
<1>6. PendingIsCurrent'
  BY <1>2, <1>5 DEF PendingIsCurrent
<1>7. Carries(db', wish) /\ Reached(db', 15)
  BY <1>2, <1>5, FinishingKeeps
<1>8. used' \in [edits : Nat, deaths : Nat, outages : Nat]
  BY <1>2, <1>3
<1> QED  BY <1>1, <1>2, <1>3, <1>4, <1>5, <1>6, <1>7, <1>8, StartedStep, StartedFacts
            DEF Started

-----------------------------------------------------------------------------
\* What the user does in the running application.
LEMMA RunningFacts ==
  ASSUME BootInv, boot.pc = "running"
  PROVE  /\ db \in DbType /\ wish \in WishType /\ boot \in BootType /\ Carries(db, wish) /\ Reached(db, 15)
         /\ PendingIsCurrent /\ used \in [edits : Nat, deaths : Nat, outages : Nat]
         /\ db.oldMarks = {} /\ db.legacy = {} /\ {"redesign", "identity", "giga", "notes"} \subseteq db.flags
<1>1. CopyAt \in {2, 3}
  BY DEF CopyAt
<1> QED  BY <1>1, StartedFacts DEF Started, Reached

LEMMA MarkToggled ==
  ASSUME BootInv, ToggleMark
  PROVE  BootInv'
<1>1. PICK r \in db.rows : Edit([db EXCEPT !.marks = (@ \ {r}) \cup ({r} \ @)], [wish EXCEPT !.mark = r \notin db.marks])
  BY DEF ToggleMark
<1>2. /\ boot.pc = "running" /\ UNCHANGED <<engine, boot, retryNow, reach, version>> /\ used' = [used EXCEPT !.edits = @ + 1]
      /\ db' = [db EXCEPT !.marks = (@ \ {r}) \cup ({r} \ @)] /\ wish' = [wish EXCEPT !.mark = r \notin db.marks]
  BY <1>1 DEF Edit
<1>3. /\ db \in DbType /\ wish \in WishType /\ boot \in BootType /\ Carries(db, wish) /\ Reached(db, 15)
      /\ PendingIsCurrent /\ used \in [edits : Nat, deaths : Nat, outages : Nat]
      /\ db.oldMarks = {} /\ db.legacy = {} /\ {"redesign", "identity", "giga", "notes"} \subseteq db.flags
  BY <1>2, RunningFacts
<1>4. r \in Twins /\ r \in Nat /\ (\A q \in db.rows \cap Twins : q = r) /\ db.marks \subseteq {r}
  <2>1. RowsSound(db)
    BY <1>3 DEF Carries
  <2>2. r \in Twins
    BY <1>3, <2>1 DEF RowsSound
  <2>3. \A q \in db.rows \cap Twins : q = r
    BY <1>3, <2>1, <2>2 DEF RowsSound
  <2> QED  BY <2>1, <2>2, <2>3, StartupAssumption DEF RowsSound
<1>5. /\ db' \in DbType /\ db'.marks = (IF r \in db.marks THEN {} ELSE {r})
      /\ db'.oldMarks = {} /\ db'.retired = db.retired
      /\ db'.auto = db.auto /\ db'.future = db.future /\ db'.people = db.people /\ db'.legacy = db.legacy
      /\ db'.notes = db.notes /\ db'.rows = db.rows /\ db'.owner = db.owner /\ db'.link = db.link
      /\ db'.flags = db.flags /\ db'.setting = db.setting
      /\ db'.installed = db.installed /\ db'.pending = db.pending
  BY <1>2, <1>3, <1>4 DEF DbType
<1>6. /\ wish' \in WishType /\ wish'.mark = (r \notin db.marks) /\ wish'.auto = wish.auto /\ wish'.people = wish.people
      /\ wish'.setting = wish.setting /\ wish'.cleared = wish.cleared /\ wish'.owned = wish.owned
  BY <1>2, <1>3 DEF WishType
<1>7. MarkKept(db', wish')
  BY <1>5, <1>6 DEF MarkKept
<1>8. SettingKept(db', wish') /\ CastKept(db', wish') /\ AutoKept(db', wish') /\ ClearedKept(db', wish') /\ OwnerKept(db', wish')
  BY <1>3, <1>5, <1>6 DEF Carries, SettingKept, CastKept, AutoKept, ClearedKept, OwnerKept
<1>9. RowsSound(db')
  <2>1. RowsSound(db)
    BY <1>3 DEF Carries
  <2> QED  BY <1>4, <1>5, <2>1 DEF RowsSound
<1>10. Reached(db', 15)
  BY <1>3, <1>5 DEF Reached
<1>11. PendingIsCurrent'
  BY <1>3, <1>5 DEF PendingIsCurrent
<1>12. used' \in [edits : Nat, deaths : Nat, outages : Nat]
  BY <1>2, <1>3
<1>13. Carries(db', wish')
  BY <1>7, <1>8, <1>9 DEF Carries
<1>14. boot.pc \in Started
  BY <1>2 DEF Started
<1> QED  BY <1>2, <1>3, <1>5, <1>6, <1>10, <1>11, <1>12, <1>13, <1>14, StartedStep, StartedFacts

\* An edit of something else, the lists of what is ignored, and the notes of a release.
LEMMA OtherEdits ==
  ASSUME BootInv,
         \/ ToggleAuto \/ ChangeSetting \/ ClearNotifications \/ ChangeCredentials
         \/ SaveIgnoreLists \/ RefreshPreferences \/ AcknowledgeChange
  PROVE  BootInv'
<1>1. boot.pc = "running" /\ boot.pc \in Started
  BY DEF ToggleAuto, ChangeSetting, ClearNotifications, ChangeCredentials, SaveIgnoreLists,
         RefreshPreferences, AcknowledgeChange,
         Edit, BootInv, Progress, Started
<1>2. /\ db \in DbType /\ wish \in WishType /\ boot \in BootType /\ Carries(db, wish) /\ Reached(db, 15)
      /\ PendingIsCurrent /\ used \in [edits : Nat, deaths : Nat, outages : Nat]
      /\ {"redesign", "identity", "giga", "notes"} \subseteq db.flags
  BY <1>1, RunningFacts
<1>3. UNCHANGED <<engine, version, retryNow, reach>>
  BY DEF ToggleAuto, ChangeSetting, ClearNotifications, ChangeCredentials, SaveIgnoreLists,
         RefreshPreferences, AcknowledgeChange, Edit
<1>4. used' \in [edits : Nat, deaths : Nat, outages : Nat]
  <2>1. used' = used \/ used' = [used EXCEPT !.edits = @ + 1]
    BY DEF ToggleAuto, ChangeSetting, ClearNotifications, ChangeCredentials, SaveIgnoreLists,
           RefreshPreferences, AcknowledgeChange, Edit
  <2> QED  BY <1>2, <2>1
<1>5. boot' \in BootType /\ boot'.pc = "running"
  <2>1. CASE boot' = boot
    BY <1>1, <1>2, <2>1
  <2>2. CASE boot' = [boot EXCEPT !.saving = TRUE] \/ boot' = [boot EXCEPT !.saving = FALSE]
    BY <1>1, <1>2, <2>2 DEF BootType
  <2>3. CASE boot' = [boot EXCEPT !.shown = <<0, 0>>]
    BY <1>1, <1>2, <2>3 DEF BootType
  <2> QED  BY <2>1, <2>2, <2>3
              DEF ToggleAuto, ChangeSetting, ClearNotifications, ChangeCredentials,
                  SaveIgnoreLists,
              RefreshPreferences, AcknowledgeChange, Edit
<1>6. ASSUME db' \in DbType, wish' \in WishType, Carries(db', wish'), Reached(db', 15), PendingIsCurrent'  PROVE BootInv'
  BY <1>1, <1>3, <1>4, <1>5, <1>6, StartedStep, StartedFacts DEF Started
<1>7. CASE ToggleAuto
  <2>1. db' = [db EXCEPT !.auto = ~db.auto] /\ wish' = [wish EXCEPT !.auto = ~db.auto]
    BY <1>7 DEF ToggleAuto, Edit
  <2>2. /\ db' \in DbType /\ db'.marks = db.marks /\ db'.oldMarks = db.oldMarks /\ db'.retired = db.retired
        /\ db'.auto = ~db.auto /\ db'.future = db.future /\ db'.people = db.people /\ db'.legacy = db.legacy
        /\ db'.notes = db.notes /\ db'.rows = db.rows /\ db'.owner = db.owner /\ db'.link = db.link
        /\ db'.flags = db.flags /\ db'.setting = db.setting
        /\ db'.installed = db.installed /\ db'.pending = db.pending
    <3> DEFINE auto == ~db.auto
    <3>1. auto \in BOOLEAN /\ db' = [db EXCEPT !.auto = auto]
      BY <2>1
    <3> HIDE DEF auto
    <3>2. db'.auto = auto
      BY <1>2, <3>1 DEF DbType
    <3>3. /\ db' \in DbType /\ db'.marks = db.marks /\ db'.oldMarks = db.oldMarks /\ db'.retired = db.retired
          /\ db'.future = db.future /\ db'.people = db.people /\ db'.legacy = db.legacy
          /\ db'.notes = db.notes /\ db'.rows = db.rows /\ db'.owner = db.owner /\ db'.link = db.link
          /\ db'.flags = db.flags /\ db'.setting = db.setting
          /\ db'.installed = db.installed /\ db'.pending = db.pending
      BY <1>2, <3>1 DEF DbType
    <3> QED  BY <3>2, <3>3 DEF auto
  <2>3. /\ wish' \in WishType /\ wish'.mark = wish.mark /\ wish'.auto = ~db.auto /\ wish'.people = wish.people
        /\ wish'.setting = wish.setting /\ wish'.cleared = wish.cleared /\ wish'.owned = wish.owned
    BY <1>2, <2>1 DEF WishType
  <2>4. MarkKept(db', wish') /\ SettingKept(db', wish') /\ CastKept(db', wish') /\ ClearedKept(db', wish') /\ OwnerKept(db', wish')
    BY <1>2, <2>2, <2>3 DEF Carries, MarkKept, SettingKept, CastKept, ClearedKept, OwnerKept
  <2>5. AutoKept(db', wish')
    <3>1. db'.future = FALSE
      BY <1>2, <2>2 DEF Carries, AutoKept, DbType
    <3> QED  BY <2>2, <2>3, <3>1 DEF AutoKept
  <2>6. RowsSound(db')
    BY <1>2, <2>2 DEF Carries, RowsSound
  <2>7. Carries(db', wish') /\ Reached(db', 15) /\ PendingIsCurrent'
    BY <1>2, <2>2, <2>4, <2>5, <2>6 DEF Carries, Reached, PendingIsCurrent
  <2> QED  BY <1>6, <2>2, <2>3, <2>7
<1>8. CASE ChangeSetting
  <2>1. db' = [db EXCEPT !.setting = "own"] /\ wish' = [wish EXCEPT !.setting = TRUE]
    BY <1>8 DEF ChangeSetting, Edit
  <2>2. /\ db' \in DbType /\ db'.marks = db.marks /\ db'.oldMarks = db.oldMarks /\ db'.retired = db.retired
        /\ db'.auto = db.auto /\ db'.future = db.future /\ db'.people = db.people /\ db'.legacy = db.legacy
        /\ db'.notes = db.notes /\ db'.rows = db.rows /\ db'.owner = db.owner /\ db'.link = db.link
        /\ db'.flags = db.flags /\ db'.setting = "own"
        /\ db'.installed = db.installed /\ db'.pending = db.pending
    BY <1>2, <2>1 DEF DbType
  <2>3. /\ wish' \in WishType /\ wish'.mark = wish.mark /\ wish'.auto = wish.auto /\ wish'.people = wish.people
        /\ wish'.cleared = wish.cleared /\ wish'.owned = wish.owned
    BY <1>2, <2>1 DEF WishType
  <2>4. MarkKept(db', wish') /\ SettingKept(db', wish') /\ CastKept(db', wish') /\ ClearedKept(db', wish') /\ OwnerKept(db', wish')
    BY <1>2, <2>2, <2>3 DEF Carries, MarkKept, SettingKept, CastKept, ClearedKept, OwnerKept
  <2>5. AutoKept(db', wish') /\ RowsSound(db')
    BY <1>2, <2>2, <2>3 DEF Carries, AutoKept, RowsSound
  <2>7. Carries(db', wish') /\ Reached(db', 15) /\ PendingIsCurrent'
    BY <1>2, <2>2, <2>4, <2>5 DEF Carries, Reached, PendingIsCurrent
  <2> QED  BY <1>6, <2>2, <2>3, <2>7
<1>9. CASE ClearNotifications
  <2>1. db' = [db EXCEPT !.notes = {}] /\ wish' = [wish EXCEPT !.cleared = TRUE]
    BY <1>9 DEF ClearNotifications, Edit
  <2>2. /\ db' \in DbType /\ db'.marks = db.marks /\ db'.oldMarks = db.oldMarks /\ db'.retired = db.retired
        /\ db'.auto = db.auto /\ db'.future = db.future /\ db'.people = db.people /\ db'.legacy = db.legacy
        /\ db'.notes = {} /\ db'.rows = db.rows /\ db'.owner = db.owner /\ db'.link = db.link
        /\ db'.flags = db.flags /\ db'.setting = db.setting
        /\ db'.installed = db.installed /\ db'.pending = db.pending
    BY <1>2, <2>1 DEF DbType
  <2>3. /\ wish' \in WishType /\ wish'.mark = wish.mark /\ wish'.auto = wish.auto /\ wish'.people = wish.people
        /\ wish'.setting = wish.setting /\ wish'.owned = wish.owned
    BY <1>2, <2>1 DEF WishType
  <2>4. MarkKept(db', wish') /\ SettingKept(db', wish') /\ CastKept(db', wish') /\ ClearedKept(db', wish') /\ OwnerKept(db', wish')
    BY <1>2, <2>2, <2>3 DEF Carries, MarkKept, SettingKept, CastKept, ClearedKept, OwnerKept
  <2>5. AutoKept(db', wish') /\ RowsSound(db')
    BY <1>2, <2>2, <2>3 DEF Carries, AutoKept, RowsSound
  <2>7. Carries(db', wish') /\ Reached(db', 15) /\ PendingIsCurrent'
    BY <1>2, <2>2, <2>4, <2>5 DEF Carries, Reached, PendingIsCurrent
  <2> QED  BY <1>6, <2>2, <2>3, <2>7
<1>10. CASE ChangeCredentials \/ SaveIgnoreLists \/ RefreshPreferences \/ AcknowledgeChange
  <2>1. /\ wish' = wish
        /\ \/ db' = db \/ db' = [db EXCEPT !.user = "own"] \/ db' = [db EXCEPT !.ignored = ~db.ignored]
           \/ db' = [db EXCEPT !.hidden = db.ignored] \/ db' = [db EXCEPT !.pending = <<0, 0>>]
    BY <1>10 DEF ChangeCredentials, SaveIgnoreLists, RefreshPreferences, AcknowledgeChange, Edit
  <2>2. /\ db' \in DbType /\ db'.marks = db.marks /\ db'.oldMarks = db.oldMarks /\ db'.retired = db.retired
        /\ db'.auto = db.auto /\ db'.future = db.future /\ db'.people = db.people /\ db'.legacy = db.legacy
        /\ db'.notes = db.notes /\ db'.rows = db.rows /\ db'.owner = db.owner /\ db'.link = db.link
        /\ db'.flags = db.flags /\ db'.setting = db.setting
        /\ db'.installed = db.installed /\ db'.pending \in {db.pending, <<0, 0>>}
    <3>1. CASE db' = db
      BY <1>2, <3>1
    <3>2. CASE db' = [db EXCEPT !.user = "own"]
      BY <1>2, <3>2 DEF DbType
    <3>3. CASE db' = [db EXCEPT !.ignored = ~db.ignored]
      <4> DEFINE ignored == ~db.ignored
      <4>1. ignored \in BOOLEAN /\ db' = [db EXCEPT !.ignored = ignored]
        BY <3>3
      <4> HIDE DEF ignored
      <4> QED  BY <1>2, <4>1 DEF DbType
    <3>4. CASE db' = [db EXCEPT !.hidden = db.ignored]
      BY <1>2, <3>4 DEF DbType
    <3>5. CASE db' = [db EXCEPT !.pending = <<0, 0>>]
      BY <1>2, <3>5 DEF DbType
    <3> QED  BY <2>1, <3>1, <3>2, <3>3, <3>4, <3>5
  <2>3. Carries(db', wish') /\ Reached(db', 15)
    BY <1>2, <2>1, <2>2, FinishingKeeps
  <2>4. PendingIsCurrent'
    BY <1>2, <2>2 DEF PendingIsCurrent
  <2> QED  BY <1>2, <1>6, <2>1, <2>2, <2>3, <2>4
<1> QED  BY <1>7, <1>8, <1>9, <1>10

LEMMA BootInvStep ==
  BootInv /\ [BootNext]_bootVars => BootInv'
<1> SUFFICES ASSUME BootInv, [BootNext]_bootVars  PROVE BootInv'
  OBVIOUS
<1>1. CASE UNCHANGED bootVars
  BY <1>1, ProcessStands DEF bootVars, BootInv, BootShapes
<1>2. CASE Outage \/ Answers \/ (\E v \in 1..MaxVersion : Install(v)) \/ RequestRetry
  BY <1>2, EnvironmentKeeps
<1>3. CASE \/ Start \/ Dies \/ StepFails \/ Opened \/ GraceRetry \/ EnterRecovery \/ RecoveryAttempt \/ Listen \/ ShowChangelog
  BY <1>3, ProcessSteps
<1>4. CASE MigrationStep
  BY <1>4, MigrationKeeps
<1>5. CASE Track
  BY <1>5, TrackKeeps
<1>6. CASE SeedSettings \/ ResolveApiKey
  BY <1>6, SettingsKeep
<1>7. CASE EnsureUser
  BY <1>7, UserKeeps
<1>8. CASE ToggleMark
  BY <1>8, MarkToggled
<1>9. CASE \/ ToggleAuto \/ ChangeSetting \/ ClearNotifications \/ ChangeCredentials
           \/ SaveIgnoreLists \/ RefreshPreferences \/ AcknowledgeChange
  BY <1>9, OtherEdits
<1> QED  BY <1>1, <1>2, <1>3, <1>4, <1>5, <1>6, <1>7, <1>8, <1>9
            DEF BootNext, Opening, Finishing

\* Whatever dies or fails between two statements of the migrations, and however
\* often the program is started again on whichever version, a running
\* application shows what the user last asked for.
THEOREM EditsAreKept ==
  BootSpec => []EditsSurvive
<1>1. BootInv => EditsSurvive
  <2> SUFFICES ASSUME BootInv, boot.pc = "running"
               PROVE  /\ (db.marks # {}) = wish.mark /\ db.auto = wish.auto /\ (wish.setting => db.setting = "own")
                      /\ (wish.people => db.people # {}) /\ (wish.cleared => db.notes = {})
                      /\ (wish.owned => db.owner \in db.rows) /\ db.link \in db.rows \cup {0}
    BY DEF EditsSurvive
  <2>1. /\ Carries(db, wish) /\ db \in DbType /\ wish \in WishType
        /\ db.oldMarks = {} /\ db.legacy = {} /\ {"redesign", "identity", "giga", "notes"} \subseteq db.flags
    BY RunningFacts
  <2>2. (db.marks # {}) = wish.mark /\ (wish.setting => db.setting = "own")
    BY <2>1 DEF Carries, MarkKept, SettingKept
  <2>3. db.auto = wish.auto
    BY <2>1 DEF Carries, AutoKept, DbType
  <2>4. (wish.people => db.people # {}) /\ (wish.cleared => db.notes = {})
    BY <2>1 DEF Carries, CastKept, ClearedKept
  <2>5. (wish.owned => db.owner \in db.rows) /\ db.link \in db.rows \cup {0}
    BY <2>1 DEF Carries, OwnerKept, RowsSound
  <2> QED  BY <2>2, <2>3, <2>4, <2>5
<1> QED  BY <1>1, BootInvInit, BootInvStep, PTL DEF BootSpec

\* The release notes that wait to be shown end at the version that is
\* installed, whatever upgrades and downgrades the starts saw.
THEOREM PendingStaysCurrent ==
  BootSpec => []PendingIsCurrent
<1>1. BootInv => PendingIsCurrent
  BY DEF BootInv
<1> QED  BY <1>1, BootInvInit, BootInvStep, PTL DEF BootSpec

-----------------------------------------------------------------------------
(***************************************************************************)
(* The migration of the database (DbMigration): what a transfer that ran   *)
(* alone has copied, for any files, tables, batches and earlier transfers. *)
(*                                                                         *)
(* Two transfers that are alive at one moment are both noted in overlap,   *)
(* so nobody else writes to the target of one that is not noted.  What it  *)
(* finds there was copied from a file (RowsHaveOrigin): from its own, which*)
(* has only grown since then (CopiesAreOfFiles), or from another.          *)
(***************************************************************************)
Asked == {"idle", "checked", "refused"}
Copied == {"counts", "orphans", "sequences", "settings", "finish"}

MigShapes ==
  /\ sqlite \in [Paths -> [Tables -> SUBSET RowIds]]
  /\ target \in [Targets -> [Tables -> SUBSET RowIds]]
  /\ sequence \in [Targets -> [Tables -> Nat]]
  /\ migration \in [path : SUBSET Paths, validated : BOOLEAN, prepared : BOOLEAN, running : BOOLEAN,
                    completed : BOOLEAN, activated : BOOLEAN]
  /\ migration.path = {} \/ \E p \in Paths : migration.path = {p}
  /\ mig \in [Migrates -> [pc : Busy \cup Asked \cup {"failed", "erred", "done"},
                           path : SUBSET Paths, to : SUBSET Targets,
                           copy : [Tables -> SUBSET RowIds],
                           table : 0..NTables + 1, left : SUBSET RowIds, ok : BOOLEAN]]
  /\ lost \in BOOLEAN /\ overlap \subseteq Migrates

TableIsPart(r) == r.table \in Tables /\ r.left \subseteq r.copy[r.table]

(* A request names its target when it starts and reads its file later.     *)
MigBegun ==
  \A m \in Migrates :
    /\ mig[m].pc \in Asked => mig[m].to = {}
    /\ mig[m].pc \notin Asked => \E d \in Targets : mig[m].to = {d}
    /\ mig[m].pc \in Asked \cup {"copy"} => mig[m].copy = Empty
    /\ mig[m].path = {} \/ \E p \in Paths : mig[m].path = {p}
    /\ mig[m].pc = "tables" => TableIsPart(mig[m])

(* No row without the row it refers to, in a file and in a copy.           *)
ParentsAreThere ==
  /\ \A p \in Paths : NoOrphans(sqlite[p])
  /\ \A m \in Migrates : NoOrphans(mig[m].copy)

CopiesAreOfFiles ==
  \A m \in Migrates, t \in Tables : \A n \in mig[m].copy[t] :
    \E p \in Paths : mig[m].path = {p} /\ (lost \/ n \in sqlite[p][t])

RowsHaveOrigin ==
  \A d \in Targets, t \in Tables : \A n \in target[d][t] :
    \E o \in Migrates : mig[o].to = {d} /\ n \in mig[o].copy[t]

LiveOverlap == \A m, o \in Live : m # o => m \in overlap

(* What a transfer cannot be blamed for: rows deleted from a file, or rows *)
(* of another file in its target.                                          *)
Excused(m) ==
  lost \/ \E o \in Migrates \ {m} : mig[o].to = mig[m].to /\ mig[o].path # mig[m].path

(* How far a transfer has come.                                            *)
Transferred(m, d) ==
  LET copy == mig[m].copy
      table == mig[m].table
      there == target[d]
  IN /\ mig[m].pc \notin {"copy"} => Excused(m) \/ \A t \in Tables : there[t] \subseteq copy[t]
     /\ mig[m].pc = "tables" =>
          /\ \A t \in Tables : t < table => copy[t] \subseteq there[t]
          /\ copy[table] \subseteq there[table] \cup mig[m].left
     /\ mig[m].pc \in Copied => \A t \in Tables : copy[t] \subseteq there[t]
     /\ mig[m].pc \in Copied \ {"counts"} => mig[m].ok \/ Excused(m)
     /\ mig[m].pc \in {"sequences", "settings", "finish"} /\ mig[m].ok => NoOrphans(there)
     /\ mig[m].pc \in {"settings", "finish"} =>
          \A t \in Tables : \A n \in there[t] : n <= sequence[d][t]

AloneTransferred ==
  \A m \in Live \ overlap, d \in Targets : mig[m].to = {d} => Transferred(m, d)

MigInv ==
  /\ MigShapes /\ MigBegun /\ ParentsAreThere /\ CopiesAreOfFiles /\ RowsHaveOrigin
  /\ LiveOverlap /\ AloneTransferred /\ RetryConverges

-----------------------------------------------------------------------------
(* The database a request names is the one it writes to.                   *)
LEMMA DestIs ==
  ASSUME NEW m \in Migrates, NEW d, mig[m].to = {d}
  PROVE  Dest(m) = d
BY DEF Dest

(* No identifier of a table is above its highest.                          *)
LEMMA HighestBounds ==
  ASSUME NEW ids \in SUBSET RowIds
  PROVE  Highest(ids) \in Nat /\ \A n \in ids : n <= Highest(ids)
<1>1. IsFiniteSet(ids) /\ ids \subseteq Nat
  BY DbMigrationAssumption, FS_Subset
<1>2. CASE ids = {}
  BY <1>2 DEF Highest
<1>3. CASE ids # {}
  <2>1. Max(ids) \in ids /\ \A n \in ids : n <= Max(ids)
    BY <1>1, <1>3, MaxIsGreatest
  <2> QED  BY <1>1, <1>3, <2>1 DEF Highest
<1> QED  BY <1>2, <1>3

(* A step that gives one transfer a new record keeps the records' type.    *)
MigRecord == [pc : Busy \cup Asked \cup {"failed", "erred", "done"},
              path : SUBSET Paths, to : SUBSET Targets, copy : [Tables -> SUBSET RowIds],
              table : 0..NTables + 1, left : SUBSET RowIds, ok : BOOLEAN]

(* The records of transfers, and of the workflow when one starts or ends.  *)
LEMMA RunningShapes ==
  ASSUME MigShapes
  PROVE  /\ mig \in [Migrates -> MigRecord]
         /\ \A b \in BOOLEAN : LET new == [migration EXCEPT !.running = b]
                               IN new.path = migration.path /\ new \in [path : SUBSET Paths, validated : BOOLEAN,
                                   prepared : BOOLEAN, running : BOOLEAN, completed : BOOLEAN, activated : BOOLEAN]
BY DEF MigShapes, MigRecord

-----------------------------------------------------------------------------
(* What a step of a live transfer a into the database d may do.            *)
MovesOn(a, d) ==
  /\ MigShapes' /\ migration'.path = migration.path
  /\ \A o \in Migrates \ {a} : mig'[o] = mig[o]
  /\ mig'[a].to = mig[a].to /\ mig'[a].path = mig[a].path
  /\ mig'[a].pc \notin Asked \cup {"copy"} /\ (mig'[a].pc = "tables" => TableIsPart(mig'[a]))
  /\ UNCHANGED <<sqlite, lost, overlap>>
  /\ \/ mig'[a].copy = mig[a].copy
     \/ mig[a].pc = "copy" /\ \E p \in mig[a].path : mig'[a].copy = sqlite[p]
  /\ \A e \in Targets \ {d} : target'[e] = target[e]
  /\ \A t \in Tables : target'[d][t] \subseteq target[d][t] \cup mig[a].copy[t]

(* A step of a transfer excuses no other.                                  *)
LEMMA ExcusesStay ==
  ASSUME NEW a \in Live, NEW d, MovesOn(a, d), NEW m \in Migrates
  PROVE  Excused(m)' <=> Excused(m)
<1>1. \A o \in Migrates : mig'[o].to = mig[o].to /\ mig'[o].path = mig[o].path
  BY DEF MovesOn
<1>2. lost' = lost
  BY DEF MovesOn
<1> QED  BY <1>1, <1>2 DEF Excused

(* What a live transfer may do keeps the invariant, if it does its own part.*)
LEMMA LiveStep ==
  ASSUME MigInv, NEW a \in Live, NEW d \in Targets, mig[a].to = {d}, MovesOn(a, d),
         a \notin overlap /\ mig'[a].pc \in Busy => Transferred(a, d)',
         a \notin overlap /\ mig'[a].pc = "failed" => Excused(a) \/ mig[a].path = {}
  PROVE  MigInv'
<1>0. a \in Migrates /\ mig[a].pc \in Busy /\ mig[a].pc \notin Asked
  BY DEF Live, Busy, Asked
<1>1. MigShapes'
  BY DEF MovesOn
<1>2. MigBegun'
  BY <1>0 DEF MigInv, MigBegun, MovesOn
<1>3. ParentsAreThere'
  <2>1. ASSUME NEW p \in mig[a].path  PROVE NoOrphans(sqlite[p])
    BY <1>0, <2>1 DEF MigInv, MigBegun, ParentsAreThere
  <2> QED  BY <1>0, <2>1 DEF MigInv, ParentsAreThere, MovesOn
<1>4. CopiesAreOfFiles'
  <2>1. ASSUME NEW t \in Tables, NEW n \in mig'[a].copy[t]
        PROVE  \E p \in Paths : mig[a].path = {p} /\ (lost \/ n \in sqlite[p][t])
    <3>1. CASE mig'[a].copy = mig[a].copy
      BY <1>0, <2>1, <3>1 DEF MigInv, CopiesAreOfFiles
    <3>2. ASSUME NEW p \in mig[a].path, mig'[a].copy = sqlite[p]
          PROVE  \E q \in Paths : mig[a].path = {q} /\ (lost \/ n \in sqlite[q][t])
      <4>1. p \in Paths /\ mig[a].path = {p}
        BY <1>0, <3>2 DEF MigInv, MigBegun
      <4> QED  BY <2>1, <3>2, <4>1
    <3> QED  BY <3>1, <3>2 DEF MovesOn
  <2> QED  BY <1>0, <2>1 DEF MigInv, CopiesAreOfFiles, MovesOn
<1>5. RowsHaveOrigin'
  <2>1. ASSUME NEW e \in Targets, NEW t \in Tables, NEW n \in target[e][t]
        PROVE  \E o \in Migrates : mig'[o].to = {e} /\ n \in mig'[o].copy[t]
    <3>1. PICK o \in Migrates : mig[o].to = {e} /\ n \in mig[o].copy[t]
      BY <2>1 DEF MigInv, RowsHaveOrigin
    <3>2. mig[o].copy # Empty
      BY <2>1, <3>1 DEF Empty
    <3>3. mig'[o].copy = mig[o].copy
      BY <1>0, <3>1, <3>2 DEF MovesOn, MigInv, MigBegun
    <3> QED  BY <1>0, <3>1, <3>3 DEF MovesOn
  <2>2. ASSUME NEW t \in Tables, NEW n \in mig[a].copy[t]
        PROVE  \E o \in Migrates : mig'[o].to = {d} /\ n \in mig'[o].copy[t]
    <3>1. mig[a].copy # Empty
      BY <2>2 DEF Empty
    <3>2. mig'[a].copy = mig[a].copy
      BY <1>0, <3>1 DEF MovesOn, MigInv, MigBegun
    <3> QED  BY <1>0, <2>2, <3>2 DEF MovesOn
  <2>3. ASSUME NEW e \in Targets, NEW t \in Tables, NEW n \in target'[e][t]
        PROVE  \E o \in Migrates : mig'[o].to = {e} /\ n \in mig'[o].copy[t]
    <3>1. n \in target[e][t] \/ (e = d /\ n \in mig[a].copy[t])
      BY <2>3 DEF MovesOn
    <3> QED  BY <2>1, <2>2, <3>1
  <2> QED  BY <2>3 DEF RowsHaveOrigin
<1>6. Live' \subseteq Live
  BY <1>0 DEF Live, MovesOn
<1>7. LiveOverlap'
  BY <1>6 DEF MigInv, LiveOverlap, MovesOn
<1>8. AloneTransferred'
  <2>1. ASSUME NEW m \in Live', m \notin overlap'  PROVE m = a
    BY <1>6, <2>1 DEF MigInv, LiveOverlap, MovesOn
  <2>2. a \in Live' => mig'[a].pc \in Busy
    BY DEF Live
  <2> QED  BY <2>1, <2>2 DEF AloneTransferred, MovesOn
<1>9. RetryConverges'
  <2> SUFFICES ASSUME NEW m \in Migrates, m \notin overlap, mig'[m].pc = "failed"
               PROVE  Excused(m) \/ mig[m].path = {}
    <3>1. \A m \in Migrates : (Excused(m)' <=> Excused(m)) /\ mig'[m].path = mig[m].path
      BY ExcusesStay DEF MovesOn
    <3>2. overlap' = overlap
      BY DEF MovesOn
    <3>3. (\A m \in Migrates \ overlap' : mig'[m].pc = "failed" => Excused(m)' \/ mig'[m].path = {})
            => RetryConverges'
      BY DEF RetryConverges, Excused
    <3> QED  BY <3>1, <3>2, <3>3
  <2>1. CASE m = a
    BY <2>1
  <2>2. CASE m # a
    BY <2>2 DEF MovesOn, MigInv, RetryConverges, Excused
  <2> QED  BY <2>1, <2>2
<1> QED  BY <1>1, <1>2, <1>3, <1>4, <1>5, <1>7, <1>8, <1>9 DEF MigInv

-----------------------------------------------------------------------------
(* The steps of a transfer.                                                *)
LEMMA LiveTransfer ==
  ASSUME MigInv, NEW a \in Migrates, mig[a].pc \in Busy
  PROVE  /\ a \in Live
         /\ \E d \in Targets : mig[a].to = {d} /\ Dest(a) = d
BY DestIs DEF Live, MigInv, MigBegun, Busy, Asked

(* A transfer may give up where it is, with an error or over an excuse.    *)
LEMMA FailureKeeps ==
  ASSUME MigInv, NEW a \in Migrates, mig[a].pc \in Busy, NEW pc \in {"failed", "erred"},
         FailsAs(a, pc), UNCHANGED <<others, target, sequence, overlap>>,
         a \notin overlap /\ pc = "failed" => Excused(a) \/ mig[a].path = {}
  PROVE  MigInv'
<1>1. a \in Live /\ \E d \in Targets : mig[a].to = {d}
  BY LiveTransfer
<1> PICK d \in Targets : mig[a].to = {d}
  BY <1>1
<1>2. mig' = [mig EXCEPT ![a].pc = pc] /\ mig \in [Migrates -> MigRecord]
  BY RunningShapes DEF MigInv, FailsAs, To
<1>3. mig' \in [Migrates -> MigRecord] /\ migration'.path = migration.path /\ MigShapes'
  <2>1. mig[a] \in MigRecord
    BY <1>2
  <2>2. [mig[a] EXCEPT !.pc = pc] \in MigRecord
    BY <2>1 DEF MigRecord
  <2>3. mig' = [mig EXCEPT ![a] = [mig[a] EXCEPT !.pc = pc]]
    BY <1>2, <2>1 DEF MigRecord
  <2>4. mig' \in [Migrates -> MigRecord]
    BY <1>2, <2>2, <2>3
  <2> QED  BY <2>4, RunningShapes DEF MigInv, MigShapes, MigRecord, FailsAs, others
<1>4. MovesOn(a, d)
  BY <1>2, <1>3 DEF MovesOn, MigRecord, others, Asked
<1>5. mig'[a].pc = pc /\ pc \notin Busy
  BY <1>2 DEF MigRecord, Busy
<1> QED  BY <1>1, <1>4, <1>5, LiveStep

(* A request to a database that fails ends the transfer with an error.     *)
LEMMA TransferErrorKeeps ==
  ASSUME MigInv, NEW a \in Migrates, TransferError(a)
  PROVE  MigInv'
BY FailureKeeps DEF TransferError

(* A step that goes on with the record new.                                *)
MigrationState == [path : SUBSET Paths, validated : BOOLEAN, prepared : BOOLEAN,
                   running : BOOLEAN, completed : BOOLEAN, activated : BOOLEAN]

GoesOnAs(a, new) ==
  /\ mig' = [mig EXCEPT ![a] = new] /\ new \in MigRecord
  /\ new.to = mig[a].to /\ new.path = mig[a].path
  /\ new.pc \in (Busy \ {"copy"}) \cup {"done"} /\ (new.pc = "tables" => TableIsPart(new))
  /\ \/ new.copy = mig[a].copy
     \/ mig[a].pc = "copy" /\ \E p \in mig[a].path : new.copy = sqlite[p]
  /\ UNCHANGED <<sqlite, lost, overlap>>
  /\ migration' \in MigrationState /\ migration'.path = migration.path
  /\ target' \in [Targets -> [Tables -> SUBSET RowIds]]
  /\ sequence' \in [Targets -> [Tables -> Nat]]
  /\ \A e \in Targets \ mig[a].to : target'[e] = target[e]
  /\ \A e \in mig[a].to, t \in Tables : target'[e][t] \subseteq target[e][t] \cup mig[a].copy[t]

(* A step that goes on keeps the invariant, if it does its own part.       *)
LEMMA GoesOnKeeps ==
  ASSUME MigInv, NEW a \in Migrates, mig[a].pc \in Busy, NEW d \in Targets, mig[a].to = {d},
         NEW new, GoesOnAs(a, new)
  PROVE  /\ (Excused(a)' <=> Excused(a)) /\ mig'[a] = new
         /\ a \notin overlap => Transferred(a, d)
         /\ (a \notin overlap /\ mig'[a].pc \in Busy => Transferred(a, d)') => MigInv'
<1>1. a \in Live
  BY DEF Live
<1>2. mig \in [Migrates -> MigRecord]
  BY RunningShapes DEF MigInv
<1>3. mig'[a] = new /\ \A o \in Migrates \ {a} : mig'[o] = mig[o]
  BY <1>2 DEF GoesOnAs
<1>4. MigShapes'
  <2>1. mig' \in [Migrates -> MigRecord]
    BY <1>2 DEF GoesOnAs
  <2> QED  BY <2>1 DEF MigInv, MigShapes, MigRecord, MigrationState, GoesOnAs
<1>5. MovesOn(a, d)
  BY <1>3, <1>4 DEF MovesOn, Busy, Asked, GoesOnAs
<1>6. mig'[a].pc # "failed"
  BY <1>3 DEF Busy, GoesOnAs
<1>7. a \notin overlap => Transferred(a, d)
  BY <1>1 DEF MigInv, AloneTransferred
<1> QED  BY <1>1, <1>3, <1>5, <1>6, <1>7, LiveStep, ExcusesStay

(* The types, from the invariant.                                          *)
LEMMA StateShapes ==
  ASSUME MigInv
  PROVE  /\ migration \in MigrationState /\ target \in [Targets -> [Tables -> SUBSET RowIds]]
         /\ sequence \in [Targets -> [Tables -> Nat]] /\ mig \in [Migrates -> MigRecord]
BY DEF MigInv, MigShapes, MigrationState, MigRecord

(* The copy is of the file as it is now: it has all rows of the target     *)
(* that came from that file.                                               *)
LEMMA StageCopyKeeps ==
  ASSUME MigInv, NEW a \in Migrates, StageCopy(a)
  PROVE  MigInv'
<1>1. mig[a].pc = "copy" /\ mig[a].pc \in Busy /\ "connect" \in Busy
  BY DEF StageCopy, Busy
<1>2. CASE mig[a].path = {}
  BY <1>1, <1>2, FailureKeeps DEF StageCopy, Fails, others
<1>3. ASSUME NEW p \in mig[a].path,
             mig' = [mig EXCEPT ![a].pc = "connect", ![a].copy = sqlite[p]], UNCHANGED migration
      PROVE  MigInv'
  <2> PICK d \in Targets : mig[a].to = {d}
    BY <1>1, LiveTransfer
  <2> PICK new : new = [mig[a] EXCEPT !.pc = "connect", !.copy = sqlite[p]]
    OBVIOUS
  <2>1. mig[a] \in MigRecord /\ p \in Paths /\ mig[a].path = {p}
    BY RunningShapes DEF MigInv, MigShapes, MigBegun
  <2>2. /\ new \in MigRecord /\ new.to = mig[a].to /\ new.path = mig[a].path
        /\ new.pc = "connect" /\ new.copy = sqlite[p] /\ mig' = [mig EXCEPT ![a] = new]
    BY <1>1, <1>3, <2>1 DEF MigRecord, MigInv, MigShapes
  <2>3. GoesOnAs(a, new)
    BY <1>1, <1>3, <2>2, StateShapes DEF GoesOnAs, StageCopy, others, Busy
  <2>4. ASSUME ~Excused(a), NEW t \in Tables, NEW n \in target[d][t]  PROVE n \in sqlite[p][t]
    <3>1. PICK o \in Migrates : mig[o].to = {d} /\ n \in mig[o].copy[t]
      BY <2>4 DEF MigInv, RowsHaveOrigin
    <3>2. PICK q \in Paths : mig[o].path = {q} /\ (lost \/ n \in sqlite[q][t])
      BY <2>4, <3>1 DEF MigInv, CopiesAreOfFiles
    <3>3. o # a
      BY <1>1, <2>4, <3>1 DEF MigInv, MigBegun, Empty
    <3>4. ~lost /\ mig[o].path = mig[a].path
      BY <2>4, <3>1, <3>3 DEF Excused
    <3> QED  BY <2>1, <3>2, <3>4
  <2>5. Transferred(a, d)'
    <3>1. target'[d] = target[d]
      BY <1>3 DEF StageCopy, others
    <3>2. (Excused(a)' <=> Excused(a)) /\ mig'[a] = new
      BY <1>1, <2>3, GoesOnKeeps
    <3> QED  BY <2>2, <2>4, <3>1, <3>2 DEF Transferred, Copied
  <2> QED  BY <1>1, <2>3, <2>5, GoesOnKeeps
<1> QED  BY <1>2, <1>3 DEF StageCopy

(* The steps that change nothing but how far the transfer is.              *)
LEMMA QuietGoesOn ==
  ASSUME MigInv, NEW a \in Migrates, NEW new \in MigRecord,
         mig' = [mig EXCEPT ![a] = new], quiet' = quiet,
         new.to = mig[a].to, new.path = mig[a].path, new.copy = mig[a].copy,
         new.pc \in Busy \ {"copy"}, new.pc = "tables" => TableIsPart(new)
  PROVE  GoesOnAs(a, new) /\ UNCHANGED <<target, sequence>>
BY StateShapes DEF GoesOnAs, quiet, others

(* The first table is before the transfer, with all its rows left.         *)
LEMMA OpenTargetKeeps ==
  ASSUME MigInv, NEW a \in Migrates, OpenTarget(a)
  PROVE  MigInv'
<1> PICK new : new = [mig[a] EXCEPT !.pc = "tables", !.table = 1, !.left = mig[a].copy[1]]
  OBVIOUS
<1>1. mig[a] \in MigRecord /\ 1 \in Tables /\ 1 \in 0..NTables + 1 /\ mig \in [Migrates -> MigRecord]
  BY RunningShapes, DbMigrationAssumption DEF MigInv, Tables
<1>2. mig[a].copy[1] \in SUBSET RowIds
  BY <1>1 DEF MigRecord
<1>3. /\ new \in MigRecord /\ new.to = mig[a].to /\ new.path = mig[a].path
      /\ new.copy = mig[a].copy /\ new.pc = "tables" /\ new.table = 1 /\ new.left = mig[a].copy[1]
      /\ mig' = [mig EXCEPT ![a] = new] /\ mig[a].pc \in Busy /\ quiet' = quiet
      /\ mig[a].pc = "connect" /\ new.pc \in Busy \ {"copy"}
  BY <1>1, <1>2 DEF OpenTarget, MigRecord, Busy
<1>4. TableIsPart(new)
  BY <1>1, <1>3 DEF TableIsPart
<1> PICK d \in Targets : mig[a].to = {d}
  BY <1>3, LiveTransfer
<1>5. GoesOnAs(a, new) /\ UNCHANGED <<target, sequence>>
  BY <1>3, <1>4, QuietGoesOn
<1>6. Transferred(a, d) /\ (Excused(a)' <=> Excused(a)) /\ mig'[a] = new => Transferred(a, d)'
  <2>1. \A t \in Tables : ~(t < 1)
    BY DEF Tables
  <2> QED  BY <1>1, <1>3, <1>5, <2>1 DEF Transferred, Copied
<1>7. mig[a].pc \in Busy
  BY <1>3
<1> QED  BY <1>5, <1>6, <1>7, GoesOnKeeps

(* A table with nothing left is copied, and the next has all rows left.    *)
LEMMA TableDoneKeeps ==
  ASSUME MigInv, NEW a \in Migrates, TableDone(a)
  PROVE  MigInv'
<1>1. /\ mig \in [Migrates -> MigRecord] /\ mig[a] \in MigRecord
      /\ mig[a].pc = "tables" /\ mig[a].left = {} /\ mig[a].pc \in Busy
      /\ quiet' = quiet /\ TableIsPart(mig[a])
  BY RunningShapes DEF MigInv, MigBegun, TableDone, Busy
<1> PICK d \in Targets : mig[a].to = {d}
  BY <1>1, LiveTransfer
<1>2. CASE mig[a].table = NTables
  <2> PICK new : new = [mig[a] EXCEPT !.pc = "counts"]
    OBVIOUS
  <2>1. /\ new \in MigRecord /\ new.to = mig[a].to /\ new.path = mig[a].path
        /\ new.copy = mig[a].copy /\ new.pc = "counts" /\ mig' = [mig EXCEPT ![a] = new]
        /\ new.pc \in Busy \ {"copy"}
    BY <1>1, <1>2 DEF TableDone, MigRecord, Busy
  <2>2. GoesOnAs(a, new) /\ UNCHANGED <<target, sequence>>
    BY <1>1, <2>1, QuietGoesOn
  <2>3. Transferred(a, d) /\ (Excused(a)' <=> Excused(a)) /\ mig'[a] = new => Transferred(a, d)'
    <3>1. \A t \in Tables : t < NTables \/ t = NTables
      BY DbMigrationAssumption DEF Tables
    <3> QED  BY <1>1, <1>2, <2>1, <2>2, <3>1 DEF Transferred, Copied
  <2> QED  BY <1>1, <2>2, <2>3, GoesOnKeeps
<1>3. CASE mig[a].table # NTables
  <2> PICK k : k = mig[a].table + 1
    OBVIOUS
  <2>1. k \in Tables /\ k \in 0..NTables + 1 /\ \A t \in Tables : t < k <=> t < mig[a].table \/ t = mig[a].table
    BY <1>1, <1>3, DbMigrationAssumption DEF TableIsPart, Tables
  <2> PICK new : new = [mig[a] EXCEPT !.table = k, !.left = mig[a].copy[k]]
    OBVIOUS
  <2>2. mig[a].copy[k] \in SUBSET RowIds
    BY <1>1, <2>1 DEF MigRecord
  <2>3. mig' = [mig EXCEPT ![a].table = k, ![a].left = mig[a].copy[k]]
    BY <1>1, <1>3 DEF TableDone, MigRecord
  <2>4. /\ new \in MigRecord /\ new.to = mig[a].to /\ new.path = mig[a].path
        /\ new.copy = mig[a].copy /\ new.pc = "tables" /\ mig' = [mig EXCEPT ![a] = new]
        /\ new.table = k /\ new.left = mig[a].copy[k] /\ new.pc \in Busy \ {"copy"}
    BY <1>1, <2>1, <2>2, <2>3 DEF MigRecord, Busy
  <2>5. TableIsPart(new)
    BY <2>1, <2>4 DEF TableIsPart
  <2>6. GoesOnAs(a, new) /\ UNCHANGED <<target, sequence>>
    BY <1>1, <2>4, <2>5, QuietGoesOn
  <2>7. Transferred(a, d) /\ (Excused(a)' <=> Excused(a)) /\ mig'[a] = new => Transferred(a, d)'
    BY <1>1, <2>1, <2>4, <2>6 DEF Transferred, Copied, TableIsPart
  <2> QED  BY <1>1, <2>6, <2>7, GoesOnKeeps
<1> QED  BY <1>2, <1>3

(* A batch lies in the copy, and its parents are there already: their      *)
(* table was copied before.                                                *)
LEMMA CopyBatchKeeps ==
  ASSUME MigInv, NEW a \in Migrates, CopyBatch(a)
  PROVE  MigInv'
<1>1. /\ mig \in [Migrates -> MigRecord] /\ mig[a] \in MigRecord
      /\ mig[a].pc = "tables" /\ mig[a].pc \in Busy /\ TableIsPart(mig[a])
  BY RunningShapes DEF MigInv, MigBegun, CopyBatch, Busy
<1> PICK d \in Targets : mig[a].to = {d} /\ Dest(a) = d /\ a \in Live
  BY <1>1, LiveTransfer
<1> PICK t : t = mig[a].table
  OBVIOUS
<1>2. PICK batch \in SUBSET mig[a].left :
        IF t > 1 /\ ~(batch \subseteq target[d][t - 1])
        THEN Fails(a) /\ UNCHANGED target
        ELSE /\ target' = [target EXCEPT ![d][t] = Upserted(@, batch)]
             /\ mig' = [mig EXCEPT ![a].left = @ \ batch]
             /\ UNCHANGED migration
  BY DEF CopyBatch, kSubset
<1>3. UNCHANGED <<sqlite, lost, check, sequence, effort, overlap>>
  BY DEF CopyBatch, others
<1>4. t \in Tables /\ mig[a].left \subseteq mig[a].copy[t] /\ batch \subseteq mig[a].copy[t]
  BY <1>1 DEF TableIsPart
<1>5. CASE t > 1 /\ ~(batch \subseteq target[d][t - 1])
  <2>1. ASSUME a \notin overlap  PROVE FALSE
    <3>1. t - 1 \in Tables /\ t - 1 < t /\ t \in Tables \ {1}
      BY <1>4, <1>5, DbMigrationAssumption DEF Tables
    <3>2. mig[a].copy[t - 1] \subseteq target[d][t - 1]
      BY <1>1, <2>1, <3>1 DEF MigInv, AloneTransferred, Transferred
    <3>3. mig[a].copy[t] \subseteq mig[a].copy[t - 1]
      BY <3>1 DEF MigInv, ParentsAreThere, NoOrphans
    <3> QED  BY <1>4, <1>5, <3>2, <3>3
  <2> QED  BY <1>1, <1>2, <1>3, <1>5, <2>1, FailureKeeps DEF Fails, others
<1>6. CASE ~(t > 1 /\ ~(batch \subseteq target[d][t - 1]))
  <2> PICK new : new = [mig[a] EXCEPT !.left = @ \ batch]
    OBVIOUS
  <2>1. /\ new \in MigRecord /\ new.to = mig[a].to /\ new.path = mig[a].path
        /\ new.copy = mig[a].copy /\ new.pc = "tables" /\ mig' = [mig EXCEPT ![a] = new]
        /\ new.table = t /\ new.left = mig[a].left \ batch /\ new.pc \in (Busy \ {"copy"}) \cup {"done"}
    BY <1>1, <1>2, <1>6 DEF MigRecord, Busy
  <2>2. /\ target \in [Targets -> [Tables -> SUBSET RowIds]]
        /\ target' = [target EXCEPT ![d][t] = target[d][t] \cup batch]
        /\ migration' = migration
    BY <1>2, <1>6, StateShapes DEF Upserted
  <2>3. /\ target'[d][t] = target[d][t] \cup batch
        /\ \A u \in Tables : u # t => target'[d][u] = target[d][u]
        /\ \A e \in Targets \ {d} : target'[e] = target[e]
    BY <1>4, <2>2
  <2>4. target' \in [Targets -> [Tables -> SUBSET RowIds]]
    <3>1. batch \subseteq RowIds
      BY <1>1 DEF MigRecord
    <3>2. target[d][t] \cup batch \in SUBSET RowIds
      BY <1>4, <2>2, <3>1
    <3> QED  BY <2>2, <3>2
  <2>5. TableIsPart(new)
    BY <1>4, <2>1 DEF TableIsPart
  <2>6. GoesOnAs(a, new)
    <3>1. \A u \in Tables : target'[d][u] \subseteq target[d][u] \cup mig[a].copy[u]
      BY <1>4, <2>3
    <3> QED  BY <1>3, <2>1, <2>2, <2>3, <2>4, <2>5, <3>1, StateShapes DEF GoesOnAs
  <2>7. Transferred(a, d) /\ (Excused(a)' <=> Excused(a)) /\ mig'[a] = new => Transferred(a, d)'
    <3>1. \A u \in Tables : u < t => u # t
      BY <1>4 DEF Tables
    <3> QED  BY <1>1, <1>4, <2>1, <2>3, <3>1 DEF Transferred, Copied
  <2> QED  BY <1>1, <2>6, <2>7, GoesOnKeeps
<1> QED  BY <1>5, <1>6

(* The counts differ only when the target has rows that are not in the copy.*)
LEMMA CheckCountsKeeps ==
  ASSUME MigInv, NEW a \in Migrates, CheckCounts(a)
  PROVE  MigInv'
<1>1. /\ mig \in [Migrates -> MigRecord] /\ mig[a] \in MigRecord
      /\ mig[a].pc = "counts" /\ mig[a].pc \in Busy /\ quiet' = quiet
  BY RunningShapes DEF MigInv, CheckCounts, Busy
<1> PICK d \in Targets : mig[a].to = {d} /\ Dest(a) = d
  BY <1>1, LiveTransfer
<1> PICK ok \in BOOLEAN : ok = SameCounts(mig[a].copy, target[d])
  BY DEF SameCounts
<1> PICK new : new = [mig[a] EXCEPT !.pc = "orphans", !.ok = ok]
  OBVIOUS
<1>2. /\ new \in MigRecord /\ new.to = mig[a].to /\ new.path = mig[a].path
      /\ new.copy = mig[a].copy /\ new.pc = "orphans" /\ mig' = [mig EXCEPT ![a] = new]
      /\ new.ok = ok /\ new.pc \in Busy \ {"copy"}
  BY <1>1 DEF CheckCounts, MigRecord, Busy
<1>3. GoesOnAs(a, new) /\ UNCHANGED <<target, sequence>>
  BY <1>1, <1>2, QuietGoesOn
<1>4. Transferred(a, d) => ok \/ Excused(a)
  <2> SUFFICES ASSUME Transferred(a, d), ~Excused(a)  PROVE ok
    OBVIOUS
  <2>1. \A t \in Tables : target[d][t] = mig[a].copy[t]
    BY <1>1 DEF Transferred, Copied
  <2> QED  BY <2>1 DEF SameCounts
<1>5. Transferred(a, d) /\ (Excused(a)' <=> Excused(a)) /\ mig'[a] = new => Transferred(a, d)'
  BY <1>1, <1>2, <1>3, <1>4 DEF Transferred, Copied
<1> QED  BY <1>1, <1>3, <1>5, GoesOnKeeps

(* A target that holds the copy alone has no orphans: the copy has none.   *)
LEMMA CheckOrphansKeeps ==
  ASSUME MigInv, NEW a \in Migrates, CheckOrphans(a)
  PROVE  MigInv'
<1>1. /\ mig \in [Migrates -> MigRecord] /\ mig[a] \in MigRecord
      /\ mig[a].pc = "orphans" /\ mig[a].pc \in Busy /\ quiet' = quiet
  BY RunningShapes DEF MigInv, CheckOrphans, Busy
<1> PICK d \in Targets : mig[a].to = {d} /\ Dest(a) = d
  BY <1>1, LiveTransfer
<1> PICK whole \in BOOLEAN : whole = NoOrphans(target[d])
  BY DEF NoOrphans
<1> PICK new : new = [mig[a] EXCEPT !.pc = "sequences", !.ok = mig[a].ok /\ whole]
  OBVIOUS
<1>2. /\ new \in MigRecord /\ new.to = mig[a].to /\ new.path = mig[a].path
      /\ new.copy = mig[a].copy /\ new.pc = "sequences" /\ mig' = [mig EXCEPT ![a] = new]
      /\ (new.ok <=> mig[a].ok /\ whole) /\ new.pc \in Busy \ {"copy"}
  BY <1>1 DEF CheckOrphans, MigRecord, Busy
<1>3. GoesOnAs(a, new) /\ UNCHANGED <<target, sequence>>
  BY <1>1, <1>2, QuietGoesOn
<1>4. Transferred(a, d) => whole \/ Excused(a)
  <2> SUFFICES ASSUME Transferred(a, d), ~Excused(a)  PROVE whole
    OBVIOUS
  <2>1. \A t \in Tables : target[d][t] = mig[a].copy[t]
    BY <1>1 DEF Transferred, Copied
  <2>2. \A t \in Tables \ {1} : t - 1 \in Tables
    BY DbMigrationAssumption DEF Tables
  <2> QED  BY <2>1, <2>2 DEF NoOrphans, MigInv, ParentsAreThere
<1>5. Transferred(a, d) /\ (Excused(a)' <=> Excused(a)) /\ mig'[a] = new => Transferred(a, d)'
  BY <1>1, <1>2, <1>3, <1>4 DEF Transferred, Copied
<1> QED  BY <1>1, <1>3, <1>5, GoesOnKeeps

(* The sequences move to the highest identifier that is stored.            *)
LEMMA ResyncKeeps ==
  ASSUME MigInv, NEW a \in Migrates, Resync(a)
  PROVE  MigInv'
<1>1. /\ mig \in [Migrates -> MigRecord] /\ mig[a] \in MigRecord
      /\ mig[a].pc = "sequences" /\ mig[a].pc \in Busy
      /\ UNCHANGED <<sqlite, lost, target, migration, overlap>>
  BY RunningShapes DEF MigInv, Resync, Busy, others
<1> PICK d \in Targets : mig[a].to = {d} /\ Dest(a) = d
  BY <1>1, LiveTransfer
<1> PICK new : new = [mig[a] EXCEPT !.pc = "settings"]
  OBVIOUS
<1>2. /\ new \in MigRecord /\ new.to = mig[a].to /\ new.path = mig[a].path
      /\ new.copy = mig[a].copy /\ new.pc = "settings" /\ mig' = [mig EXCEPT ![a] = new]
      /\ new.ok = mig[a].ok /\ new.pc \in (Busy \ {"copy"}) \cup {"done"}
  BY <1>1 DEF Resync, To, MigRecord, Busy
<1>3. /\ sequence' \in [Targets -> [Tables -> Nat]]
      /\ \A t \in Tables : \A n \in target[d][t] : n <= sequence'[d][t]
  <2>1. \A t \in Tables : target[d][t] \in SUBSET RowIds
    BY StateShapes
  <2>2. \A t \in Tables : Highest(target[d][t]) \in Nat /\ \A n \in target[d][t] : n <= Highest(target[d][t])
    BY <2>1, HighestBounds
  <2> HIDE DEF Highest
  <2>3. sequence' = [sequence EXCEPT ![d] = [t \in Tables |-> Highest(target[d][t])]]
    BY DEF Resync
  <2> QED  BY <2>2, <2>3, StateShapes
<1>4. GoesOnAs(a, new)
  BY <1>1, <1>2, <1>3, StateShapes DEF GoesOnAs
<1>5. Transferred(a, d) /\ (Excused(a)' <=> Excused(a)) /\ mig'[a] = new => Transferred(a, d)'
  BY <1>1, <1>2, <1>3 DEF Transferred, Copied
<1> QED  BY <1>1, <1>4, <1>5, GoesOnKeeps

(* The settings are there, as all tables are.                              *)
LEMMA CheckSettingsKeeps ==
  ASSUME MigInv, NEW a \in Migrates, CheckSettings(a)
  PROVE  MigInv'
<1>1. /\ mig \in [Migrates -> MigRecord] /\ mig[a] \in MigRecord
      /\ mig[a].pc = "settings" /\ mig[a].pc \in Busy /\ quiet' = quiet
  BY RunningShapes DEF MigInv, CheckSettings, Busy
<1> PICK d \in Targets : mig[a].to = {d} /\ Dest(a) = d
  BY <1>1, LiveTransfer
<1> PICK same \in BOOLEAN : same = (mig[a].copy[1] \subseteq target[d][1])
  OBVIOUS
<1> PICK new : new = [mig[a] EXCEPT !.pc = "finish", !.ok = mig[a].ok /\ same]
  OBVIOUS
<1>2. /\ new \in MigRecord /\ new.to = mig[a].to /\ new.path = mig[a].path
      /\ new.copy = mig[a].copy /\ new.pc = "finish" /\ mig' = [mig EXCEPT ![a] = new]
      /\ (new.ok <=> mig[a].ok /\ same) /\ new.pc \in Busy \ {"copy"}
  BY <1>1 DEF CheckSettings, MigRecord, Busy
<1>3. GoesOnAs(a, new) /\ UNCHANGED <<target, sequence>>
  BY <1>1, <1>2, QuietGoesOn
<1>4. Transferred(a, d) => same
  <2>1. 1 \in Tables
    BY DbMigrationAssumption DEF Tables
  <2> QED  BY <1>1, <2>1 DEF Transferred, Copied
<1>5. Transferred(a, d) /\ (Excused(a)' <=> Excused(a)) /\ mig'[a] = new => Transferred(a, d)'
  BY <1>1, <1>2, <1>3, <1>4 DEF Transferred, Copied
<1> QED  BY <1>1, <1>3, <1>5, GoesOnKeeps

(* A transfer ends as completed if no check failed, else over an excuse.   *)
LEMMA FinishKeeps ==
  ASSUME MigInv, NEW a \in Migrates, Finish(a)
  PROVE  MigInv'
<1>1. /\ mig \in [Migrates -> MigRecord] /\ mig[a] \in MigRecord
      /\ mig[a].pc = "finish" /\ mig[a].pc \in Busy
      /\ UNCHANGED <<sqlite, lost, check, target, sequence, effort, overlap>>
  BY RunningShapes DEF MigInv, Finish, Busy, others
<1> PICK d \in Targets : mig[a].to = {d} /\ Dest(a) = d /\ a \in Live
  BY <1>1, LiveTransfer
<1>2. CASE mig[a].ok
  <2> PICK new : new = [mig[a] EXCEPT !.pc = "done"]
    OBVIOUS
  <2>1. /\ new \in MigRecord /\ new.to = mig[a].to /\ new.path = mig[a].path
        /\ new.copy = mig[a].copy /\ new.pc = "done" /\ mig' = [mig EXCEPT ![a] = new]
    BY <1>1, <1>2 DEF Finish, To, MigRecord
  <2>2. migration' \in MigrationState /\ migration'.path = migration.path
    BY <1>2, StateShapes DEF Finish, MigrationState
  <2>3. GoesOnAs(a, new)
    BY <1>1, <2>1, <2>2, StateShapes DEF GoesOnAs
  <2>4. mig'[a].pc \notin Busy
    BY <1>1, <2>1 DEF Busy
  <2> QED  BY <1>1, <2>3, <2>4, GoesOnKeeps
<1>3. CASE ~mig[a].ok
  <2>1. a \notin overlap => Excused(a)
    BY <1>1, <1>3 DEF MigInv, AloneTransferred, Transferred, Copied
  <2> QED  BY <1>1, <1>3, <2>1, FailureKeeps DEF Finish, Fails, others
<1> QED  BY <1>2, <1>3

-----------------------------------------------------------------------------
(* The steps of requests and of the running application.                   *)
LEMMA MigrateChecksKeeps ==
  ASSUME MigInv, NEW a \in Migrates, MigrateChecks(a)
  PROVE  MigInv'
<1>1. mig \in [Migrates -> MigRecord] /\ mig[a].pc = "idle"
  BY StateShapes DEF MigrateChecks
<1>2. /\ UNCHANGED <<sqlite, lost, target, sequence, migration, overlap>>
      /\ \A o \in Migrates \ {a} : mig'[o] = mig[o]
      /\ mig' \in [Migrates -> MigRecord] /\ mig'[a].pc \in {"checked", "refused"}
      /\ mig'[a].to = mig[a].to /\ mig'[a].path = mig[a].path /\ mig'[a].copy = mig[a].copy
  BY <1>1 DEF MigrateChecks, To, others, MigRecord, Asked
<1>3. Live' = Live
  BY <1>1, <1>2 DEF Live, Busy
<1>4. \A m \in Migrates : mig'[m].to = mig[m].to /\ mig'[m].path = mig[m].path /\ mig'[m].copy = mig[m].copy
  BY <1>2
<1>5. \A m \in Migrates : Excused(m)' <=> Excused(m)
  BY <1>2, <1>4 DEF Excused
<1>6a. MigShapes'
  BY <1>2 DEF MigInv, MigShapes, MigRecord
<1>6b. MigBegun'
  <2>1. mig[a].pc \in Asked /\ mig'[a].pc \in Asked /\ mig'[a].pc # "tables"
    BY <1>1, <1>2 DEF Asked
  <2>2. \A m \in Migrates : m = a \/ mig'[m] = mig[m]
    BY <1>2
  <2> QED  BY <1>4, <2>1, <2>2 DEF MigInv, MigBegun
<1>6. MigShapes' /\ MigBegun'
  BY <1>6a, <1>6b
<1>7a. ParentsAreThere' /\ CopiesAreOfFiles'
  BY <1>2, <1>4 DEF MigInv, ParentsAreThere, CopiesAreOfFiles
<1>7b. RowsHaveOrigin'
  <2>1. ASSUME NEW e \in Targets, NEW t \in Tables, NEW n \in target[e][t]
        PROVE  \E o \in Migrates : mig'[o].to = {e} /\ n \in mig'[o].copy[t]
    <3>1. PICK o \in Migrates : mig[o].to = {e} /\ n \in mig[o].copy[t]
      BY DEF MigInv, RowsHaveOrigin
    <3> QED  BY <1>4, <3>1
  <2> QED  BY <1>2, <2>1 DEF RowsHaveOrigin
<1>7. ParentsAreThere' /\ CopiesAreOfFiles' /\ RowsHaveOrigin'
  BY <1>7a, <1>7b
<1>8. LiveOverlap'
  BY <1>2, <1>3 DEF MigInv, LiveOverlap
<1>9. AloneTransferred'
  <2>1. \A m \in Live : m \in Migrates /\ mig'[m] = mig[m]
    BY <1>1, <1>2 DEF Live, Busy
  <2>2. \A m \in Live, d \in Targets : Transferred(m, d)' <=> Transferred(m, d)
    BY <1>2, <1>5, <2>1 DEF Transferred
  <2> QED  BY <1>2, <1>3, <2>1, <2>2 DEF MigInv, AloneTransferred
<1>10. RetryConverges'
  BY <1>2, <1>4 DEF MigInv, RetryConverges
<1> QED  BY <1>6, <1>7, <1>8, <1>9, <1>10 DEF MigInv

(* A transfer that starts beside another is noted as overlapping, and so is*)
(* the other.                                                              *)
LEMMA MigrateStartsKeeps ==
  ASSUME MigInv, NEW a \in Migrates, MigrateStarts(a)
  PROVE  MigInv'
<1>1. mig \in [Migrates -> MigRecord] /\ mig[a].pc = "checked" /\ mig[a].to = {} /\ mig[a].copy = Empty
  BY StateShapes DEF MigrateStarts, MigInv, MigBegun, Asked
<1> PICK d \in Targets :
      mig' = [mig EXCEPT ![a].pc = "copy", ![a].path = migration.path, ![a].to = {d}]
  BY DEF MigrateStarts
<1>2. /\ UNCHANGED <<sqlite, lost, target, sequence>>
      /\ migration' = [migration EXCEPT !.running = TRUE, !.completed = FALSE]
      /\ overlap' = IF Live = {} THEN overlap ELSE overlap \cup Live \cup {a}
  BY DEF MigrateStarts, others
<1>3. /\ \A o \in Migrates \ {a} : mig'[o] = mig[o]
      /\ mig'[a].pc = "copy" /\ mig'[a].path = migration.path /\ mig'[a].to = {d}
      /\ mig'[a].copy = mig[a].copy
  BY <1>1 DEF MigRecord
<1>4. Live' = Live \cup {a} /\ a \notin Live
  BY <1>1, <1>3 DEF Live, Busy
<1>5. MigShapes'
  <2>1. migration \in MigrationState /\ migration.path \in SUBSET Paths
    BY StateShapes DEF MigrationState
  <2>2. mig' \in [Migrates -> MigRecord]
    <3> PICK new : new = [mig[a] EXCEPT !.pc = "copy", !.path = migration.path, !.to = {d}]
      OBVIOUS
    <3>1. mig[a] \in MigRecord /\ {d} \in SUBSET Targets /\ "copy" \in Busy
      BY <1>1 DEF Busy
    <3>2. new \in MigRecord
      BY <2>1, <3>1 DEF MigRecord
    <3>3. mig' = [mig EXCEPT ![a] = new]
      BY <1>1 DEF MigRecord
    <3> QED  BY <1>1, <3>2, <3>3
  <2>3. migration' \in MigrationState /\ migration'.path = migration.path
    BY <1>2, <2>1 DEF MigrationState
  <2>4. overlap' \subseteq Migrates
    BY <1>2 DEF MigInv, MigShapes, Live
  <2> QED  BY <1>2, <2>2, <2>3, <2>4 DEF MigInv, MigShapes, MigRecord, MigrationState
<1>6. MigBegun'
  <2>1. migration.path = {} \/ \E p \in Paths : migration.path = {p}
    BY DEF MigInv, MigShapes
  <2> QED  BY <1>1, <1>3, <2>1 DEF MigInv, MigBegun, Asked
<1>7. ParentsAreThere'
  BY <1>2, <1>3 DEF MigInv, ParentsAreThere
<1>8. CopiesAreOfFiles' /\ RowsHaveOrigin'
  <2>1. \A t \in Tables : mig[a].copy[t] = {}
    BY <1>1 DEF Empty
  <2>2. CopiesAreOfFiles'
    <3>1. ASSUME NEW m \in Migrates, NEW t \in Tables, NEW n \in mig'[m].copy[t]
          PROVE  m # a /\ mig'[m] = mig[m]
      BY <1>3, <2>1, <3>1
    <3>2. ASSUME NEW m \in Migrates, NEW t \in Tables, NEW n \in mig'[m].copy[t]
          PROVE  \E p \in Paths : mig'[m].path = {p} /\ (lost \/ n \in sqlite[p][t])
      <4>1. mig'[m] = mig[m] /\ n \in mig[m].copy[t]
        BY <3>1, <3>2
      <4>2. \E p \in Paths : mig[m].path = {p} /\ (lost \/ n \in sqlite[p][t])
        BY <4>1 DEF MigInv, CopiesAreOfFiles
      <4> QED  BY <4>1, <4>2
    <3> QED  BY <1>2, <3>2 DEF CopiesAreOfFiles
  <2>3. ASSUME NEW e \in Targets, NEW t \in Tables, NEW n \in target[e][t]
        PROVE  \E o \in Migrates : mig'[o].to = {e} /\ n \in mig'[o].copy[t]
    <3>1. PICK o \in Migrates : mig[o].to = {e} /\ n \in mig[o].copy[t]
      BY DEF MigInv, RowsHaveOrigin
    <3>2. o # a
      BY <1>1, <3>1
    <3> QED  BY <1>3, <3>1, <3>2
  <2> QED  BY <1>2, <2>2, <2>3 DEF RowsHaveOrigin
<1>9. LiveOverlap'
  BY <1>2, <1>4 DEF MigInv, LiveOverlap
<1>10. AloneTransferred'
  <2>1. ASSUME NEW m \in Live', m \notin overlap'  PROVE m = a
    BY <1>2, <1>4, <2>1
  <2>2. \A e \in Targets : Transferred(a, e)'
    BY <1>3 DEF Transferred, Copied
  <2> QED  BY <2>1, <2>2 DEF AloneTransferred
<1>11. RetryConverges'
  <2>1. ASSUME NEW m \in Migrates, m \notin overlap', mig'[m].pc = "failed"
        PROVE  \/ lost' \/ mig'[m].path = {}
               \/ \E o \in Migrates \ {m} : mig'[o].to = mig'[m].to /\ mig'[o].path # mig'[m].path
    <3>1. m # a /\ m \notin overlap /\ mig'[m] = mig[m] /\ mig[m].pc = "failed" /\ mig[m].to # {}
      BY <1>2, <1>3, <2>1 DEF MigInv, MigBegun, Asked
    <3>2. CASE lost \/ mig[m].path = {}
      BY <1>2, <3>1, <3>2
    <3>3. ASSUME NEW o \in Migrates \ {m}, mig[o].to = mig[m].to, mig[o].path # mig[m].path
          PROVE  mig'[o].to = mig'[m].to /\ mig'[o].path # mig'[m].path
      <4>1. o # a
        BY <1>1, <3>1, <3>3
      <4> QED  BY <1>3, <3>1, <3>3, <4>1
    <3> QED  BY <3>1, <3>2, <3>3 DEF MigInv, RetryConverges
  <2> QED  BY <2>1 DEF RetryConverges
<1> QED  BY <1>5, <1>6, <1>7, <1>8, <1>9, <1>10, <1>11 DEF MigInv

(* An edit adds a row with its parent to a file, or is noted as a loss.    *)
LEMMA SourceEditedKeeps ==
  ASSUME MigInv, NEW p \in Paths, NEW t \in Tables, NEW n \in RowIds, SourceEdited(p, t, n)
  PROVE  MigInv'
<1>1. sqlite \in [Paths -> [Tables -> SUBSET RowIds]] /\ lost \in BOOLEAN
  BY DEF MigInv, MigShapes
<1>2. UNCHANGED <<target, sequence, migration, mig, overlap>>
  BY DEF SourceEdited
<1>3. /\ sqlite' \in [Paths -> [Tables -> SUBSET RowIds]] /\ lost' \in BOOLEAN /\ (lost => lost')
      /\ lost' \/ \A q \in Paths, u \in Tables : sqlite[q][u] \subseteq sqlite'[q][u]
  <2>1. ASSUME NEW ids \in SUBSET RowIds, sqlite' = [sqlite EXCEPT ![p][t] = ids]
        PROVE  /\ sqlite' \in [Paths -> [Tables -> SUBSET RowIds]]
               /\ sqlite[p][t] \subseteq ids => \A q \in Paths, u \in Tables : sqlite[q][u] \subseteq sqlite'[q][u]
    BY <1>1, <2>1
  <2>2. CASE sqlite' = [sqlite EXCEPT ![p][t] = @ \cup {n}] /\ UNCHANGED lost
    <3>1. sqlite[p][t] \cup {n} \in SUBSET RowIds
      BY <1>1
    <3> QED  BY <1>1, <2>1, <2>2, <3>1
  <2>3. CASE sqlite' = [sqlite EXCEPT ![p][t] = @ \ {n}] /\ lost' = TRUE
    <3>1. sqlite[p][t] \ {n} \in SUBSET RowIds
      BY <1>1
    <3> QED  BY <1>1, <2>1, <2>3, <3>1
  <2> QED  BY <2>2, <2>3 DEF SourceEdited
<1>4. \A q \in Paths : NoOrphans(sqlite'[q])
  <2>1. \A u \in Tables \ {1} : u - 1 \in Tables /\ u # u - 1 /\ u > 1
    BY DbMigrationAssumption DEF Tables
  <2>2. ASSUME n \in sqlite[p][t], (t < NTables => n \notin sqlite[p][t + 1])
        PROVE  \A u \in Tables \ {1} : u - 1 = t => n \notin sqlite[p][u]
    BY <2>2, DbMigrationAssumption DEF Tables
  <2>3. \A q \in Paths, u \in Tables \ {1} : sqlite[q][u] \subseteq sqlite[q][u - 1]
    BY DEF MigInv, ParentsAreThere, NoOrphans
  <2>4. ASSUME NEW u \in Tables \ {1}  PROVE sqlite'[p][u] \subseteq sqlite'[p][u - 1]
    <3>1. CASE sqlite' = [sqlite EXCEPT ![p][t] = @ \cup {n}] /\ (t > 1 => n \in sqlite[p][t - 1])
      BY <1>1, <2>1, <2>3, <3>1
    <3>2. CASE /\ sqlite' = [sqlite EXCEPT ![p][t] = @ \ {n}] /\ n \in sqlite[p][t]
               /\ (t < NTables => n \notin sqlite[p][t + 1])
      BY <1>1, <2>1, <2>2, <2>3, <3>2
    <3> QED  BY <3>1, <3>2 DEF SourceEdited
  <2>5. \A q \in Paths \ {p} : sqlite'[q] = sqlite[q]
    BY <1>1 DEF SourceEdited
  <2> QED  BY <2>3, <2>4, <2>5 DEF NoOrphans
<1>5. MigShapes' /\ MigBegun' /\ ParentsAreThere'
  BY <1>2, <1>3, <1>4 DEF MigInv, MigShapes, MigBegun, ParentsAreThere
<1>6. CopiesAreOfFiles'
  BY <1>2, <1>3 DEF MigInv, CopiesAreOfFiles
<1>7. RowsHaveOrigin' /\ LiveOverlap'
  BY <1>2 DEF MigInv, RowsHaveOrigin, LiveOverlap, Live
<1>8. \A m \in Migrates : Excused(m) => Excused(m)'
  BY <1>2, <1>3 DEF Excused
<1>9. AloneTransferred'
  <2>1. \A m \in Migrates, d \in Targets : Transferred(m, d) => Transferred(m, d)'
    BY <1>2, <1>8 DEF Transferred
  <2>2. Live' = Live /\ Live \subseteq Migrates
    BY <1>2 DEF Live
  <2> QED  BY <1>2, <2>1, <2>2 DEF MigInv, AloneTransferred
<1>10. RetryConverges'
  BY <1>2, <1>3 DEF MigInv, RetryConverges
<1> QED  BY <1>5, <1>6, <1>7, <1>9, <1>10 DEF MigInv

(* Requests that change the workflow alone, and not to no file.            *)
LEMMA RequestKeeps ==
  ASSUME MigInv, UNCHANGED requestRest, migration' \in MigrationState,
         migration'.path = migration.path \/ \E p \in Paths : migration'.path = {p}
  PROVE  MigInv'
<1>1. UNCHANGED <<sqlite, target, sequence, mig, overlap, lost>>
  BY DEF requestRest, dbVars
<1>2. MigShapes'
  BY <1>1 DEF MigInv, MigShapes, MigrationState
<1>3. MigBegun' /\ ParentsAreThere' /\ CopiesAreOfFiles' /\ RowsHaveOrigin'
  BY <1>1 DEF MigInv, MigBegun, ParentsAreThere, CopiesAreOfFiles, RowsHaveOrigin
<1>4. LiveOverlap' /\ AloneTransferred' /\ RetryConverges'
  BY <1>1 DEF MigInv, LiveOverlap, AloneTransferred, RetryConverges, Live, Transferred, Excused
<1> QED  BY <1>2, <1>3, <1>4 DEF MigInv

(* Every step keeps the invariant.                                         *)
LEMMA MigInvStep ==
  ASSUME MigInv, [MigNext]_migVars
  PROVE  MigInv'
<1>1. ASSUME NEW a \in Migrates, Transfer(a)  PROVE MigInv'
  BY <1>1, StageCopyKeeps, OpenTargetKeeps, CopyBatchKeeps, TableDoneKeeps, CheckCountsKeeps,
     CheckOrphansKeeps, ResyncKeeps, CheckSettingsKeeps, FinishKeeps DEF Transfer
<1>2. ASSUME NEW p \in Paths, SelectSource(p)  PROVE MigInv'
  <2>1. migration' \in MigrationState /\ migration'.path = {p}
    BY <1>2 DEF SelectSource, NoWorkflow, MigrationState
  <2> QED  BY <1>2, <2>1, RequestKeeps DEF SelectSource
<1>3. CASE ValidateReads \/ ValidateEnds \/ ConnectTarget \/ PrepareTarget \/ Activate
  <2>1. UNCHANGED requestRest
    BY <1>3 DEF ValidateReads, ValidateEnds, ConnectTarget, PrepareTarget, Activate
  <2>2. migration' \in MigrationState /\ migration'.path = migration.path
    BY <1>3, StateShapes
       DEF ValidateReads, ValidateEnds, ConnectTarget, PrepareTarget, Activate,
                             MigrationState
  <2> QED  BY <2>1, <2>2, RequestKeeps
<1>4. CASE UNCHANGED migVars
  <2>1. UNCHANGED requestRest /\ migration' = migration
    BY <1>4 DEF migVars, requestRest
  <2> QED  BY <2>1, StateShapes, RequestKeeps
<1> QED
  BY <1>1, <1>2, <1>3, <1>4, SourceEditedKeeps, MigrateChecksKeeps, MigrateStartsKeeps,
     TransferErrorKeeps DEF MigNext

(* The files start without orphans: SQLite checks the foreign keys.        *)
LEMMA MigInitially ==
  ASSUME \A p \in Paths : NoOrphans(Rows0[p]), MigInit
  PROVE  MigInv
<1>1. MigShapes
  <2>1. Empty \in [Tables -> SUBSET RowIds] /\ 0 \in 0..NTables + 1
    BY DbMigrationAssumption DEF Empty
  <2>2. NoMig \in MigRecord
    BY <2>1 DEF NoMig, MigRecord, Asked
  <2>3. mig \in [Migrates -> MigRecord]
    BY <2>2 DEF MigInit
  <2>4. /\ sqlite \in [Paths -> [Tables -> SUBSET RowIds]]
        /\ target \in [Targets -> [Tables -> SUBSET RowIds]]
        /\ sequence \in [Targets -> [Tables -> Nat]]
    BY <2>1, DbMigrationAssumption DEF MigInit
  <2> QED  BY <2>3, <2>4 DEF MigInit, MigShapes, MigRecord, NoWorkflow
<1>2. \A m \in Migrates : mig[m].pc = "idle" /\ mig[m].to = {} /\ mig[m].path = {} /\ mig[m].copy = Empty
  BY DEF MigInit, NoMig
<1>3. Live = {}
  BY <1>2 DEF Live, Busy
<1>4. MigBegun /\ AloneTransferred /\ LiveOverlap /\ RetryConverges
  BY <1>2, <1>3 DEF MigBegun, AloneTransferred, LiveOverlap, RetryConverges, Asked
<1>5. \A t \in Tables : Empty[t] = {}
  BY DEF Empty
<1>6. NoOrphans(Empty)
  <2>1. \A t \in Tables \ {1} : t \in Tables
    OBVIOUS
  <2> QED  BY <1>5, <2>1 DEF NoOrphans
<1>7. ParentsAreThere
  BY <1>2, <1>6 DEF MigInit, ParentsAreThere
<1>8. CopiesAreOfFiles /\ RowsHaveOrigin
  BY <1>2, <1>5 DEF MigInit, CopiesAreOfFiles, RowsHaveOrigin
<1> QED  BY <1>1, <1>4, <1>7, <1>8 DEF MigInv

(* Only the last step of a transfer reports it as completed.               *)
LEMMA DoneByFinish ==
  ASSUME MigInv, [MigNext]_migVars, NEW m \in Migrates, mig[m].pc = "finish", mig'[m].pc = "done"
  PROVE  Finish(m) /\ mig[m].ok
<1>1. mig \in [Migrates -> MigRecord]
  BY StateShapes
<1>2. mig' # mig
  OBVIOUS
<1>3. ASSUME NEW a \in Migrates,
             MigrateChecks(a) \/ MigrateStarts(a) \/ Transfer(a) \/ TransferError(a)
      PROVE  a = m
  <2>1. ASSUME NEW new, mig' = [mig EXCEPT ![a] = new]  PROVE a = m
    BY <1>1, <2>1
  <2>2. \E new : mig' = [mig EXCEPT ![a] = new]
    <3>1. CASE MigrateChecks(a) \/ TransferError(a) \/ Resync(a) \/ Finish(a)
      BY <3>1 DEF MigrateChecks, TransferError, FailsAs, Resync, Finish, Fails, To
    <3>2. CASE MigrateStarts(a)
      BY <1>1, <3>2 DEF MigrateStarts
    <3>3. CASE StageCopy(a)
      BY <1>1, <3>3 DEF StageCopy, Fails, FailsAs, To
    <3>4. CASE OpenTarget(a) \/ CheckCounts(a) \/ CheckOrphans(a) \/ CheckSettings(a)
      BY <1>1, <3>4 DEF OpenTarget, CheckCounts, CheckOrphans, CheckSettings
    <3>5. CASE CopyBatch(a)
      BY <1>1, <3>5 DEF CopyBatch, Fails, FailsAs, To
    <3>6. CASE TableDone(a)
      BY <1>1, <3>6 DEF TableDone
    <3> QED  BY <1>3, <3>1, <3>2, <3>3, <3>4, <3>5, <3>6 DEF Transfer
  <2> QED  BY <2>1, <2>2
<1>4. ASSUME MigrateChecks(m) \/ MigrateStarts(m) \/ Transfer(m) \/ TransferError(m)
      PROVE  Finish(m)
  BY <1>4
     DEF MigrateChecks, MigrateStarts, TransferError, Transfer, StageCopy, OpenTarget,
         CopyBatch,
              TableDone, CheckCounts, CheckOrphans, Resync, CheckSettings
<1>5. Finish(m)
  BY <1>2, <1>3, <1>4
     DEF MigNext, migVars, SourceEdited, SelectSource, ValidateReads, ValidateEnds,
     ConnectTarget, PrepareTarget, Activate, requestRest
<1>6. mig[m].ok
  BY <1>1, <1>5 DEF Finish, Fails, FailsAs, To, MigRecord
<1> QED  BY <1>5, <1>6

(* A transfer that ran alone and is reported as completed has copied every *)
(* row of its file, each under its parent, and left no sequence behind     *)
(* them (runMigrationTransfer), whatever failed before it.                 *)
THEOREM CompletedTransfersAreWhole ==
  ASSUME \A p \in Paths : NoOrphans(Rows0[p])
  PROVE  MigSpec => CompletedMeansCopied
<1> DEFINE Whole ==
      \A m \in Migrates \ overlap' :
        mig[m].pc = "finish" /\ mig'[m].pc = "done" =>
          LET d == Dest(m)
          IN /\ \A t \in Tables : /\ mig[m].copy[t] \subseteq target[d][t]
                                  /\ \A n \in target[d][t] : n <= sequence[d][t]
             /\ NoOrphans(target[d])
<1>1. MigInit => MigInv
  BY MigInitially
<1>2. MigInv /\ [MigNext]_migVars => MigInv'
  BY MigInvStep
<1>3. ASSUME MigInv, [MigNext]_migVars  PROVE [Whole]_migVars
  <2> SUFFICES ASSUME NEW m \in Migrates, m \notin overlap', mig[m].pc = "finish", mig'[m].pc = "done"
               PROVE  LET d == Dest(m)
                      IN /\ \A t \in Tables : /\ mig[m].copy[t] \subseteq target[d][t]
                                              /\ \A n \in target[d][t] : n <= sequence[d][t]
                         /\ NoOrphans(target[d])
    OBVIOUS
  <2>1. mig[m].ok /\ m \notin overlap /\ mig[m].pc \in Busy
    BY <1>3, DoneByFinish DEF Finish, Busy
  <2>2. PICK d \in Targets : mig[m].to = {d} /\ Dest(m) = d /\ m \in Live
    BY <1>3, <2>1, LiveTransfer
  <2>3. Transferred(m, d)
    BY <1>3, <2>1, <2>2 DEF MigInv, AloneTransferred
  <2> QED  BY <2>1, <2>2, <2>3 DEF Transferred, Copied
<1> QED  BY <1>1, <1>2, <1>3, PTL DEF MigSpec, CompletedMeansCopied

(* A transfer that ran alone and met no error fails only over rows that    *)
(* its file does not hold: deleted since an earlier transfer, or of another*)
(* file; any number of transfers that failed half-way do not harm it.      *)
THEOREM TransfersConverge ==
  ASSUME \A p \in Paths : NoOrphans(Rows0[p])
  PROVE  MigSpec => []RetryConverges
<1>1. MigInit => MigInv
  BY MigInitially
<1>2. MigInv /\ [MigNext]_migVars => MigInv'
  BY MigInvStep
<1>3. MigInv => RetryConverges
  BY DEF MigInv
<1> QED  BY <1>1, <1>2, <1>3, PTL DEF MigSpec

=============================================================================
