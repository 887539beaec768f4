----------------------------- MODULE HttpSlots -----------------------------
(***************************************************************************)
(* internal/download/service.go: the slots that bound how many direct HTTP *)
(* downloads transfer at once, and the priority queue of those that wait.  *)
(*                                                                         *)
(* Processes.  Each call of startHTTPDownload, with the goroutine it       *)
(* starts, is one element of Runs; cancelHTTPDownload, the priority edits  *)
(* and the saves of the setting come from request handlers.                *)
(*                                                                         *)
(* Atomicity.  One action is one critical section of s.httpMu.  The limit  *)
(* is read from the settings before the lock is taken: the reading is part *)
(* of the step before, and by the time it is used it may be stale.         *)
(* What runHTTPDownload does with its slot is left out here; the module    *)
(* HttpDownloads puts it in.                                               *)
(***************************************************************************)
EXTENDS Integers, FiniteSets, SequencesExt

CONSTANTS
  Runs,        \* the calls of startHTTPDownload
  NoRun,       \* no entry in s.httpRuns
  Downloads,   \* the ids of the download rows
  Priorities,  \* the priorities a row may have; the lower is served first
  RowPriority, \* [Runs -> Priorities]: that of the row a run is started for
  Settings,    \* the values http_download_concurrency may be given
  MaxEdits,    \* bound: how many settings and priorities are edited
  StoreMayFail \* whether reading the settings may fail

ASSUME RunsAssumption == IsFiniteSet(Runs) /\ NoRun \notin Runs
ASSUME NumbersAssumption ==
  /\ Priorities \subseteq Int /\ RowPriority \in [Runs -> Priorities]
  /\ Settings \subseteq Int /\ Settings # {}
  /\ MaxEdits \in Nat /\ StoreMayFail \in BOOLEAN

VARIABLES
  setting,   \* the stored http_download_concurrency
  edits,     \* how many edits were made
  active,    \* s.httpActive
  waiters,   \* s.httpWaiters, in order of arrival
  httpRuns,  \* httpRuns[d]: the newest run of d that has not left
  pc,        \* pc[r]: where run r is
  of,        \* of[r]: the download r was started for
  prio,      \* prio[r]: waiter.priority and run.priority
  read,      \* read[r]: the limit r has read for its next critical section
  granted,   \* the runs with waiter.granted
  cancelled  \* the runs whose ctx is done

slotVars == <<active, waiters, granted>>
runVars == <<httpRuns, of, prio, cancelled>>
editVars == <<setting, edits>>
vars == <<slotVars, runVars, editVars, pc, read>>

Steps == {"idle",       \* not called yet
          "starting",   \* in startHTTPDownload, about to lock
          "waiting",    \* in waitForHTTPSlot's select
          "giving_up",  \* in waitForHTTPSlot, cancelled, about to lock
          "working",    \* in runHTTPDownload, with a slot
          "releasing",  \* in releaseHTTPSlot, about to lock
          "leaving",    \* about to delete its entry of httpRuns
          "done"}       \* run.done is closed

(* Faulty variant: a setting of zero, or none, is taken as it is. *)
ClampAboveOnly(n) == IF n > 64 THEN 64 ELSE n

(* httpConcurrency: 1 when the settings cannot be read, else 1 to 64.      *)
Clamp(n) == IF n < 1 THEN 1 ELSE IF n > 64 THEN 64 ELSE n
Readable == {Clamp(setting)} \cup IF StoreMayFail THEN {1} ELSE {}

TypeOK ==
  /\ setting \in Settings /\ edits \in 0..MaxEdits
  /\ active \in Nat
  /\ waiters \in Seq(Runs)
  /\ httpRuns \in [Downloads -> Runs \cup {NoRun}]
  /\ pc \in [Runs -> Steps]
  /\ of \in [Runs -> Downloads]
  /\ prio \in [Runs -> Priorities]
  /\ read \in [Runs -> 1..64]
  /\ granted \subseteq Runs
  /\ cancelled \subseteq Runs

Init ==
  /\ setting \in Settings /\ edits = 0
  /\ active = 0
  /\ waiters = <<>>
  /\ httpRuns = [d \in Downloads |-> NoRun]
  /\ pc = [r \in Runs |-> "idle"]
  /\ of = [r \in Runs |-> CHOOSE d \in Downloads : TRUE]
  /\ prio = RowPriority
  /\ read = [r \in Runs |-> 1]
  /\ granted = {}
  /\ cancelled = {}

-----------------------------------------------------------------------------
(* Faulty variant: among equals the newest is served first. *)
AheadNewestFirst(q, i, j) ==
  \/ prio[q[i]] < prio[q[j]]
  \/ prio[q[i]] = prio[q[j]] /\ i > j

(* Waiter i of q is served before waiter j.                                *)
Ahead(q, i, j) ==
  \/ prio[q[i]] < prio[q[j]]
  \/ prio[q[i]] = prio[q[j]] /\ i < j

(* The waiters the loop of promoteHTTPWaitersLocked picks while fewer than *)
(* limit slots are taken: it takes the first of least priority each time.  *)
Promoted(q, taken, limit) ==
  {q[j] : j \in {k \in DOMAIN q :
             Cardinality({i \in DOMAIN q : Ahead(q, i, k)}) < limit - taken}}

(* What is left of q without them: place n is taken by the entry that n-1  *)
(* of those that stay stand before.                                        *)
Others(q, up) ==
  LET stay == {i \in DOMAIN q : q[i] \notin up}
      before(i) == {j \in stay : j < i}
  IN [n \in 1 .. Cardinality(stay) |->
        q[CHOOSE i \in stay : Cardinality(before(i)) = n - 1]]

(* Faulty variant: at most one waiter is promoted at a time. *)
PromoteBelow(q, taken, limit) ==
  LET up == Promoted(q, taken, limit - 1)
  IN /\ waiters' = Others(q, up)
     /\ granted' = granted \cup up
     /\ active' = taken + Cardinality(up)

(* Faulty variant: the limit is taken for the number of free slots. *)
PromoteWithoutCount(q, taken, limit) ==
  LET up == Promoted(q, 0, limit)
  IN /\ waiters' = Others(q, up)
     /\ granted' = granted \cup up
     /\ active' = taken + Cardinality(up)

(* promoteHTTPWaitersLocked with the queue q and taken slots.              *)
Promote(q, taken, limit) ==
  LET up == Promoted(q, taken, limit)
  IN /\ waiters' = Others(q, up)
     /\ granted' = granted \cup up
     /\ active' = taken + Cardinality(up)

OneLess == IF active > 0 THEN active - 1 ELSE active

MoveTo(r, step) == pc' = [pc EXCEPT ![r] = step]

(* The limit is a local of the function that reads it: 1 before and after.  *)
ReadLimit(r) == \E n \in Readable : read' = [read EXCEPT ![r] = n]
DropLimit(r) == read' = [read EXCEPT ![r] = 1]

(* Faulty variants of the operations below; none is part of a behaviour.   *)

(* A run that stops waiting stays in the queue. *)
ReturnKeepsWaiter(r) ==
  /\ pc[r] = "giving_up"
  /\ Promote(waiters, IF r \in granted THEN OneLess ELSE active, read[r])
  /\ MoveTo(r, "leaving")
  /\ DropLimit(r)
  /\ UNCHANGED <<editVars, runVars>>

(* A cancelled run gives back a slot it was never granted. *)
ReturnAlways(r) ==
  /\ pc[r] = "giving_up"
  /\ Promote(RemoveFirst(waiters, r), OneLess, read[r])
  /\ MoveTo(r, "leaving")
  /\ DropLimit(r)
  /\ UNCHANGED <<editVars, runVars>>

(* The freed slot is offered to nobody. *)
ReleaseQuietly(r) ==
  /\ pc[r] = "releasing"
  /\ active' = OneLess
  /\ MoveTo(r, "leaving")
  /\ DropLimit(r)
  /\ UNCHANGED <<editVars, runVars, waiters, granted>>

-----------------------------------------------------------------------------
(* startHTTPDownload for download d, up to the lock.                       *)
Start(r, d) ==
  /\ pc[r] = "idle"
  /\ of' = [of EXCEPT ![r] = d]
  /\ ReadLimit(r)
  /\ MoveTo(r, "starting")
  /\ UNCHANGED <<editVars, slotVars, httpRuns, prio, cancelled>>

(* Its critical section: a run of the same download that has not left is   *)
(* cancelled, and its waiter is dropped unless it was granted a slot.      *)
Enter(r) ==
  LET previous == httpRuns[of[r]]
      others == IF previous \in granted THEN waiters
                ELSE RemoveFirst(waiters, previous)
  IN /\ pc[r] = "starting"
     /\ cancelled' = cancelled \cup ({previous} \ {NoRun})
     /\ httpRuns' = [httpRuns EXCEPT ![of[r]] = r]
     /\ MoveTo(r, "waiting")
     /\ Promote(Append(others, r), active, read[r])
     /\ DropLimit(r)
     /\ UNCHANGED <<editVars, of, prio>>

(* waitForHTTPSlot returns true.                                           *)
GoAhead(r) ==
  /\ pc[r] = "waiting"
  /\ r \in granted \ cancelled
  /\ MoveTo(r, "working")
  /\ UNCHANGED <<editVars, slotVars, runVars, read>>

(* Its select sees ctx.Done, or ready with a ctx that is done ...          *)
GiveUp(r) ==
  /\ pc[r] = "waiting"
  /\ r \in cancelled
  /\ ReadLimit(r)
  /\ MoveTo(r, "giving_up")
  /\ UNCHANGED <<editVars, slotVars, runVars>>

(* ... and the run gives back what it was granted, or stops waiting.       *)
Return(r) ==
  /\ pc[r] = "giving_up"
  /\ IF r \in granted THEN Promote(waiters, OneLess, read[r])
                      ELSE Promote(RemoveFirst(waiters, r), active, read[r])
  /\ MoveTo(r, "leaving")
  /\ DropLimit(r)
  /\ UNCHANGED <<editVars, runVars>>

(* runHTTPDownload has returned ...                                        *)
FinishWork(r) ==
  /\ pc[r] = "working"
  /\ ReadLimit(r)
  /\ MoveTo(r, "releasing")
  /\ UNCHANGED <<editVars, slotVars, runVars>>

(* ... and the deferred releaseHTTPSlot runs.                              *)
Release(r) ==
  /\ pc[r] = "releasing"
  /\ Promote(waiters, OneLess, read[r])
  /\ MoveTo(r, "leaving")
  /\ DropLimit(r)
  /\ UNCHANGED <<editVars, runVars>>

(* The goroutine's last deferred calls.                                    *)
Leave(r) ==
  /\ pc[r] = "leaving"
  /\ httpRuns' = [httpRuns EXCEPT ![of[r]] = IF @ = r THEN NoRun ELSE @]
  /\ MoveTo(r, "done")
  /\ UNCHANGED <<editVars, slotVars, of, prio, cancelled, read>>

(* cancelHTTPDownload, up to its wait for run.done.                        *)
Cancel(d) ==
  /\ httpRuns[d] # NoRun
  /\ cancelled' = cancelled \cup {httpRuns[d]}
  /\ UNCHANGED <<editVars, slotVars, httpRuns, of, prio, pc, read>>

(* UpdateDownloadPriorities, for a download whose run has no slot yet.     *)
EditPriority(d, p) ==
  /\ edits < MaxEdits
  /\ httpRuns[d] # NoRun /\ httpRuns[d] \notin granted
  /\ p # prio[httpRuns[d]]
  /\ prio' = [prio EXCEPT ![httpRuns[d]] = p]
  /\ edits' = edits + 1
  /\ UNCHANGED <<setting, slotVars, httpRuns, of, cancelled, pc, read>>

(* The setting is saved: nothing in the download service is told.          *)
SaveSetting(n) ==
  /\ edits < MaxEdits
  /\ n # setting
  /\ setting' = n
  /\ edits' = edits + 1
  /\ UNCHANGED <<slotVars, runVars, pc, read>>

RunNext(r) ==
  \/ \E d \in Downloads : Start(r, d)
  \/ Enter(r) \/ GoAhead(r) \/ GiveUp(r) \/ Return(r)
  \/ FinishWork(r) \/ Release(r) \/ Leave(r)

Next ==
  \/ \E r \in Runs : RunNext(r)
  \/ \E d \in Downloads : Cancel(d)
  \/ \E d \in Downloads, p \in Priorities : EditPriority(d, p)
  \/ \E n \in Settings : SaveSetting(n)

Spec == Init /\ [][Next]_vars

(* Every goroutine goes on.  A transfer ends: a stalled stream is cut off  *)
(* after 45 seconds, the attempts are counted, and cancelling the ctx      *)
(* aborts the request.  No download has to be started.                     *)
GoesOn(r) ==
  Enter(r) \/ GoAhead(r) \/ GiveUp(r) \/ Return(r) \/ FinishWork(r) \/ Release(r) \/ Leave(r)

Fairness == \A r \in Runs : WF_vars(GoesOn(r))

FairSpec == Spec /\ Fairness

-----------------------------------------------------------------------------
(* HTTPQueuePosition: a copy of the queue is sorted by priority, stably.   *)
(* Place n of it is that of waiter SortedQueue[n].                         *)
SortedQueue ==
  CHOOSE o \in [DOMAIN waiters -> DOMAIN waiters] :
    \A m, n \in DOMAIN waiters : m < n =>
      \/ prio[waiters[o[m]]] < prio[waiters[o[n]]]
      \/ prio[waiters[o[m]]] = prio[waiters[o[n]]] /\ o[m] < o[n]

QueuePosition(r) == CHOOSE n \in DOMAIN waiters : waiters[SortedQueue[n]] = r

(* The runs that hold a slot.                                              *)
Holders == {r \in granted : pc[r] \notin {"leaving", "done"}}

(* The limits a run may act on.                                            *)
Limits == {Clamp(s) : s \in Settings} \cup IF StoreMayFail THEN {1} ELSE {}

(* README: the setting is the maximum of simultaneous HTTP transfers.  No  *)
(* more are under way than the largest value it has had, and no download   *)
(* waits while every value it has had leaves a slot free: the grants, the  *)
(* releases and the cancellations never forget one.                        *)
LimitIsUsed ==
  /\ \E n \in Limits : Cardinality(Holders) <= n
  /\ waiters # <<>> => \E n \in Limits : Cardinality(Holders) >= n

(* The position shown in the queue tells who is served first: no run gets  *)
(* a slot before one that HTTPQueuePosition puts ahead of it.              *)
ServedByPosition ==
  [][\A a, b \in ToSet(waiters) :
       a \in granted' /\ b \notin granted' /\ b \in ToSet(waiters')
         => QueuePosition(a) < QueuePosition(b)]_vars

(* Every run that was started ends, and leaves nothing behind: with the    *)
(* finitely many runs there are, all of them are over at last.             *)
EveryRunEnds == <>[](\A r \in Runs : pc[r] \in {"idle", "done"})
=============================================================================
