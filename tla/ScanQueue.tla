----------------------------- MODULE ScanQueue -----------------------------
(***************************************************************************)
(* internal/monitor/service.go: the scan jobs.  One worker goroutine runs  *)
(* them, highest priority first; at its checkpoints a running job yields   *)
(* to a queued job that outranks it, which runs on the same goroutine, on  *)
(* top of the yielding one's call stack.  StartOptions, Stop and Status    *)
(* are called by request handlers and by the scheduler at any time.        *)
(*                                                                         *)
(* Atomicity.  One action is one critical section of s.mu together with    *)
(* the worker's own steps up to the next one.  Stop clears the queue under *)
(* s.mu and cancels the worker's context after unlocking it, so it is two  *)
(* actions.                                                                *)
(*                                                                         *)
(* A job scans its sites in turn; a site is a listing pass (whose progress *)
(* callback is a checkpoint) and a pass that saves each release (which is  *)
(* another).  What is scraped, saved and notified is left out but for the  *)
(* job's error.                                                            *)
(***************************************************************************)
EXTENDS PriorityQueue

CONSTANTS
  Jobs,          \* the calls of StartOptions, with the options they carry:
  Prio,          \*   Priority, resolved: the lower runs first
  SiteTotal,     \*   how many sites the job scans
  WholeCatalog,  \*   the jobs with SiteID = 0: they scan every enabled site
  Scheduled,     \*   the jobs the scheduler starts
  ScheduleKey,   \*   their SiteID and Mode
  NoJob,
  MaxItems,      \* bound: the releases a site lists
  MaxStops       \* bound: the calls of Stop while a worker is there

ASSUME JobsAssumption ==
  /\ Prio \in [Jobs -> Int] /\ SiteTotal \in [Jobs -> Nat]
  /\ WholeCatalog \subseteq Jobs /\ Scheduled \subseteq Jobs
  /\ NoJob \notin Jobs
ASSUME ScanBoundAssumption == MaxItems \in Nat /\ MaxStops \in Nat

VARIABLES
  queue,      \* s.queue
  worker,     \* s.worker
  epoch,      \* how many workers were started; each has a context of its own
  cancelled,  \* the epochs whose context was cancelled
  stopping,   \* the epochs that a Stop has read s.cancel of and not yet called
  stack,      \* the calls of run on the worker's stack, the active one last
  scanStatus,     \* s.job, the fields below
  history,    \* history[j]: what SaveJob recorded of j
  accepted,   \* the jobs StartOptions has been called for
  cleared,    \* those dropped: duplicates, and what Stop found queued
  doomed      \* history variable: the jobs that a Stop found active or queued,
              \* and those that joined the worker it was stopping

scanVars == <<queue, worker, epoch, cancelled, stopping, stack, scanStatus, history,
          accepted, cleared, doomed>>
callVars == <<accepted, cleared, doomed>>
haltVars == <<epoch, cancelled, stopping>>

(* A domain.Job: the fields a nested run could take over from another job. *)
Record == [paused : BOOLEAN, sites : Nat, failed : BOOLEAN]
Clean == [paused |-> FALSE, sites |-> 0, failed |-> FALSE]

Outcomes == {"none", "completed", "failed", "cancelled"}

(* A call of run.  In "begin" it has not read Status yet, in "check" it is *)
(* in checkpoint, in "yield" checkpoint has popped `next`, in "nested" it  *)
(* waits for that run, in "go" it has left checkpoint, in "end" it returns,*)
(* in "saved" SaveJob was called.  `broken` remembers that a site failed.  *)
Frame == [job : Jobs,
          at : {"begin", "check", "yield", "nested", "go", "end", "saved"},
          phase : {"site", "list", "save"},
          site : Nat, item : Nat, next : Jobs \cup {NoJob},
          rec : Record, broken : BOOLEAN]

NewFrame(j) == [job |-> j, at |-> "begin", phase |-> "site", site |-> 0,
                item |-> 0, next |-> NoJob, rec |-> Clean, broken |-> FALSE]

ScanTypeOK ==
  /\ queue \in Seq(Jobs)
  /\ worker \in BOOLEAN
  /\ epoch \in Nat /\ cancelled \subseteq 1..epoch /\ stopping \subseteq 1..epoch
  /\ stack \in Seq(Frame)
  /\ scanStatus \in [running : BOOLEAN, rec : Record]
  /\ history \in [Jobs -> [outcome : Outcomes, broken : BOOLEAN]]
  /\ accepted \subseteq Jobs /\ cleared \subseteq accepted /\ doomed \subseteq accepted

ScanInit ==
  /\ queue = <<>> /\ worker = FALSE
  /\ epoch = 0 /\ cancelled = {} /\ stopping = {}
  /\ stack = <<>>
  /\ scanStatus = [running |-> FALSE, rec |-> Clean]
  /\ history = [j \in Jobs |-> [outcome |-> "none", broken |-> FALSE]]
  /\ accepted = {} /\ cleared = {} /\ doomed = {}

-----------------------------------------------------------------------------
Top == stack[Len(stack)]

SetTop(f) == stack' = [stack EXCEPT ![Len(stack)] = f]

(* setJob: the job's own record becomes the shared status.                 *)
PublishStatus(rec) == scanStatus' = [running |-> TRUE, rec |-> rec]

JobContextDone == epoch \in cancelled

(* The active call is at point p of run.                                   *)
At(p) == stack # <<>> /\ Top.at = p

(* The jobs on the worker's stack, the popped one included.                *)
Running == {stack[i].job : i \in DOMAIN stack}
             \cup ({stack[i].next : i \in DOMAIN stack} \ {NoJob})

Outranks(j) == queue # <<>> /\ Prio[Head(queue)] < Prio[j]

(* A scheduled job like one that is queued already is dropped.             *)
Duplicate(j) ==
  j \in Scheduled /\ \E q \in ToSet(queue) :
                       q \in Scheduled /\ ScheduleKey[q] = ScheduleKey[j]

-----------------------------------------------------------------------------
(* Faulty variants of the operations below.  They are part of no behaviour:*)
(* each one stands for a plausible slip that a property must notice.       *)

(* The new worker goes on with the last one's context. *)
StartWorkerOldContext(j) ==
  /\ ~worker
  /\ j \notin accepted
  /\ accepted' = accepted \cup {j}
  /\ worker' = TRUE
  /\ PublishStatus(Clean)
  /\ stack' = <<NewFrame(j)>>
  /\ UNCHANGED <<epoch, queue, cancelled, stopping, history, cleared, doomed>>

(* The preempting job is run and left in the queue. *)
CheckpointPeek ==
  /\ At("check") /\ ~JobContextDone /\ Outranks(Top.job)
  /\ SetTop([Top EXCEPT !.at = "yield", !.next = Head(queue)])
  /\ UNCHANGED <<queue, worker, haltVars, scanStatus, history, callVars>>

(* The yielding jobs are not resumed. *)
ReturnToQueue ==
  /\ At("saved")
  /\ scanStatus' = [running |-> queue # <<>>, rec |-> Top.rec]
  /\ stack' = <<>>
  /\ UNCHANGED <<queue, worker, haltVars, history, callVars>>

-----------------------------------------------------------------------------
(* StartOptions while a worker is there: the job is queued or dropped.     *)
Enqueue(j) ==
  /\ worker
  /\ j \notin accepted
  /\ accepted' = accepted \cup {j}
  /\ IF Duplicate(j)
     THEN cleared' = cleared \cup {j} /\ UNCHANGED queue
     ELSE queue' = InsertByPriority(queue, Prio, j) /\ UNCHANGED cleared
  /\ doomed' = IF epoch \in stopping \cup cancelled THEN doomed \cup {j} ELSE doomed
  /\ UNCHANGED <<worker, haltVars, stack, scanStatus, history>>

(* StartOptions without one: a worker is started with a fresh context.     *)
StartWorker(j) ==
  /\ ~worker
  /\ j \notin accepted
  /\ accepted' = accepted \cup {j}
  /\ worker' = TRUE
  /\ epoch' = epoch + 1
  /\ PublishStatus(Clean)
  /\ stack' = <<NewFrame(j)>>
  /\ UNCHANGED <<queue, cancelled, stopping, history, cleared, doomed>>

(* Stop empties the queue ...                                              *)
StopClear ==
  /\ worker
  /\ Cardinality(cancelled \cup stopping) < MaxStops
  /\ queue' = <<>>
  /\ cleared' = cleared \cup ToSet(queue)
  /\ doomed' = doomed \cup ToSet(queue) \cup Running
  /\ stopping' = stopping \cup {epoch}
  /\ UNCHANGED <<worker, epoch, cancelled, stack, scanStatus, history, accepted>>

(* ... and cancels the context of the worker it found.                     *)
StopCancel ==
  /\ stopping # {}
  /\ cancelled' = cancelled \cup stopping
  /\ stopping' = {}
  /\ UNCHANGED <<queue, worker, epoch, stack, scanStatus, history, callVars>>

-----------------------------------------------------------------------------
(* run starts from Status(): of the last job's record only the fields that *)
(* it assigns are its own, the others are those of whatever job published  *)
(* last.  SiteCount is assigned by a job that scans every site.            *)
BeginRun ==
  /\ At("begin")
  /\ LET j == Top.job
         rec == [scanStatus.rec EXCEPT !.sites = IF j \in WholeCatalog
                                             THEN SiteTotal[j] ELSE @]
     IN SetTop([Top EXCEPT !.rec = rec,
                           !.at = IF SiteTotal[j] = 0 THEN "end" ELSE "check"])
  /\ UNCHANGED <<queue, worker, haltVars, scanStatus, history, callVars>>

(* The sites cannot be read from the store.                                *)
BeginFails ==
  /\ At("begin")
  /\ SetTop([Top EXCEPT !.rec = [scanStatus.rec EXCEPT !.failed = TRUE],
                        !.broken = TRUE, !.at = "end"])
  /\ UNCHANGED <<queue, worker, haltVars, scanStatus, history, callVars>>

(* checkpoint pops the head of the queue when it outranks the active job,  *)
CheckpointPop ==
  /\ At("check") /\ ~JobContextDone /\ Outranks(Top.job)
  /\ queue' = Tail(queue)
  /\ SetTop([Top EXCEPT !.at = "yield", !.next = Head(queue)])
  /\ UNCHANGED <<worker, haltVars, scanStatus, history, callVars>>

(* says so in the status and calls run for it, ...                         *)
Yield ==
  /\ At("yield")
  /\ LET rec == [Top.rec EXCEPT !.paused = TRUE]
     IN /\ PublishStatus(rec)
        /\ stack' = Append([stack EXCEPT ![Len(stack)] =
                              [Top EXCEPT !.at = "nested", !.rec = rec,
                                          !.next = NoJob]],
                           NewFrame(Top.next))
  /\ UNCHANGED <<queue, worker, haltVars, history, callVars>>

(* ... takes the status back when it has returned, and looks again.        *)
Resume ==
  /\ At("nested")
  /\ LET rec == [Top.rec EXCEPT !.paused = FALSE]
     IN PublishStatus(rec) /\ SetTop([Top EXCEPT !.at = "check", !.rec = rec])
  /\ UNCHANGED <<queue, worker, haltVars, history, callVars>>

CheckpointPass ==
  /\ At("check") /\ (JobContextDone \/ ~Outranks(Top.job))
  /\ SetTop([Top EXCEPT !.at = "go"])
  /\ UNCHANGED <<queue, worker, haltVars, scanStatus, history, callVars>>

(* A cancelled job returns after the checkpoint.                           *)
CheckpointCancelled ==
  /\ At("go") /\ JobContextDone
  /\ SetTop([Top EXCEPT !.at = "end"])
  /\ UNCHANGED <<queue, worker, haltVars, scanStatus, history, callVars>>

(* The next site; the error of the site before is cleared.                 *)
NextSite ==
  /\ At("go") /\ ~JobContextDone /\ Top.phase = "site"
  /\ LET rec == [Top.rec EXCEPT !.failed = FALSE]
     IN /\ PublishStatus(rec)
        /\ SetTop([Top EXCEPT !.at = "check", !.phase = "list", !.rec = rec,
                              !.site = @ + 1, !.item = 0])
  /\ UNCHANGED <<queue, worker, haltVars, history, callVars>>

(* The listing's progress callback.                                        *)
ListItem ==
  /\ At("go") /\ ~JobContextDone /\ Top.phase = "list" /\ Top.item < MaxItems
  /\ PublishStatus(Top.rec)
  /\ SetTop([Top EXCEPT !.at = "check", !.item = @ + 1])
  /\ UNCHANGED <<queue, worker, haltVars, history, callVars>>

(* The site is behind: on to the next one, or the end of the job.          *)
AfterSite(f) == [f EXCEPT !.phase = "site",
                          !.at = IF f.site < SiteTotal[f.job] THEN "check" ELSE "end"]

(* The site cannot be scraped: the job records the error and goes on.      *)
SiteFails ==
  /\ At("go") /\ ~JobContextDone /\ Top.phase = "list"
  /\ SetTop(AfterSite([Top EXCEPT !.rec.failed = TRUE, !.broken = TRUE]))
  /\ UNCHANGED <<queue, worker, haltVars, scanStatus, history, callVars>>

(* The listing is complete; some of its detail pages may have failed.      *)
Listed ==
  /\ At("go") /\ ~JobContextDone /\ Top.phase = "list"
  /\ \E failures \in BOOLEAN :
       SetTop([Top EXCEPT !.at = "check", !.phase = "save",
                          !.rec.failed = @ \/ failures,
                          !.broken = @ \/ failures])
  /\ UNCHANGED <<queue, worker, haltVars, scanStatus, history, callVars>>

(* A release is written to the store, or cannot be.                        *)
SaveItem ==
  /\ At("go") /\ ~JobContextDone /\ Top.phase = "save" /\ Top.item > 0
  /\ \E failure \in BOOLEAN :
       SetTop([Top EXCEPT !.at = "check", !.item = @ - 1,
                          !.rec.failed = @ \/ failure, !.broken = @ \/ failure])
  /\ UNCHANGED <<queue, worker, haltVars, scanStatus, history, callVars>>

SiteDone ==
  /\ At("go") /\ ~JobContextDone /\ Top.phase = "save" /\ Top.item = 0
  /\ SetTop(AfterSite(Top))
  /\ UNCHANGED <<queue, worker, haltVars, scanStatus, history, callVars>>

(* run's deferred function: the outcome is worked out and saved, ...       *)
EndRun ==
  /\ At("end")
  /\ history' = [history EXCEPT ![Top.job] =
       [outcome |-> IF JobContextDone THEN "cancelled"
                    ELSE IF Top.rec.failed THEN "failed" ELSE "completed",
        broken |-> Top.broken]]
  /\ SetTop([Top EXCEPT !.at = "saved"])
  /\ UNCHANGED <<queue, worker, haltVars, scanStatus, callVars>>

(* ... and published as running if anything is queued; run returns.        *)
Return ==
  /\ At("saved")
  /\ scanStatus' = [running |-> queue # <<>>, rec |-> Top.rec]
  /\ stack' = Front(stack)
  /\ UNCHANGED <<queue, worker, haltVars, history, callVars>>

(* runQueue between two jobs: the next one is promoted, ...                *)
Promote ==
  /\ worker /\ stack = <<>> /\ queue # <<>>
  /\ stack' = <<NewFrame(Head(queue))>>
  /\ queue' = Tail(queue)
  /\ PublishStatus(Clean)
  /\ UNCHANGED <<worker, haltVars, history, callVars>>

(* ... or the worker is over.                                              *)
Retire ==
  /\ worker /\ stack = <<>> /\ queue = <<>>
  /\ worker' = FALSE
  /\ scanStatus' = [scanStatus EXCEPT !.running = FALSE]
  /\ UNCHANGED <<queue, haltVars, stack, history, callVars>>

WorkerStep ==
  \/ BeginRun \/ BeginFails \/ CheckpointPop \/ Yield \/ Resume
  \/ CheckpointPass \/ CheckpointCancelled \/ NextSite \/ ListItem \/ SiteFails \/ Listed \/ SaveItem
  \/ SiteDone \/ EndRun \/ Return \/ Promote \/ Retire

ScanNext ==
  \/ \E j \in Jobs : Enqueue(j) \/ StartWorker(j)
  \/ StopClear \/ StopCancel
  \/ WorkerStep

ScanSpec == ScanInit /\ [][ScanNext]_scanVars

(* The worker goroutine and a Stop that has begun go on.                   *)
ScanFairSpec == ScanSpec /\ WF_scanVars(WorkerStep) /\ WF_scanVars(StopCancel)

-----------------------------------------------------------------------------
(* Where the accepted jobs are.                                            *)
InHistory == {j \in Jobs : history[j].outcome # "none"}
Unreturned == {stack[i].job : i \in {k \in DOMAIN stack : stack[k].at # "saved"}}
                \cup ({stack[i].next : i \in DOMAIN stack} \ {NoJob})

(* No job is lost and none is run twice: a job that was accepted is in the *)
(* queue, on the worker's stack, dropped, or recorded, and in one of them. *)
(* A job yields only to one that outranks it, however deep the preemptions *)
(* nest, and every call below the active one is waiting for it.            *)
OnePlaceEach ==
  /\ NoDuplicates(queue)
  /\ accepted = ToSet(queue) \cup Unreturned \cup cleared \cup InHistory
  /\ ToSet(queue) \cap (Unreturned \cup cleared \cup InHistory) = {}
  /\ Unreturned \cap (cleared \cup InHistory) = {}
  /\ cleared \cap InHistory = {}
  /\ \A i \in DOMAIN stack :
       /\ i > 1 => Prio[stack[i].job] < Prio[stack[i - 1].job]
       /\ i < Len(stack) => stack[i].at = "nested"

(* Every accepted job ends up in the history or was dropped: with the      *)
(* finitely many jobs there are, all of them are accounted for at last.    *)
AcceptedEnds == <>[](accepted \subseteq InHistory \cup cleared)

(* Stop cancels the jobs of the worker it finds, and no job of a worker    *)
(* that was started after it, however late its cancel is called.           *)
CancelledOnlyByStop ==
  \A j \in InHistory : history[j].outcome = "cancelled" => j \in doomed
=============================================================================
