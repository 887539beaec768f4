---------------------------- MODULE SearchQueue ----------------------------
(***************************************************************************)
(* internal/web/server.go: the Search + Download queue.  A request leaves  *)
(* a task row in the table downloads and an item in s.bulkReleaseQueue;    *)
(* one worker goroutine lives while the queue is not empty; after a        *)
(* restart the rows that are left are queued again.                        *)
(*                                                                         *)
(* Processes.  The request handlers (a call creates at most one task, so   *)
(* a task is named by its call), the worker, and resumeSearchDownloadTasks.*)
(* Atomicity.  A statement on the database, or a critical section of       *)
(* s.bulkReleaseMu, is one action.  What a search finds is an outcome; the *)
(* download it may create is mat[rel], the other row of the release.       *)
(***************************************************************************)
EXTENDS Integers, FiniteSets, SequencesExt

CONSTANTS
  SearchCalls,       \* the requests for a search, in order, and the tasks they create
  Releases,
  CallRelease, \* [SearchCalls -> Releases]
  Forced,      \* the calls with force set
  CallPriority,\* [SearchCalls -> Int]: the priority computed for the release
  EditedTo,    \* the priorities an edit may set
  MaxPriorityEdits,   \* bound: how many priorities are edited
  MaxTaskRetries,     \* bound: how often a failed task is retried
  MaxServerRestarts   \* bound: how often the server is killed

ASSUME SearchQueueAssumption ==
  /\ IsFiniteSet(SearchCalls) /\ SearchCalls \subseteq Int /\ CallRelease \in [SearchCalls -> Releases] /\ Forced \subseteq SearchCalls
  /\ CallPriority \in [SearchCalls -> Int] /\ EditedTo \subseteq Int
  /\ MaxPriorityEdits \in Nat /\ MaxTaskRetries \in Nat /\ MaxServerRestarts \in Nat

VARIABLES
  task,     \* task[c]: the row of the task c created
  mat,      \* mat[rel]: the download row of the release besides its tasks
  call,     \* call[c]: where the handler of c is
  retry,    \* retry[c]: where a retry of task c is
  edit,     \* the priority edit whose queue half is still to come, or {}
  queue,    \* s.bulkReleaseQueue, in the order of seq
  running,  \* s.bulkReleaseRunning
  worker,   \* runBulkReleaseJobs: its step and its item
  resume,   \* resumeSearchDownloadTasks: its step and what it has listed
  bounds    \* how many edits, retries and restarts there were

taskVars == <<task, mat>>
queueVars == <<queue, running>>
searchVars == <<taskVars, call, retry, edit, queueVars, worker, resume, bounds>>

NoTask == [status |-> "none", force |-> FALSE, prio |-> 0]
Item(c, f, p) == [task |-> c, force |-> f, prio |-> p]
Items == [task : SearchCalls, force : BOOLEAN, prio : Int]
Off == [pc |-> "off", item |-> {}, row |-> {}]
Waiting == [pc |-> "waiting", items |-> <<>>, drop |-> {}]
Pending == {"search_queued", "searching"}

SearchTypeOK ==
  /\ task \in [SearchCalls -> [status : {"none", "deleted", "failed"} \cup Pending,
                         force : BOOLEAN, prio : Int]]
  /\ mat \in [Releases -> {"none", "active", "completed"}]
  /\ call \in [SearchCalls -> {"idle", "listed", "saved", "done"}]
  /\ retry \in [SearchCalls -> {"no", "listed", "saved"}]
  /\ edit \in SUBSET [task : SearchCalls, prio : EditedTo]
  /\ queue \in Seq(Items) /\ running \in BOOLEAN
  /\ worker.pc \in {"off", "pick", "begin", "search", "finish", "fail"}
  /\ worker.item \subseteq Items /\ worker.row \subseteq Int
  /\ resume.pc \in {"waiting", "listed", "dropped", "over"}
  /\ resume.items \in Seq(Items) /\ resume.drop \subseteq SearchCalls
  /\ bounds \in [edits : 0..MaxPriorityEdits, retries : 0..MaxTaskRetries,
                 restarts : 0..MaxServerRestarts]

SearchInit ==
  /\ task = [c \in SearchCalls |-> NoTask]
  /\ mat = [rel \in Releases |-> "none"]
  /\ call = [c \in SearchCalls |-> "idle"]
  /\ retry = [c \in SearchCalls |-> "no"]
  /\ edit = {}
  /\ queue = <<>> /\ running = FALSE
  /\ worker = Off /\ resume = Waiting
  /\ bounds = [edits |-> 0, retries |-> 0, restarts |-> 0]

-----------------------------------------------------------------------------
Tasks(rel) == {c \in SearchCalls : CallRelease[c] = rel /\ task[c].status \in Pending}

(* createSearchDownloadTask answers "already queued" for a release with a  *)
(* pending task, or with a download that is active or, unless forced, done.*)
AlreadyQueued(c) ==
  LET rel == CallRelease[c]
  IN \/ Tasks(rel) # {}
     \/ mat[rel] = "active"
     \/ mat[rel] = "completed" /\ c \notin Forced

(* enqueueBulkReleaseItems: the items go to the end, and a worker is       *)
(* started unless one is running.                                          *)
Enqueue(items) ==
  /\ queue' = queue \o items
  /\ running' = TRUE
  /\ worker' = IF running THEN worker ELSE [Off EXCEPT !.pc = "pick"]

(* backgroundSearchAndDownloadRelease and bulkMonitorAndDownloadReleases:  *)
(* the rows are listed ...                                                 *)
ListTaskRows(c) ==
  /\ call[c] = "idle"
  /\ call' = [call EXCEPT ![c] = IF AlreadyQueued(c) THEN "done" ELSE "listed"]
  /\ UNCHANGED <<taskVars, retry, edit, queueVars, worker, resume, bounds>>

(* ... the task is saved ...                                               *)
CreateTask(c) ==
  /\ call[c] = "listed"
  /\ task' = [task EXCEPT ![c] = [status |-> "search_queued", force |-> c \in Forced,
                                  prio |-> CallPriority[c]]]
  /\ call' = [call EXCEPT ![c] = "saved"]
  /\ UNCHANGED <<mat, retry, edit, queueVars, worker, resume, bounds>>

(* ... and its item queued.                                                *)
EnqueueTask(c) ==
  /\ call[c] = "saved"
  /\ Enqueue(<<Item(c, c \in Forced, CallPriority[c])>>)
  /\ call' = [call EXCEPT ![c] = "done"]
  /\ UNCHANGED <<taskVars, retry, edit, resume, bounds>>

(* retryHTTPDownloads: a failed task is listed, saved as queued again, and *)
(* queued; the row may be deleted in between, which stops neither.         *)
RetryTask(c) ==
  /\ \/ /\ retry[c] = "no" /\ task[c].status = "failed"
        /\ bounds.retries < MaxTaskRetries
        /\ bounds' = [bounds EXCEPT !.retries = @ + 1]
        /\ retry' = [retry EXCEPT ![c] = "listed"]
        /\ UNCHANGED <<task, queueVars, worker>>
     \/ /\ retry[c] = "listed"
        /\ retry' = [retry EXCEPT ![c] = "saved"]
        /\ task' = IF task[c].status = "deleted" THEN task
                   ELSE [task EXCEPT ![c].status = "search_queued"]
        /\ UNCHANGED <<queueVars, worker, bounds>>
     \/ /\ retry[c] = "saved"
        /\ retry' = [retry EXCEPT ![c] = "no"]
        /\ Enqueue(<<Item(c, FALSE, task[c].prio)>>)
        /\ UNCHANGED <<task, bounds>>
  /\ UNCHANGED <<mat, call, edit, resume>>

(* updateDownloadPriorities: first the row, then the item in the queue.    *)
EditTaskPriority(c) ==
  /\ \/ /\ edit = {} /\ bounds.edits < MaxPriorityEdits
        /\ task[c].status \in Pending \cup {"failed"}
        /\ \E p \in EditedTo :
             /\ edit' = {[task |-> c, prio |-> p]}
             /\ task' = [task EXCEPT ![c].prio = p]
        /\ bounds' = [bounds EXCEPT !.edits = @ + 1]
        /\ UNCHANGED queue
     \/ \E e \in edit :
        /\ e.task = c /\ edit' = {}
        /\ queue' = [i \in DOMAIN queue |->
             IF queue[i].task = c THEN [queue[i] EXCEPT !.prio = e.prio] ELSE queue[i]]
        /\ UNCHANGED <<task, bounds>>
  /\ UNCHANGED <<mat, call, retry, running, worker, resume>>

(* RemoveDownload of a task row: its item, if queued, stays.               *)
RemoveTask(c) ==
  /\ task[c].status \in Pending \cup {"failed"}
  /\ task' = [task EXCEPT ![c].status = "deleted"]
  /\ UNCHANGED <<mat, call, retry, edit, queueVars, worker, resume, bounds>>

(* The download of a release ends, or is removed.                          *)
DownloadEnds(rel) ==
  /\ mat[rel] = "active"
  /\ \E m \in {"none", "completed"} : mat' = [mat EXCEPT ![rel] = m]
  /\ UNCHANGED <<task, call, retry, edit, queueVars, worker, resume, bounds>>

-----------------------------------------------------------------------------
(* bestBulkReleaseQueueIndex: the lowest priority, the oldest among equals.*)
BestItem(q) ==
  CHOOSE i \in DOMAIN q :
    \A j \in DOMAIN q : q[i].prio < q[j].prio \/ (q[i].prio = q[j].prio /\ i <= j)

(* runBulkReleaseJobs takes the best item, or ends on an empty queue.      *)
Pick ==
  /\ worker.pc = "pick"
  /\ IF queue = <<>>
       THEN /\ running' = FALSE /\ worker' = Off
            /\ UNCHANGED queue
       ELSE /\ worker' = [pc |-> "begin", item |-> {queue[BestItem(queue)]}, row |-> {}]
            /\ queue' = RemoveAt(queue, BestItem(queue))
            /\ UNCHANGED running
  /\ UNCHANGED <<taskVars, call, retry, edit, resume, bounds>>

(* The task row is looked up and marked as searching; a task that was      *)
(* removed is searched without it.                                         *)
BeginSearch ==
  /\ worker.pc = "begin"
  /\ \E i \in worker.item :
       LET there == task[i.task].status # "deleted"
       IN /\ worker' = [worker EXCEPT !.pc = "search", !.row = IF there THEN {task[i.task].prio} ELSE {},
                          !.item = {[i EXCEPT !.force = @ \/ (there /\ task[i.task].force)]}]
          /\ task' = IF there THEN [task EXCEPT ![i.task].status = "searching"] ELSE task
  /\ UNCHANGED <<mat, call, retry, edit, queueVars, resume, bounds>>

(* SearchAndDownloadDetailed finds nothing, fails, is refused as a         *)
(* duplicate, or creates the download of the release.                      *)
Search ==
  /\ worker.pc = "search"
  /\ \/ /\ \E step \in {"finish", "fail"} : worker' = [worker EXCEPT !.pc = step]
        /\ UNCHANGED mat
     \/ \E i \in worker.item :
          /\ mat[CallRelease[i.task]] = "none" \/ (i.force /\ mat[CallRelease[i.task]] = "completed")
          /\ mat' = [mat EXCEPT ![CallRelease[i.task]] = "active"]
          /\ worker' = [worker EXCEPT !.pc = "finish"]
  /\ UNCHANGED <<task, call, retry, edit, queueVars, resume, bounds>>

(* finishTask deletes the row of a task that has ended, or saves its copy  *)
(* of the row as failed, unless the row was deleted meanwhile.             *)
FinishTask ==
  /\ worker.pc \in {"finish", "fail"}
  /\ \E i \in worker.item :
       IF worker.row = {} \/ task[i.task].status = "deleted" THEN UNCHANGED task
       ELSE IF worker.pc = "finish" THEN task' = [task EXCEPT ![i.task].status = "deleted"]
       ELSE \E p \in worker.row :
              task' = [task EXCEPT ![i.task].status = "failed", ![i.task].prio = p]
  /\ worker' = [Off EXCEPT !.pc = "pick"]
  /\ UNCHANGED <<mat, call, retry, edit, queueVars, resume, bounds>>

-----------------------------------------------------------------------------
(* resumeSearchDownloadTasks lists the rows once, some time after the      *)
(* start: pending tasks are to be queued again in the order they were      *)
(* added, those whose release has another download are dropped.            *)
Ascending(S) ==
  {s \in [1..Cardinality(S) -> S] : ToSet(s) = S /\ \A i, j \in DOMAIN s : i < j => s[i] < s[j]}
InOrder(S) ==
  {[i \in DOMAIN s |-> Item(s[i], task[s[i]].force, task[s[i]].prio)] : s \in Ascending(S)}

(* Faulty variant: a task that was being searched is not taken up again. *)
QueuedOnly == {c \in SearchCalls : task[c].status = "search_queued"}

ToResume == {c \in SearchCalls : task[c].status \in Pending}

ResumeList ==
  /\ resume.pc = "waiting"
  /\ LET drop == {c \in ToResume : mat[CallRelease[c]] # "none"}
     IN \E items \in InOrder(ToResume \ drop) :
          resume' = [pc |-> "listed", items |-> items, drop |-> drop]
  /\ UNCHANGED <<taskVars, call, retry, edit, queueVars, worker, bounds>>

ResumeDrop ==
  /\ resume.pc = "listed"
  /\ task' = [c \in SearchCalls |-> IF c \in resume.drop THEN [task[c] EXCEPT !.status = "deleted"]
                              ELSE task[c]]
  /\ resume' = [resume EXCEPT !.pc = "dropped", !.drop = {}]
  /\ UNCHANGED <<mat, call, retry, edit, queueVars, worker, bounds>>

ResumeEnqueue ==
  /\ resume.pc = "dropped"
  /\ IF resume.items = <<>> THEN UNCHANGED <<queueVars, worker>> ELSE Enqueue(resume.items)
  /\ resume' = [Waiting EXCEPT !.pc = "over"]
  /\ UNCHANGED <<taskVars, call, retry, edit, bounds>>

(* The server is killed: the rows stay, the queue and the handlers do not. *)
ServerRestart ==
  /\ bounds.restarts < MaxServerRestarts
  /\ bounds' = [bounds EXCEPT !.restarts = @ + 1]
  /\ call' = [c \in SearchCalls |-> IF call[c] = "idle" THEN "idle" ELSE "done"]
  /\ retry' = [c \in SearchCalls |-> "no"]
  /\ edit' = {} /\ queue' = <<>> /\ running' = FALSE
  /\ worker' = Off /\ resume' = Waiting
  /\ UNCHANGED taskVars

WorkerStep == Pick \/ BeginSearch \/ Search \/ FinishTask
ResumeStep == ResumeList \/ ResumeDrop \/ ResumeEnqueue
CallStep(c) == CreateTask(c) \/ EnqueueTask(c)

SearchNext ==
  \/ WorkerStep \/ ResumeStep
  \/ \E c \in SearchCalls : \/ ListTaskRows(c) \/ CallStep(c)
                      \/ RetryTask(c) \/ EditTaskPriority(c) \/ RemoveTask(c)
  \/ \E rel \in Releases : DownloadEnds(rel)
  \/ ServerRestart

SearchSpec == SearchInit /\ [][SearchNext]_searchVars

-----------------------------------------------------------------------------
QueuedTasks(c) == \E i \in DOMAIN queue : queue[i].task = c
Working(c) == \E i \in worker.item : i.task = c
Resumed(c) == resume.pc = "waiting" \/ c \in resume.drop
              \/ \E i \in DOMAIN resume.items : resume.items[i].task = c

(* A task whose row is pending is somebody's: it is queued, or the worker  *)
(* has it, or a handler is about to queue it, or the resumption will.  A   *)
(* restart between the save and the queueing strands none, and no race of  *)
(* completion and submission leaves a queue without its worker             *)
(* (enqueueBulkReleaseItems).                                              *)
PendingTaskIsOwned ==
  /\ \A c \in SearchCalls : task[c].status \in Pending =>
       QueuedTasks(c) \/ Working(c) \/ call[c] = "saved" \/ retry[c] = "saved" \/ Resumed(c)
  /\ queue # <<>> => worker.pc # "off"
=============================================================================
