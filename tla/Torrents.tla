------------------------------ MODULE Torrents ------------------------------
(***************************************************************************)
(* internal/download/service.go, torrent_progress.go, video_integrity.go:  *)
(* the torrents that were handed to qBittorrent, the poll that follows     *)
(* them, and the completion pipelines the poll starts.                     *)
(*                                                                         *)
(* Processes.  The poll (Schedule, tick, pollTorrents) is one goroutine;   *)
(* scheduleTorrentProgress is a second one that only fetches the torrent   *)
(* list; every runEventPipelineAsync starts a goroutine that queues its    *)
(* job for the one pipeline worker; Download and RemoveDownload come from  *)
(* request handlers; the torrents live in qBittorrent, where they advance  *)
(* and may be deleted by hand.                                             *)
(*                                                                         *)
(* Data.  A row has its status and its post_status, a torrent its state;   *)
(* telemetry, names and error texts are left out.  A torrent keeps its     *)
(* hash when it is added again, as it does for one magnet.  Statements on  *)
(* the database do not fail here; calls of qBittorrent may.                *)
(***************************************************************************)
EXTENDS Integers, FiniteSets, SequencesExt

CONSTANTS
  Rows,        \* the ids of the torrent rows, each of a release of its own
  Unknown,     \* no torrent list was remembered yet; no row is worked on
  Capacity,    \* the places of s.pipelineJobs (64 in the code)
  MaxRetries,  \* bound: how many repeated downloads are followed
  MaxCrashes   \* bound: how often the process may be killed

ASSUME TorrentAssumption ==
  /\ IsFiniteSet(Rows) /\ Unknown \notin Rows
  /\ Capacity \in Nat /\ MaxRetries \in Nat /\ MaxCrashes \in Nat

Triggers == {"completed", "removed"}
Jobs == Rows \X Triggers

VARIABLES
  row,       \* row[d]: status and post_status in the table downloads
  live,      \* live[d]: the torrent of d in qBittorrent
  snap,      \* s.qbSnapshot
  progress,  \* the list pollTorrentProgress has fetched, or Unknown
  poll,      \* the poll: its step, its list of rows, its copy of a row
  inFlight,  \* s.pipelineInFlight
  jobs,      \* s.pipelineJobs, in the order they were sent
  job,       \* job[j]: the goroutine of runEventPipelineAsync and its copy
  runState,  \* the table pipeline_runs
  request,   \* request[d]: the handler that adds or removes d
  executed,  \* history: how often the steps of a pipeline were run
  retried,   \* history: how often the video of d was to be downloaded again
  kills      \* how often the process was killed

storeVars == <<row, runState>>
pipeVars == <<inFlight, jobs, job, executed>>
torrentVars == <<storeVars, live, snap, progress, poll, pipeVars, request, retried, kills>>

TorrentStates == {"absent", "moving", "stalled", "seeding"}
Statuses == {"none",       \* not inserted yet
             "queued", "downloading", "completed", "failed", "removed",
             "deleted"}    \* the row was deleted
Posts == {"", "fallback", "video_retry", "video_failed", "blacklisted",
          "processing", "pipeline_completed", "pipeline_failed",
          "pipeline_interrupted", "withheld", "cleanup_failed",
          "completed_removed", "removed_pipeline_failed", "removed_unknown"}
Row == [status : Statuses, post : Posts]

PollSteps == {"idle", "fetched", "remembered", "next", "search", "recheck",
              "replace", "replaced", "check", "delete", "add", "resume",
              "complete", "cleanup", "save"}
JobSteps == {"none", "sending", "queued", "running", "finished", "saving"}

TorrentTypeOK ==
  /\ row \in [Rows -> Row]
  /\ live \in [Rows -> TorrentStates]
  /\ snap \in [Rows -> TorrentStates] \cup {Unknown}
  /\ progress \in [Rows -> TorrentStates] \cup {Unknown}
  /\ poll \in [pc : PollSteps, list : [Rows -> Row], left : SUBSET Rows,
               d : Rows \cup {Unknown}, cur : Row, torrents : [Rows -> TorrentStates]]
  /\ inFlight \subseteq Jobs
  /\ jobs \in Seq(Jobs) /\ Len(jobs) <= Capacity
  /\ job \in [Jobs -> [pc : JobSteps, post : Posts, failed : BOOLEAN, copy : Row]]
  /\ runState \in [Jobs -> {"", "running", "completed", "failed"}]
  /\ request \in [Rows -> {"none", "added", "done", "removing"}]
  /\ executed \in [Jobs -> Nat]
  /\ retried \in [Rows -> 0..MaxRetries] /\ kills \in 0..MaxCrashes

NoRow == [status |-> "none", post |-> ""]
IdlePoll == [pc |-> "idle", list |-> [d \in Rows |-> NoRow], left |-> {},
             d |-> Unknown, cur |-> NoRow,
             torrents |-> [d \in Rows |-> "absent"]]
NoJob == [pc |-> "none", post |-> "", failed |-> FALSE, copy |-> NoRow]

TorrentInit ==
  /\ row = [d \in Rows |-> NoRow]
  /\ live = [d \in Rows |-> "absent"]
  /\ snap = Unknown /\ progress = Unknown
  /\ poll = IdlePoll
  /\ inFlight = {} /\ jobs = <<>>
  /\ job = [j \in Jobs |-> NoJob]
  /\ runState = [j \in Jobs |-> ""]
  /\ request = [d \in Rows |-> "none"]
  /\ executed = [j \in Jobs |-> 0]
  /\ retried = [d \in Rows |-> 0]
  /\ kills = 0

-----------------------------------------------------------------------------
(* The rows: what each statement of the store does.                        *)

Active(r) == r.status \in {"downloading", "completed"}

(* downloadGoneFromQBHandled                                               *)
Handled(r) == r.post \in {"completed_removed", "removed_pipeline_failed", "removed_unknown"}

(* SaveDownload updates by id: a deleted row stays deleted.                *)
SaveDownload(d, r) ==
  row' = IF row[d].status = "deleted" THEN row ELSE [row EXCEPT ![d] = r]

(* SaveTorrentState updates only rows that are still active.               *)
SaveTorrentState(d, r) == row' = IF Active(row[d]) THEN [row EXCEPT ![d] = r] ELSE row

-----------------------------------------------------------------------------
(* Requests.                                                               *)

(* Download: the torrent is added and seen in the list of qBittorrent ...  *)
AddTorrent(d) ==
  /\ request[d] = "none" /\ live[d] = "absent"
  /\ request' = [request EXCEPT ![d] = "added"]
  /\ live' = [live EXCEPT ![d] = "moving"]
  /\ UNCHANGED <<storeVars, snap, progress, poll, pipeVars, retried, kills>>

(* ... and its row saved with the hash; a torrent that does not appear     *)
(* leaves a failed row.                                                    *)
SaveAdded(d) ==
  /\ request[d] = "added"
  /\ request' = [request EXCEPT ![d] = "done"]
  /\ row' = [row EXCEPT ![d] = [status |-> IF live[d] = "absent" THEN "failed" ELSE "downloading",
                                post |-> ""]]
  /\ UNCHANGED <<runState, live, snap, progress, poll, pipeVars, retried, kills>>

(* RemoveDownload: a row whose torrent has gone is only deleted; another   *)
(* has its torrent removed first, and keeps its row when that fails.       *)
RemoveDownload(d) ==
  /\ request[d] = "done" /\ row[d].status \notin {"none", "deleted"}
  /\ \/ /\ row[d].status = "removed" \/ Handled(row[d])
        /\ row' = [row EXCEPT ![d].status = "deleted"]
        /\ UNCHANGED <<live, request>>
     \/ /\ row[d].status # "removed" /\ ~Handled(row[d])
        /\ request' = [request EXCEPT ![d] = "removing"]
        /\ live' = [live EXCEPT ![d] = "absent"]
        /\ UNCHANGED row
  /\ UNCHANGED <<runState, snap, progress, poll, pipeVars, retried, kills>>

(* removeReleaseDownloads ends with the history of the release.            *)
DeleteRows(d) ==
  /\ request[d] = "removing"
  /\ request' = [request EXCEPT ![d] = "done"]
  /\ row' = [row EXCEPT ![d].status = "deleted"]
  /\ UNCHANGED <<runState, live, snap, progress, poll, pipeVars, retried, kills>>

-----------------------------------------------------------------------------
(* qBittorrent: a torrent stalls, moves on, finishes, or is deleted there. *)
QBittorrent(d) ==
  /\ live[d] # "absent"
  /\ \/ live[d] = "moving"  /\ \E t \in {"stalled", "seeding"} : live' = [live EXCEPT ![d] = t]
     \/ live[d] = "stalled" /\ live' = [live EXCEPT ![d] = "moving"]
     \/ live' = [live EXCEPT ![d] = "absent"]
  /\ UNCHANGED <<storeVars, snap, progress, poll, pipeVars, request, retried, kills>>

(* pollTorrentProgress fetches the list and remembers it; what it then     *)
(* writes to the rows is telemetry.                                        *)
ProgressFetch ==
  /\ progress = Unknown
  /\ progress' = live
  /\ UNCHANGED <<storeVars, live, snap, poll, pipeVars, request, retried, kills>>

ProgressRemember ==
  /\ progress # Unknown
  /\ snap' = progress /\ progress' = Unknown
  /\ UNCHANGED <<storeVars, live, poll, pipeVars, request, retried, kills>>

-----------------------------------------------------------------------------
(* The poll.  pollTorrents fetches the list, remembers it, and lists the   *)
(* rows that are downloading or completed.                                 *)
ToWith(step, r) == poll' = [poll EXCEPT !.pc = step, !.cur = r]
To(step) == ToWith(step, poll.cur)
ToNext == poll' = [poll EXCEPT !.pc = "next", !.cur = NoRow, !.d = Unknown]
Cur == poll.cur
At(step) == poll.pc = step
pollOthers == <<snap, progress, request, retried, kills>>

PollFetch ==
  /\ At("idle")
  /\ poll' = [poll EXCEPT !.pc = "fetched", !.torrents = live]
  /\ UNCHANGED <<storeVars, live, pipeVars, pollOthers>>

PollRemember ==
  /\ At("fetched")
  /\ snap' = poll.torrents
  /\ poll' = [IdlePoll EXCEPT !.pc = "remembered"]
  /\ UNCHANGED <<storeVars, live, pipeVars, progress, request, retried, kills>>

PollList ==
  /\ At("remembered")
  /\ poll' = [poll EXCEPT !.pc = "next", !.left = {d \in Rows : Active(row[d])},
                          !.list = [d \in Rows |-> IF Active(row[d]) THEN row[d] ELSE NoRow]]
  /\ UNCHANGED <<storeVars, live, pipeVars, pollOthers>>

PollEnd ==
  /\ At("next") /\ poll.left = {}
  /\ poll' = IdlePoll
  /\ UNCHANGED <<storeVars, live, pipeVars, pollOthers>>

(* What pollDownload makes of the listed row r of a torrent that the       *)
(* latest list shows in state t: <<step, copy of the row>>.                *)
Sighted(r, t) ==
  IF Handled(r) THEN {<<"next", NoRow>>}
  ELSE IF t = "absent" THEN {<<"save", [status |-> "removed", post |-> "removed_unknown"]>>}
  ELSE IF t = "seeding" THEN {<<IF r.status = "completed" THEN "complete" ELSE "check", r>>}
  ELSE {<<"save", r>>} \cup
       \* torrentHTTPFallbackReason applies; httpFallbackDue may say later
       {s \in {<<"search", [r EXCEPT !.post = "fallback"]>>} : t = "stalled" /\ r.status = "downloading"}

(* safePollDownload takes the next row; before a search for an HTTP        *)
(* download it saves that it is searching.                                 *)
PollDownload(d) ==
  /\ At("next") /\ d \in poll.left
  /\ \E s \in Sighted(poll.list[d], snap[d]) :
       /\ poll' = [poll EXCEPT !.pc = s[1], !.cur = s[2], !.left = @ \ {d},
                               !.d = IF s[1] = "next" THEN Unknown ELSE d,
                               !.list[d] = NoRow]
       /\ IF s[1] = "search" THEN SaveTorrentState(d, s[2]) ELSE UNCHANGED row
  /\ UNCHANGED <<runState, live, pipeVars, pollOthers>>

(* SaveTorrentState ends the work on a row.                                *)
PollSave ==
  /\ At("save")
  /\ SaveTorrentState(poll.d, Cur)
  /\ ToNext
  /\ UNCHANGED <<runState, live, pipeVars, pollOthers>>

(* tryTorrentHTTPFallback: the provider is searched ...                    *)
FallbackSearch ==
  /\ At("search")
  /\ \E step \in {"save", "recheck"} : To(step)
  /\ UNCHANGED <<storeVars, live, pipeVars, pollOthers>>

(* torrentHTTPFallbackStillNeeded                                          *)
StillNeeded(d) ==
  row[d].status = "downloading" /\ ~Handled(row[d]) /\ live[d] = "stalled"

(* ... the torrent is looked at again ...                                  *)
FallbackRecheck ==
  /\ At("recheck")
  /\ IF StillNeeded(poll.d) THEN To("replace") ELSE ToNext
  /\ UNCHANGED <<storeVars, live, pipeVars, pollOthers>>

(* ... and replaced: its files are deleted, which may fail, and then its   *)
(* row; the HTTP download that is queued is another model's.               *)
FallbackReplace ==
  /\ At("replace")
  /\ \/ ToNext /\ UNCHANGED live
     \/ /\ To("replaced")
        /\ live' = [live EXCEPT ![poll.d] = "absent"]
  /\ UNCHANGED <<storeVars, pipeVars, pollOthers>>

FallbackDelete ==
  /\ At("replaced")
  /\ row' = [row EXCEPT ![poll.d].status = "deleted"]
  /\ ToNext
  /\ UNCHANGED <<runState, live, pipeVars, pollOthers>>

-----------------------------------------------------------------------------
(* handleTorrentVideoCheck.                                                *)
Fail(post) ==
  /\ SaveDownload(poll.d, [status |-> "failed", post |-> post])
  /\ ToNext

(* The check is interrupted, passes, rejects the release, or fails: the    *)
(* second time for good, the first time the torrent is downloaded again.   *)
VideoCheck ==
  /\ At("check")
  /\ \/ ToNext /\ UNCHANGED <<row, retried>>
     \/ ToWith("complete", [Cur EXCEPT !.status = "completed"]) /\ UNCHANGED <<row, retried>>
     \/ Fail("blacklisted") /\ UNCHANGED retried
     \/ Cur.post = "video_retry" /\ Fail("video_failed") /\ UNCHANGED retried
     \/ /\ Cur.post # "video_retry" /\ retried[poll.d] < MaxRetries
        /\ retried' = [retried EXCEPT ![poll.d] = @ + 1]
        /\ LET again == [status |-> "queued", post |-> "video_retry"]
           IN SaveDownload(poll.d, again) /\ ToWith("delete", again)
  /\ UNCHANGED <<runState, live, pipeVars, snap, progress, request, kills>>

(* The files are deleted, the torrent is added again and looked for; each  *)
(* of these may fail.                                                      *)
RetryDelete ==
  /\ At("delete")
  /\ \/ Fail("video_failed") /\ UNCHANGED live
     \/ /\ To("add")
        /\ live' = [live EXCEPT ![poll.d] = "absent"]
        /\ UNCHANGED row
  /\ UNCHANGED <<runState, pipeVars, pollOthers>>

RetryAdd ==
  /\ At("add")
  /\ \/ Fail("video_failed") /\ UNCHANGED live
     \/ /\ To("resume")
        /\ live' = [live EXCEPT ![poll.d] = "moving"]
        /\ UNCHANGED row
  /\ UNCHANGED <<runState, pipeVars, pollOthers>>

RetrySave ==
  /\ At("resume")
  /\ SaveDownload(poll.d, [Cur EXCEPT !.status = "downloading"])
  /\ ToNext
  /\ UNCHANGED <<runState, live, pipeVars, pollOthers>>

-----------------------------------------------------------------------------
(* runEventPipelineAsync marks the job in flight and starts its goroutine. *)
StartPipeline(j, post) ==
  /\ inFlight' = inFlight \cup {j}
  /\ job' = [job EXCEPT ![j] = [NoJob EXCEPT !.pc = "sending", !.post = post]]
  /\ UNCHANGED <<jobs, executed>>

(* Faulty variant: the stored state alone tells whether a run is under way. *)
RecordedInFlight(j) == runState[j] = "running" /\ j \in inFlight

(* isPipelineInFlight                                                      *)
IsInFlight(j) == j \in inFlight

(* Faulty variant: a run that was interrupted counts as ended. *)
HasRecord(j) == runState[j] # ""

(* A failed run has ended too; one that is still "running" was cut short.  *)
PipelineEnded(j) == runState[j] \in {"completed", "failed"}

(* A completed torrent: its pipeline is under way, or is started, or was   *)
(* interrupted by a restart, or has ended.  Then the torrent is kept (by   *)
(* the rule, for its ratio, or because a removal failed lately) or removed.*)
Completed ==
  /\ At("complete")
  /\ LET j == <<poll.d, "completed">> IN
       \/ /\ IsInFlight(j)
          /\ To("save") /\ UNCHANGED pipeVars
       \/ /\ ~IsInFlight(j) /\ runState[j] = ""
          /\ StartPipeline(j, "processing")
          /\ ToWith("save", [Cur EXCEPT !.post = "processing"])
       \/ /\ ~IsInFlight(j) /\ runState[j] = "running"
          /\ ToWith("save", [Cur EXCEPT !.post = "pipeline_interrupted"])
          /\ UNCHANGED pipeVars
       \/ /\ ~IsInFlight(j) /\ PipelineEnded(j)
          /\ \/ ToWith("save", [Cur EXCEPT !.post = IF @ = "cleanup_failed" THEN @ ELSE "withheld"])
             \/ To("cleanup")
          /\ UNCHANGED pipeVars
  /\ UNCHANGED <<storeVars, live, pollOthers>>

(* cleanupTorrent: the removal fails, or the pipeline of removals starts.  *)
CleanupTorrent ==
  /\ At("cleanup")
  /\ LET j == <<poll.d, "removed">> IN
       \/ /\ ToWith("save", [Cur EXCEPT !.post = "cleanup_failed"])
          /\ UNCHANGED <<live, pipeVars>>
       \/ /\ live' = [live EXCEPT ![poll.d] = "absent"]
          /\ ToWith("save", [Cur EXCEPT !.post = "completed_removed"])
          /\ IF IsInFlight(j) THEN UNCHANGED pipeVars
             ELSE StartPipeline(j, "completed_removed")
  /\ UNCHANGED <<storeVars, pollOthers>>

-----------------------------------------------------------------------------
(* The pipelines.                                                          *)
pipeOthers == <<live, snap, progress, poll, request, retried, kills>>

(* runPipelineSerialized sends the job and waits; a full channel blocks it.*)
SendJob(j) ==
  /\ job[j].pc = "sending" /\ Len(jobs) < Capacity
  /\ jobs' = Append(jobs, j)
  /\ job' = [job EXCEPT ![j].pc = "queued"]
  /\ UNCHANGED <<storeVars, inFlight, executed, pipeOthers>>

(* runPipelineWorker takes one job at a time.                              *)
WorkerIdle == \A j \in Jobs : job[j].pc # "running"

(* runPipelineEvent: a release that is blacklisted, or steps that cannot   *)
(* be loaded, end the run before it is recorded ...                        *)
TakeJob(j) ==
  /\ jobs # <<>> /\ Head(jobs) = j /\ WorkerIdle
  /\ jobs' = Tail(jobs)
  /\ \/ /\ job' = [job EXCEPT ![j].pc = "finished", ![j].failed = TRUE]
        /\ UNCHANGED runState
     \/ /\ job' = [job EXCEPT ![j].pc = "running"]
        /\ runState' = [runState EXCEPT ![j] = "running"]
  /\ UNCHANGED <<row, inFlight, executed, pipeOthers>>

(* ... otherwise its steps are run, whatever fails among them, and the     *)
(* outcome is recorded.                                                    *)
RunSteps(j) ==
  /\ job[j].pc = "running"
  /\ executed' = [executed EXCEPT ![j] = @ + 1]
  /\ \E ok \in BOOLEAN :
       /\ runState' = [runState EXCEPT ![j] = IF ok THEN "completed" ELSE "failed"]
       /\ job' = [job EXCEPT ![j].pc = "finished", ![j].failed = ~ok,
                             ![j].post = IF ok THEN "pipeline_completed" ELSE "pipeline_failed"]
  /\ UNCHANGED <<row, inFlight, jobs, pipeOthers>>

(* downloadByID reads the row again; a row that is not completed any more  *)
(* is left alone.                                                          *)
ReloadRow(j) ==
  /\ job[j].pc = "finished"
  /\ IF row[j[1]].status = "completed"
       THEN /\ job' = [job EXCEPT ![j].pc = "saving", ![j].copy = row[j[1]]]
            /\ UNCHANGED inFlight
       ELSE /\ job' = [job EXCEPT ![j] = NoJob]
            /\ inFlight' = inFlight \ {j}
  /\ UNCHANGED <<storeVars, jobs, executed, pipeOthers>>

(* The whole row is saved with the outcome and the mark is cleared.        *)
SaveOutcome(j) ==
  /\ job[j].pc = "saving"
  /\ SaveDownload(j[1],
       [job[j].copy EXCEPT !.post =
          IF j[2] = "completed" THEN job[j].post
          ELSE IF job[j].failed THEN "removed_pipeline_failed" ELSE "completed_removed"])
  /\ job' = [job EXCEPT ![j] = NoJob]
  /\ inFlight' = inFlight \ {j}
  /\ UNCHANGED <<runState, jobs, executed, pipeOthers>>

(* The process is killed and started again: New has empty maps, the tables *)
(* and qBittorrent keep what they have.                                    *)
Restart ==
  /\ kills < MaxCrashes
  /\ kills' = kills + 1
  /\ snap' = Unknown /\ progress' = Unknown
  /\ poll' = IdlePoll
  /\ inFlight' = {} /\ jobs' = <<>>
  /\ job' = [j \in Jobs |-> NoJob]
  /\ request' = [d \in Rows |-> IF request[d] = "none" THEN "none" ELSE "done"]
  /\ UNCHANGED <<storeVars, live, executed, retried>>

PollStep ==
  \/ PollFetch \/ PollRemember \/ PollList \/ PollEnd
  \/ \E d \in Rows : PollDownload(d)
  \/ PollSave
  \/ FallbackSearch \/ FallbackRecheck \/ FallbackReplace \/ FallbackDelete
  \/ VideoCheck \/ RetryDelete \/ RetryAdd \/ RetrySave
  \/ Completed \/ CleanupTorrent

PipelineStep(j) == SendJob(j) \/ TakeJob(j) \/ RunSteps(j) \/ ReloadRow(j) \/ SaveOutcome(j)

RequestStep(d) == AddTorrent(d) \/ SaveAdded(d) \/ RemoveDownload(d) \/ DeleteRows(d)

TorrentNext ==
  \/ \E d \in Rows : RequestStep(d) \/ QBittorrent(d)
  \/ ProgressFetch \/ ProgressRemember
  \/ PollStep
  \/ \E j \in Jobs : PipelineStep(j)
  \/ Restart

(* The goroutines of the poll, of the progress and of the pipelines keep   *)
(* running; requests and qBittorrent promise nothing.                      *)
TorrentFairness ==
  /\ WF_torrentVars(PollStep)
  /\ WF_torrentVars(ProgressFetch \/ ProgressRemember)
  /\ \A j \in Jobs : WF_torrentVars(PipelineStep(j))
  /\ \A d \in Rows : WF_torrentVars(SaveAdded(d) \/ DeleteRows(d))

TorrentSpec == TorrentInit /\ [][TorrentNext]_torrentVars /\ TorrentFairness

-----------------------------------------------------------------------------
(* No pipeline runs its steps twice for one download and one trigger,      *)
(* whatever the poll sees while it runs, and after a restart in its midst  *)
(* (the comments of pollDownload on isPipelineInFlight).                   *)
PipelineRunsOnce == \A j \in Jobs : executed[j] <= 1

(* A torrent is only removed from qBittorrent by the clean-up when the     *)
(* pipeline of its completion has ended: not while it runs, and not after  *)
(* it was interrupted (pollDownload: "torrent cleanup was withheld").      *)
CleanupAfterPipeline ==
  [][\A d \in Rows :
       CleanupTorrent /\ poll.d = d /\ live[d] = "seeding" /\ live'[d] = "absent"
         => executed[<<d, "completed">>] = 1 /\ row[d].post # "pipeline_interrupted"
       ]_torrentVars

(* README.md:298: a torrent whose video fails the check is downloaded once  *)
(* more, and shown as failed if that fails too.                            *)
TorrentRedownloadedOnce == \A d \in Rows : retried[d] <= 1
=============================================================================
