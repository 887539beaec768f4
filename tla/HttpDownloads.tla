--------------------------- MODULE HttpDownloads ---------------------------
(***************************************************************************)
(* internal/download/service.go: the life of the rows of direct HTTP       *)
(* downloads.  HttpSlots gives the goroutines of startHTTPDownload their   *)
(* slots; this module adds what they do to the stored rows, who starts     *)
(* them (a request, the automatic re-download, the resumption after a      *)
(* restart), who removes them, and the crash of the process.               *)
(*                                                                         *)
(* Atomicity.  One action is one access to the store or one critical       *)
(* section of s.httpMu.  A row is read, acted on and saved as a whole in   *)
(* different steps: what a goroutine saves is its own copy of the row,     *)
(* and UPDATE ... WHERE id=? leaves a deleted row deleted.                 *)
(*                                                                         *)
(* Data.  Of a row the model keeps Status and whether PostStatus says that *)
(* the automatic re-download was used; resolving, fetching, checking and   *)
(* renaming the file are one transfer with three outcomes.  The setting    *)
(* and the priorities do not change here (HttpSlots covers that).          *)
(***************************************************************************)
EXTENDS HttpSlots

CONSTANTS
  ReleaseOf,   \* [Downloads -> releases]: the release a row belongs to
  Requests,    \* calls of queueHTTPDownload and RetryHTTPDownload
  Removals,    \* calls of removeHTTPReleaseDownloads
  OneAtATime,  \* whether requests are made only while nothing else is pending
  MayFail,     \* whether a removal may time out or fail to clean up
  FallsBack,   \* the rows whose download method falls back to a torrent
  MaxCrashes   \* bound: the restarts of the process

ASSUME RowsAssumption ==
  /\ Downloads # {} /\ ReleaseOf \in [Downloads -> Downloads]
  /\ {OneAtATime, MayFail} \subseteq BOOLEAN /\ FallsBack \subseteq Downloads
  /\ MaxCrashes \in Nat

VARIABLES
  status,    \* status[d]: the Status of row d
  retried,   \* the rows whose PostStatus is postStatusVideoRetry
  again,     \* the runs whose copy of the row has that PostStatus
  redone,    \* history: the rows re-downloaded since they were requested
  doing,     \* doing[r]: how far runHTTPDownload of run r is
  restarts,  \* the downloads whose re-download waits for its timer
  fallbacks, \* the downloads tryFailedHTTPTorrentFallback works on
  request,   \* request[q]: the step of request q and its download
  removal,   \* removal[x]: the step of removal x, its download and run
  boot,      \* whether resumeHTTPDownloads has listed the rows
  listed,    \* listed[d]: what it read of row d, until d is resumed
  crashes    \* how often the process has stopped

storeVars == <<status, retried, redone>>
workVars == <<again, doing, restarts, fallbacks>>
bootVars == <<boot, listed, crashes>>
rowVars == <<storeVars, workVars, request, removal, bootVars>>
allVars == <<vars, rowVars>>

NotListed == [status |-> "none", retried |-> FALSE]
Listing(d) == [status |-> status[d], retried |-> d \in retried]

Statuses == {"none",       \* not inserted yet
             "queued", "downloading", "completed", "failed",
             "removed"}    \* deleted

Doings == {"nothing", "transfer",          \* the file is not settled
           "failed", "completed", "unsound", \* the outcome, not saved yet
           "over"}

TypeRowsOK ==
  /\ TypeOK
  /\ status \in [Downloads -> Statuses]
  /\ retried \subseteq Downloads
  /\ redone \subseteq Downloads /\ again \subseteq Runs
  /\ doing \in [Runs -> Doings]
  /\ restarts \subseteq Downloads /\ fallbacks \subseteq Downloads
  /\ request \in [Requests -> [step : {"idle", "checked", "done"}, of : Downloads]]
  /\ removal \in [Removals -> [step : {"idle", "waiting", "deleting",
                                       "failed", "done"},
                               of : Downloads, run : Runs \cup {NoRun}]]
  /\ boot \in {"sleeping", "listed"}
  /\ listed \in [Downloads -> [status : {"none", "queued", "downloading"},
                             retried : BOOLEAN]]
  /\ crashes \in 0..MaxCrashes

InitRows ==
  /\ Init
  /\ status = [d \in Downloads |-> "none"]
  /\ retried = {} /\ redone = {} /\ again = {}
  /\ doing = [r \in Runs |-> "nothing"]
  /\ restarts = {} /\ fallbacks = {}
  /\ request = [q \in Requests |->
                  [step |-> "idle", of |-> CHOOSE d \in Downloads : TRUE]]
  /\ removal = [x \in Removals |->
                  [step |-> "idle", of |-> CHOOSE d \in Downloads : TRUE, run |-> NoRun]]
  /\ boot = "sleeping"
  /\ listed = [d \in Downloads |-> NotListed]
  /\ crashes = 0

-----------------------------------------------------------------------------
Siblings(d) == {e \in Downloads : ReleaseOf[e] = ReleaseOf[d]}
Active(d) == status[d] \in {"queued", "downloading"}
Exists(d) == status[d] \notin {"none", "removed"}

(* SaveDownload of a copy of row d.                                        *)
Save(d, new, videoRetry) ==
  /\ status' = [status EXCEPT ![d] = IF @ = "removed" THEN @ ELSE new]
  /\ retried' = IF videoRetry /\ status[d] # "removed"
                THEN retried \cup {d} ELSE retried \ {d}

(* startHTTPDownload is called with a copy of row d.                       *)
StartCopy(r, d, videoRetry) ==
  /\ Start(r, d)
  /\ again' = IF videoRetry THEN again \cup {r} ELSE again

(* Faulty variant: the other rows of the release are not looked at. *)
DuplicateSelf(d) == Active(d)

(* duplicateStored: a new row is refused when its release has been or is   *)
(* being downloaded, a retry only when it is being downloaded.             *)
Duplicate(d) ==
  \E e \in Siblings(d) : Active(e) \/ (status[d] = "none" /\ status[e] = "completed")

(* No request is between its check and its save, nor the resumption between*)
(* the list and the last row of it.                                        *)
Calm == /\ boot = "listed" /\ \A d \in Downloads : listed[d] = NotListed
        /\ \A q \in Requests : request[q].step # "checked"

(* queueHTTPDownload, RetryHTTPDownload: the check ...                     *)
Check(q, d) ==
  /\ request[q].step = "idle"
  /\ OneAtATime => Calm
  /\ \/ status[d] = "failed"
     \/ /\ status[d] = "none"
        /\ \A o \in Requests : request[o].step = "checked" => request[o].of # d
  /\ ~Duplicate(d)
  /\ request' = [request EXCEPT ![q] = [step |-> "checked", of |-> d]]
  /\ UNCHANGED <<vars, storeVars, workVars, removal, bootVars>>

(* ... and the save, with the call of startHTTPDownload.                   *)
Submit(q, r) ==
  LET d == request[q].of
  IN /\ request[q].step = "checked"
     /\ Save(d, "queued", FALSE)
     /\ redone' = redone \ {d}
     /\ StartCopy(r, d, FALSE)
     /\ request' = [request EXCEPT ![q].step = "done"]
     /\ UNCHANGED <<doing, restarts, fallbacks, removal, bootVars>>

(* runHTTPDownload's first save is made with ctx: it fails if ctx is done. *)
Begin(r) ==
  /\ pc[r] = "working" /\ doing[r] = "nothing"
  /\ IF r \in cancelled THEN UNCHANGED <<status, retried>>
                        ELSE Save(of[r], "downloading", r \in again)
  /\ doing' = [doing EXCEPT ![r] = "transfer"]
  /\ UNCHANGED <<redone, vars, again, restarts, fallbacks, request, removal, bootVars>>

(* The goroutine that saves the progress once a second.                    *)
Progress(r) ==
  /\ pc[r] = "working" /\ doing[r] = "transfer"
  /\ Save(of[r], "downloading", r \in again)
  /\ UNCHANGED <<redone, vars, workVars, request, removal, bootVars>>

(* The transfer is over, ctx was not done when it was last looked at: it   *)
(* failed, the file passed every check, or it failed the video check.      *)
Decide(r, outcome) ==
  /\ pc[r] = "working" /\ doing[r] = "transfer"
  /\ r \notin cancelled
  /\ doing' = [doing EXCEPT ![r] = outcome]
  /\ UNCHANGED <<vars, storeVars, again, restarts, fallbacks, request, removal, bootVars>>

(* fail() of a cancelled run returns at once: the row is left as it is.    *)
Abandon(r) ==
  /\ pc[r] = "working" /\ doing[r] = "transfer"
  /\ r \in cancelled
  /\ doing' = [doing EXCEPT ![r] = "over"]
  /\ UNCHANGED <<vars, storeVars, again, restarts, fallbacks, request, removal, bootVars>>

(* The automatic re-download is put off for a moment, and noted.           *)
NoteRedownload(d) == restarts' = restarts \cup {d} /\ redone' = redone \cup {d}

(* Faulty variant: the re-download forgets that it is one. *)
VideoRetryNotSaved(r) ==
  LET d == of[r]
  IN /\ pc[r] = "working" /\ doing[r] = "unsound"
     /\ IF r \in again
        THEN Save(d, "failed", FALSE) /\ UNCHANGED <<restarts, redone>>
        ELSE Save(d, "queued", FALSE) /\ NoteRedownload(d)
     /\ doing' = [doing EXCEPT ![r] = "over"]
     /\ UNCHANGED <<vars, again, fallbacks, request, removal, bootVars>>

(* Faulty variant: the row is marked before the re-download has a slot. *)
VideoRetryDownloading(r) ==
  LET d == of[r]
  IN /\ pc[r] = "working" /\ doing[r] = "unsound"
     /\ IF r \in again
        THEN Save(d, "failed", FALSE) /\ UNCHANGED <<restarts, redone>>
        ELSE Save(d, "downloading", TRUE) /\ NoteRedownload(d)
     /\ doing' = [doing EXCEPT ![r] = "over"]
     /\ UNCHANGED <<vars, again, fallbacks, request, removal, bootVars>>

(* markHTTPVideoCheckFailure: the first time the download is queued again, *)
(* the second time it has failed.                                          *)
SettleUnsound(r) ==
  LET d == of[r]
  IN /\ pc[r] = "working" /\ doing[r] = "unsound"
     /\ IF r \in again
        THEN Save(d, "failed", FALSE) /\ UNCHANGED <<restarts, redone>>
        ELSE Save(d, "queued", TRUE) /\ NoteRedownload(d)
     /\ doing' = [doing EXCEPT ![r] = "over"]
     /\ UNCHANGED <<vars, again, fallbacks, request, removal, bootVars>>

(* The last save; a failure sets off the search for a torrent.  What comes *)
(* of a file that was there already is saved with ctx, anything else without. *)
Settle(r) ==
  /\ pc[r] = "working" /\ doing[r] \in {"failed", "completed"}
  /\ \/ Save(of[r], doing[r], r \in again)
     \/ r \in cancelled /\ UNCHANGED <<status, retried>>
  /\ fallbacks' = IF doing[r] = "failed" THEN fallbacks \cup ({of[r]} \cap FallsBack)
                                         ELSE fallbacks
  /\ doing' = [doing EXCEPT ![r] = "over"]
  /\ UNCHANGED <<redone, vars, again, restarts, request, removal, bootVars>>

(* tryFailedHTTPTorrentFallback ends with a save of the copy that failed.  *)
FallBack(d) ==
  /\ d \in fallbacks
  /\ Save(d, "failed", FALSE)
  /\ fallbacks' = fallbacks \ {d}
  /\ UNCHANGED <<redone, vars, again, doing, restarts, request, removal, bootVars>>

(* The timer of the automatic re-download fires.                           *)
Redownload(d, r) ==
  /\ d \in restarts
  /\ restarts' = restarts \ {d}
  /\ StartCopy(r, d, TRUE)
  /\ UNCHANGED <<storeVars, doing, fallbacks, request, removal, bootVars>>

(* runHTTPDownload has returned.                                           *)
FinishRun(r) ==
  /\ doing[r] = "over"
  /\ FinishWork(r)
  /\ UNCHANGED rowVars

-----------------------------------------------------------------------------
(* removeHTTPReleaseDownloads: the run of the row is cancelled ...         *)
RemoveDownload(x, d) ==
  /\ removal[x].step = "idle" /\ Exists(d)
  /\ removal' = [removal EXCEPT ![x] =
       [step |-> IF httpRuns[d] = NoRun THEN "deleting" ELSE "waiting",
        of |-> d, run |-> httpRuns[d]]]
  /\ IF httpRuns[d] = NoRun THEN UNCHANGED vars ELSE Cancel(d)
  /\ UNCHANGED <<storeVars, workVars, request, bootVars>>

(* ... and waited for; ...                                                 *)
RunIsDone(x) ==
  /\ removal[x].step = "waiting" /\ pc[removal[x].run] = "done"
  /\ removal' = [removal EXCEPT ![x].step = "deleting"]
  /\ UNCHANGED <<vars, storeVars, workVars, request, bootVars>>

(* ... the request may be gone before that, or a restored file not be      *)
(* cleaned up, and the rows stay; ...                                      *)
RemoveFails(x) ==
  /\ MayFail
  /\ removal[x].step \in {"waiting", "deleting"}
  /\ removal' = [removal EXCEPT ![x].step = "failed"]
  /\ UNCHANGED <<vars, storeVars, workVars, request, bootVars>>

(* ... else all the HTTP rows of the release are deleted.                  *)
DeleteRows(x) ==
  /\ removal[x].step = "deleting"
  /\ status' = [d \in Downloads |->
       IF d \in Siblings(removal[x].of) /\ Exists(d) THEN "removed" ELSE status[d]]
  /\ retried' = retried \ Siblings(removal[x].of)
  /\ removal' = [removal EXCEPT ![x].step = "done"]
  /\ UNCHANGED <<redone, vars, workVars, request, bootVars>>

-----------------------------------------------------------------------------
(* The process stops: what is left is the store.                           *)
Crash ==
  /\ crashes < MaxCrashes
  /\ crashes' = crashes + 1
  /\ active' = 0 /\ waiters' = <<>> /\ granted' = {} /\ cancelled' = {}
  /\ httpRuns' = [d \in Downloads |-> NoRun]
  /\ pc' = [r \in Runs |-> IF pc[r] = "idle" THEN "idle" ELSE "done"]
  /\ read' = [r \in Runs |-> 1]
  /\ again' = {} /\ restarts' = {} /\ fallbacks' = {}
  /\ doing' = [r \in Runs |-> "nothing"]
  /\ request' = [q \in Requests |->
       IF request[q].step = "checked" THEN [request[q] EXCEPT !.step = "done"]
       ELSE request[q]]
  /\ removal' = [x \in Removals |->
       IF removal[x].step = "idle" THEN removal[x]
       ELSE [removal[x] EXCEPT !.step = "done"]]
  /\ boot' = "sleeping"
  /\ listed' = [d \in Downloads |-> NotListed]
  /\ UNCHANGED <<editVars, of, prio, storeVars>>

(* Faulty variant: all the rows are resumed. *)
ListEveryRow ==
  /\ boot = "sleeping"
  /\ boot' = "listed"
  /\ listed' = [d \in Downloads |-> IF Exists(d) THEN Listing(d) ELSE NotListed]
  /\ UNCHANGED <<vars, storeVars, workVars, request, removal, crashes>>

(* Faulty variant: only the rows that were transferring are resumed. *)
ListDownloading ==
  /\ boot = "sleeping"
  /\ boot' = "listed"
  /\ listed' = [d \in Downloads |-> IF status[d] = "downloading"
                                  THEN Listing(d) ELSE NotListed]
  /\ UNCHANGED <<vars, storeVars, workVars, request, removal, crashes>>

(* resumeHTTPDownloads lists the rows half a second after the start ...    *)
ListRows ==
  /\ boot = "sleeping"
  /\ boot' = "listed"
  /\ listed' = [d \in Downloads |-> IF Active(d) THEN Listing(d) ELSE NotListed]
  /\ UNCHANGED <<vars, storeVars, workVars, request, removal, crashes>>

(* ... and starts each over, those first that were downloading.            *)
Resume(d, r) ==
  /\ listed[d] # NotListed
  /\ listed[d].status = "queued" =>
       \A e \in Downloads : listed[e].status # "downloading"
  /\ Save(d, "queued", listed[d].retried)
  /\ StartCopy(r, d, listed[d].retried)
  /\ listed' = [listed EXCEPT ![d] = NotListed]
  /\ UNCHANGED <<redone, doing, restarts, fallbacks, request, removal, boot, crashes>>

SlotStep(r) ==
  /\ Enter(r) \/ GoAhead(r) \/ GiveUp(r) \/ Return(r) \/ Release(r) \/ Leave(r)
  /\ UNCHANGED rowVars

RunStep(r) ==
  \/ SlotStep(r)
  \/ Begin(r) \/ Progress(r) \/ Abandon(r) \/ Settle(r) \/ SettleUnsound(r)
  \/ \E outcome \in {"failed", "completed", "unsound"} : Decide(r, outcome)
  \/ FinishRun(r)

NextRows ==
  \/ \E r \in Runs : RunStep(r)
  \/ \E q \in Requests, d \in Downloads : Check(q, d)
  \/ \E q \in Requests, r \in Runs : Submit(q, r)
  \/ \E d \in Downloads, r \in Runs : Redownload(d, r) \/ Resume(d, r)
  \/ \E d \in Downloads : FallBack(d)
  \/ \E x \in Removals, d \in Downloads : RemoveDownload(x, d)
  \/ \E x \in Removals : RunIsDone(x) \/ RemoveFails(x) \/ DeleteRows(x)
  \/ Crash \/ ListRows

SpecRows == InitRows /\ [][NextRows]_allVars

-----------------------------------------------------------------------------
BeingRemoved(d) ==
  \E x \in Removals : /\ removal[x].step \in {"waiting", "deleting"}
                      /\ removal[x].of \in Siblings(d)

WillResume(d) == boot = "sleeping" \/ listed[d] # NotListed

(* Run r will yet say how download d ended.                                *)
WillSettle(r, d) ==
  /\ of[r] = d
  /\ \/ r \notin cancelled /\ pc[r] \in {"starting", "waiting"}
     \/ pc[r] = "working" /\ doing[r] # "over"
          /\ (r \notin cancelled \/ doing[r] \notin {"nothing", "transfer"})

(* A removal of row d gave up after it had cancelled the row's run.        *)
GivenUpOn(d) == \E x \in Removals : removal[x].step = "failed" /\ removal[x].of = d

(* The rows that do not fall back to a torrent.  That search ends with a   *)
(* save of the copy that failed, over whatever a retry has made of the row *)
(* meanwhile: a second retry then starts beside the first, or another row  *)
(* of the release does, and so less is promised of the others.             *)
Plain == Downloads \ FallsBack

(* No row is left queued or downloading with nobody to finish it, except   *)
(* by a removal that gave up: such a row blocks every retry and every other*)
(* download of its release until the process is restarted.                 *)
NoStrandedRow ==
  \A d \in Plain : Active(d) =>
    \/ \E r \in Runs : WillSettle(r, d)
    \/ d \in restarts \/ BeingRemoved(d) \/ GivenUpOn(d) \/ WillResume(d)

(* A row says "downloading" only while a run of it holds a slot, so that   *)
(* the rows shown as downloading never outnumber the slots.                *)
DownloadingHoldsSlot ==
  \A d \in Plain : status[d] = "downloading" =>
    \/ \E r \in Runs : of[r] = d /\ pc[r] = "working"
    \/ BeingRemoved(d) \/ GivenUpOn(d) \/ WillResume(d)

(* RetryHTTPDownload: no two downloads of one release are active.          *)
OneActivePerRelease ==
  \A d \in Plain : \A e \in Siblings(d) \cap Plain : Active(d) /\ Active(e) => d = e

(* A download that was removed is not worked on: no run that has not been  *)
(* told to stop waits for a slot or transfers for it.                      *)
RemovedStaysRemoved ==
  \A r \in Runs : status[of[r]] = "removed" /\ pc[r] \in {"waiting", "working"}
                    => r \in cancelled

(* A video that fails its check is downloaded again once and no more, even *)
(* when the process crashes in between: only a new request allows another. *)
RedownloadedOnce ==
  [][\A d \in Plain \cap (restarts' \ restarts) : d \notin redone]_allVars

(* No copy of a row that is still saved somewhere overwrites how the row   *)
(* ended: a completed row can only be removed, and a failed one is queued  *)
(* again only by the request that has just checked it.                     *)
FinishedRowsStay ==
  [][\A d \in Plain :
       /\ status[d] = "completed" => status'[d] \in {"completed", "removed"}
       /\ status[d] = "failed" =>
            \/ status'[d] \in {"failed", "removed"}
            \/ \E q \in Requests : /\ request[q].step = "checked" /\ request[q].of = d
                                  /\ request'[q].step = "done"]_allVars
=============================================================================
