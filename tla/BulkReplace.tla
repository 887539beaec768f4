---------------------------- MODULE BulkReplace -----------------------------
(* Removing and replacing selected downloads in bulk                       *)
(* (src/internal/download/service.go: StartBulkRemoveAndReplace).  A call  *)
(* lists the rows, sorts the selected ones into transports of releases to  *)
(* be cleaned up and rows to be deleted as history, and starts a goroutine *)
(* unless one is said to run; the goroutine cleans up, starts the          *)
(* replacements, and deletes the history.  Meanwhile downloads are made,   *)
(* end, are lost, and are retried.                                         *)
(* Of a transport's rows the model has the one that matters: active,       *)
(* failed, gone (its torrent is no longer there), or none.  One action is  *)
(* one of the statements or outside calls that decide what follows.        *)
EXTENDS Naturals, FiniteSets

CONSTANTS
  BulkReleases,
  BulkCalls,     \* calls of StartBulkRemoveAndReplace, and their jobs
  MaxDownloads   \* bound: how many downloads are made or retried by others

ASSUME BulkAssumption == MaxDownloads \in Nat /\ 0 \notin BulkCalls

VARIABLES
  dl,     \* dl[k]: the row of a release and transport
  madeBy, \* madeBy[r]: the job that made the torrent row of r, or 0
  bulk,   \* bulk[j]: the step of a call and its job, and what is left to do
  shown,  \* replacementJob.Running
  made    \* how many downloads others have made or retried

bulkVars == <<dl, madeBy, bulk, shown, made>>

Keys == BulkReleases \X {"http", "torrent"}
Torrent(r) == <<r, "torrent">>
NoWork == [pc |-> "idle", replace |-> FALSE, items |-> {}, old |-> {}, replacements |-> {}]

BulkTypeOK ==
  /\ dl \in [Keys -> {"none", "active", "failed", "gone"}]
  /\ madeBy \in [BulkReleases -> BulkCalls \cup {0}]
  /\ bulk \in [BulkCalls -> [pc : {"idle", "listed", "working", "over"}, replace : BOOLEAN,
                             items : SUBSET Keys, old : SUBSET Keys,
                             replacements : SUBSET BulkReleases]]
  /\ shown \in BOOLEAN /\ made \in 0 .. MaxDownloads

BulkInit ==
  /\ dl \in [Keys -> {"none", "failed", "gone"}] /\ \A r \in BulkReleases : dl[<<r, "http">>] # "gone"
  /\ madeBy = [r \in BulkReleases |-> 0] /\ bulk = [j \in BulkCalls |-> NoWork]
  /\ shown = FALSE /\ made = 0

Set(k, state) ==
  /\ dl' = [dl EXCEPT ![k] = state]
  /\ madeBy' = IF k[2] = "torrent" THEN [madeBy EXCEPT ![k[1]] = 0] ELSE madeBy

-----------------------------------------------------------------------------
(* The downloads besides: made or retried, failed, or gone from            *)
(* qBittorrent.                                                            *)
NoneActive(r) == \A k \in Keys : k[1] = r => dl[k] # "active"

MakeOrRetry(k) ==
  /\ dl[k] # "active" /\ made < MaxDownloads /\ made' = made + 1
  /\ Set(k, "active") /\ UNCHANGED <<bulk, shown>>

DownloadEnds(k) ==
  /\ dl[k] = "active"
  /\ \E state \in IF k[2] = "torrent" THEN {"failed", "gone"} ELSE {"failed"} :
       dl' = [dl EXCEPT ![k] = state]
  /\ UNCHANGED <<madeBy, bulk, shown, made>>

-----------------------------------------------------------------------------
(* Rows that are only history, unless they are to be replaced: those of a  *)
(* torrent that is gone, and failed HTTP downloads.                        *)
IsHistory(k) == dl[k] = "gone" \/ (dl[k] = "failed" /\ k[2] = "http")

Select(j) ==
  /\ bulk[j].pc = "idle"
  /\ \E chosen \in SUBSET {k \in Keys : dl[k] # "none"}, replace \in BOOLEAN :
       LET old == IF replace THEN {} ELSE {k \in chosen : IsHistory(k)}
       IN bulk' = [bulk EXCEPT ![j] = [pc |-> "listed", replace |-> replace, old |-> old,
                                       items |-> chosen \ old, replacements |-> {}]]
  /\ UNCHANGED <<dl, madeBy, shown, made>>

(* An empty selection is reported as a finished job, over whatever job is  *)
(* reported then; a job is refused while one is reported to run.           *)
Register(j) ==
  /\ bulk[j].pc = "listed"
  /\ IF bulk[j].items \cup bulk[j].old = {}
     THEN shown' = FALSE /\ bulk' = [bulk EXCEPT ![j].pc = "over"]
     ELSE shown' = TRUE /\ bulk' = [bulk EXCEPT ![j].pc = IF shown THEN "over" ELSE "working"]
  /\ UNCHANGED <<dl, madeBy, made>>

(* removeHTTPReleaseDownloads, removeReleaseDownloads: every row of the    *)
(* release and transport is removed, whatever became of it; or it fails.   *)
CleanUpItem(j, k) ==
  /\ bulk[j].pc = "working" /\ k \in bulk[j].items
  /\ \/ /\ Set(k, "none")
        /\ bulk' = [bulk EXCEPT ![j].items = @ \ {k},
                      ![j].replacements = IF bulk[j].replace THEN @ \cup {k[1]} ELSE @]
     \/ bulk' = [bulk EXCEPT ![j].items = @ \ {k}] /\ UNCHANGED <<dl, madeBy>>
  /\ shown' = TRUE /\ UNCHANGED made

(* Faulty variant: a replacement follows the first clean-up.               *)
FirstIsCleaned(j) == bulk[j].replacements # {}

(* "Finish all explicitly selected transport cleanups before starting a    *)
(* replacement, so a second selected transport cannot delete the new job." *)
AllCleaned(j) == bulk[j].items = {}

(* searchAndDownloadBestSeeded: nothing is found, or it fails, or the best *)
(* torrent is downloaded, where the release has no active download.        *)
Replace(j, r) ==
  /\ bulk[j].pc = "working" /\ AllCleaned(j) /\ r \in bulk[j].replacements
  /\ \/ NoneActive(r) /\ dl' = [dl EXCEPT ![Torrent(r)] = "active"] /\ madeBy' = [madeBy EXCEPT ![r] = j]
     \/ UNCHANGED <<dl, madeBy>>
  /\ bulk' = [bulk EXCEPT ![j].replacements = @ \ {r}]
  /\ shown' = TRUE /\ UNCHANGED made

(* A history row is deleted by its id; or that fails.  A failed HTTP       *)
(* download keeps its row when it is retried, a torrent gets a new one.    *)
Replaced(k) == k[2] = "torrent" /\ dl[k] # "gone"

DeleteHistory(j, k) ==
  /\ bulk[j].pc = "working" /\ bulk[j].items = {} /\ bulk[j].replacements = {} /\ k \in bulk[j].old
  /\ (~Replaced(k) /\ Set(k, "none")) \/ UNCHANGED <<dl, madeBy>>
  /\ bulk' = [bulk EXCEPT ![j].old = @ \ {k}]
  /\ shown' = TRUE /\ UNCHANGED made

FinishBulk(j) ==
  /\ bulk[j].pc = "working" /\ bulk[j].items \cup bulk[j].old = {} /\ bulk[j].replacements = {}
  /\ bulk' = [bulk EXCEPT ![j].pc = "over"] /\ shown' = FALSE
  /\ UNCHANGED <<dl, madeBy, made>>

BulkNext ==
  \/ \E k \in Keys : MakeOrRetry(k) \/ DownloadEnds(k)
  \/ \E j \in BulkCalls :
       \/ Select(j) \/ Register(j) \/ FinishBulk(j)
       \/ \E k \in Keys : CleanUpItem(j, k) \/ DeleteHistory(j, k)
       \/ \E r \in BulkReleases : Replace(j, r)

BulkSpec == BulkInit /\ [][BulkNext]_bulkVars

-----------------------------------------------------------------------------
(* What a job has put in the place of a download it does not remove again, *)
(* whichever of the transports of a release were selected, in whatever     *)
(* order they are cleaned up, and though other jobs run.                   *)
ReplacementsStay ==
  [][\A j \in BulkCalls, r \in BulkReleases :
       madeBy[r] = j /\ dl[Torrent(r)] # "none" /\ bulk'[j] # bulk[j]
         => dl'[Torrent(r)] # "none"]_bulkVars
=============================================================================
