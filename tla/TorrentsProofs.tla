--------------------------- MODULE TorrentsProofs ---------------------------
(***************************************************************************)
(* Theorems about the completion pipelines of the torrents: a pipeline     *)
(* runs once for each download and trigger, and the clean-up of a seeding  *)
(* torrent comes after it. They hold for any downloads, any number of      *)
(* places in the channel, any number of second downloads and of crashes.   *)
(*                                                                         *)
(* For a completion the saved run tells: it is written before the job has  *)
(* run its steps and is never erased, and the poll starts the pipeline     *)
(* only while there is none and no job is in flight (OneRun). For a        *)
(* removal nothing is saved. What keeps it to one run is the torrent: it   *)
(* is gone when the pipeline starts and does not come back, and each list  *)
(* of torrents that still shows it, and each copy of a row that the poll   *)
(* may act on, is so old that the row itself says "removed" by then        *)
(* (Gone: no list shows the torrent, or the row is settled, or the poll    *)
(* is about to save that). A row says that its pipeline was interrupted    *)
(* only when the run has no end and no job has it (CutShort).              *)
(***************************************************************************)
EXTENDS Torrents, PriorityQueueTheorems

-----------------------------------------------------------------------------
(* The inductive invariant.                                                *)

Completion(e) == <<e, "completed">>
Removal(e) == <<e, "removed">>

\* The steps in which the poll has a row in hand.
RowSteps == PollSteps \ {"idle", "fetched", "remembered", "next"}
RetrySteps == {"delete", "add", "resume"}
ListedOnce == {"downloading", "completed", "deleted"}

PollAt == /\ poll.pc \in RowSteps => poll.d \in Rows
          /\ poll.pc \notin RowSteps => poll.d = Unknown
          /\ poll.pc \in {"idle", "fetched", "remembered"} => poll.left = {}

\* A job is marked in flight from its start to its end; it has not run its
\* steps before it is through the channel, and the table tells whether it has.
OneRun(j) ==
  /\ j \in inFlight <=> job[j].pc # "none"
  /\ executed[j] <= 1
  /\ job[j].pc \in {"sending", "queued", "running"} => executed[j] = 0
  /\ executed[j] = 1 => runState[j] # ""
  /\ PipelineEnded(j) => executed[j] = 1
  /\ job[j].post # "pipeline_interrupted"

QueuedOnce == NoDuplicates(jobs) /\ \A j \in ToSet(jobs) : job[j].pc = "queued"

\* A row is there when its request has saved it, and a job has a copy of a
\* row that was there.
Entered(e) ==
  /\ row[e].status # "none" => request[e] \in {"done", "removing"}
  /\ \A j \in {Completion(e), Removal(e)} : job[j].pc = "saving" =>
       job[j].copy.status = "completed" /\ request[e] \in {"done", "removing"}

\* A row that the poll has listed, or has in hand.
Listed(e) == e \in poll.left => row[e].status \in ListedOnce
InHand(e) ==
  poll.d = e =>
    /\ poll.pc \in RowSteps /\ e \notin poll.left
    /\ row[e].status # "none" /\ (poll.pc \notin RetrySteps => row[e].status \in ListedOnce)
    /\ poll.pc = "cleanup" => job[Completion(e)].pc = "none" /\ PipelineEnded(Completion(e))

\* What says that a pipeline was interrupted is right.
SaysInterrupted(e) == \/ row[e].post = "pipeline_interrupted"
                      \/ poll.list[e].post = "pipeline_interrupted"
                      \/ poll.d = e /\ poll.cur.post = "pipeline_interrupted"
CutShort(e) ==
  SaysInterrupted(e) => runState[Completion(e)] = "running" /\ job[Completion(e)].pc = "none"

\* No list shows the torrent any more; or its row says so.
Unseen(e) ==
  /\ poll.pc \notin {"idle", "fetched"} => snap[e] = "absent"
  /\ poll.pc = "fetched" => poll.torrents[e] = "absent"
  /\ progress # Unknown => progress[e] = "absent"
Settled(e) == /\ Handled(row[e]) \/ row[e].status = "deleted"
              /\ e \in poll.left => Handled(poll.list[e])

\* Once the pipeline of its removal was started, the torrent is gone, and
\* the poll that finds its row leaves it or saves that it is gone.
Started(e) == executed[Removal(e)] >= 1 \/ job[Removal(e)].pc # "none"
Gone(e) ==
  /\ request[e] \in {"done", "removing"} /\ live[e] = "absent"
  /\ job[Completion(e)].pc = "none"
  /\ poll.d = e => poll.pc = "save" /\ Handled(poll.cur)
  /\ Unseen(e) \/ Settled(e) \/ poll.d = e
RemovedOnce(e) == Started(e) => Gone(e)

RowInv(e) == Entered(e) /\ Listed(e) /\ InHand(e) /\ CutShort(e) /\ RemovedOnce(e)

PipelineInv ==
  /\ TorrentTypeOK /\ PollAt /\ QueuedOnce
  /\ \A j \in Jobs : OneRun(j)
  /\ \A e \in Rows : RowInv(e)

-----------------------------------------------------------------------------
(* Types.                                                                  *)

PollType == [pc : PollSteps, list : [Rows -> Row], left : SUBSET Rows,
             d : Rows \cup {Unknown}, cur : Row, torrents : [Rows -> TorrentStates]]
JobType == [pc : JobSteps, post : Posts, failed : BOOLEAN, copy : Row]

\* A copy of a row lies in the row's type.
LEMMA RowFields ==
  /\ NoRow \in Row
  /\ \A r \in Row : r.status \in Statuses /\ r.post \in Posts
  /\ \A r \in Row, p \in Posts : [r EXCEPT !.post = p] \in Row /\ [r EXCEPT !.post = p].post = p
                                 /\ [r EXCEPT !.post = p].status = r.status
  /\ \A r \in Row, s \in Statuses : [r EXCEPT !.status = s] \in Row /\ [r EXCEPT !.status = s].status = s
                                    /\ [r EXCEPT !.status = s].post = r.post
<1>1. NoRow \in Row
  BY DEF NoRow, Row, Statuses, Posts
<1>2. \A r \in Row : r.status \in Statuses /\ r.post \in Posts
  BY DEF Row
<1>3. \A r \in Row, p \in Posts : [r EXCEPT !.post = p] \in Row /\ [r EXCEPT !.post = p].post = p
                                  /\ [r EXCEPT !.post = p].status = r.status
  BY DEF Row
<1>4. \A r \in Row, s \in Statuses : [r EXCEPT !.status = s] \in Row /\ [r EXCEPT !.status = s].status = s
                                     /\ [r EXCEPT !.status = s].post = r.post
  BY DEF Row
<1> QED  BY <1>1, <1>2, <1>3, <1>4

\* What a statement of the store does to the rows.
LEMMA SavedRows ==
  ASSUME row \in [Rows -> Row], NEW d \in Rows, NEW r \in Row
  PROVE  /\ SaveDownload(d, r) =>
              /\ row' \in [Rows -> Row] /\ \A e \in Rows \ {d} : row'[e] = row[e]
              /\ row'[d] = IF row[d].status = "deleted" THEN row[d] ELSE r
         /\ SaveTorrentState(d, r) =>
              /\ row' \in [Rows -> Row] /\ \A e \in Rows \ {d} : row'[e] = row[e]
              /\ row'[d] = IF Active(row[d]) THEN r ELSE row[d]
BY DEF SaveDownload, SaveTorrentState

LEMMA DeletedRow ==
  ASSUME row \in [Rows -> Row], NEW d \in Rows, row' = [row EXCEPT ![d].status = "deleted"]
  PROVE  /\ row' \in [Rows -> Row] /\ \A e \in Rows \ {d} : row'[e] = row[e]
         /\ row'[d].status = "deleted" /\ row'[d].post = row[d].post
<1> DEFINE gone == [row[d] EXCEPT !.status = "deleted"]
<1>1. row' = [row EXCEPT ![d] = gone]
  OBVIOUS
<1>2. gone \in Row /\ gone.status = "deleted" /\ gone.post = row[d].post
  BY RowFields DEF Statuses
<1> HIDE DEF gone
<1> QED  BY <1>1, <1>2

LEMMA PollUpdates ==
  ASSUME poll \in PollType
  PROVE  /\ \A s \in PollSteps, r \in Row : ToWith(s, r) =>
              /\ poll' \in PollType /\ poll'.pc = s /\ poll'.cur = r /\ poll'.d = poll.d
              /\ poll'.left = poll.left /\ poll'.list = poll.list
         /\ \A s \in PollSteps : To(s) =>
              /\ poll' \in PollType /\ poll'.pc = s /\ poll'.cur = poll.cur /\ poll'.d = poll.d
              /\ poll'.left = poll.left /\ poll'.list = poll.list
         /\ ToNext =>
              /\ poll' \in PollType /\ poll'.pc = "next" /\ poll'.d = Unknown
              /\ poll'.left = poll.left /\ poll'.list = poll.list
<1>1. \A s \in PollSteps, r \in Row : ToWith(s, r) =>
              /\ poll' \in PollType /\ poll'.pc = s /\ poll'.cur = r /\ poll'.d = poll.d
              /\ poll'.left = poll.left /\ poll'.list = poll.list
  BY DEF ToWith, PollType
<1>2. poll.cur \in Row
  BY DEF PollType
<1>3. ToNext => /\ poll' \in PollType /\ poll'.pc = "next" /\ poll'.d = Unknown
                /\ poll'.left = poll.left /\ poll'.list = poll.list
  <2>1. NoRow \in Row
    BY RowFields
  <2> QED  BY <2>1 DEF ToNext, PollType, PollSteps
<1> QED  BY <1>1, <1>2, <1>3 DEF To

LEMMA IdlePollType == /\ IdlePoll \in PollType /\ IdlePoll.left = {} /\ IdlePoll.d = Unknown
                      /\ IdlePoll.pc = "idle"
BY RowFields DEF IdlePoll, PollType, PollSteps, TorrentStates

LEMMA NoJobType == NoJob \in JobType /\ NoJob.pc = "none"
BY RowFields DEF NoJob, JobType, JobSteps, Posts

\* What the poll makes of a row.
LEMMA SightedType ==
  ASSUME NEW r \in Row, NEW t, NEW s \in Sighted(r, t)
  PROVE  /\ s[1] \in {"next", "save", "complete", "check", "search"} /\ s[2] \in Row
         /\ Handled(r) => s[1] = "next"
         /\ t = "absent" => s[1] = "next" \/ (s[1] = "save" /\ Handled(s[2]))
         /\ s[2].post = "pipeline_interrupted" => r.post = "pipeline_interrupted"
         /\ s[1] = "search" => s[2].status = "downloading" /\ s[2].post = "fallback"
<1>1. [status |-> "removed", post |-> "removed_unknown"] \in Row
  BY DEF Row, Statuses, Posts
<1>2. [r EXCEPT !.post = "fallback"] \in Row /\ [r EXCEPT !.post = "fallback"].post = "fallback"
      /\ [r EXCEPT !.post = "fallback"].status = r.status
  BY RowFields DEF Posts
<1>3. NoRow \in Row /\ NoRow.post = ""
  BY RowFields DEF NoRow
<1> DEFINE gone == [status |-> "removed", post |-> "removed_unknown"]
           fall == [r EXCEPT !.post = "fallback"]
<1>4. gone.post = "removed_unknown" /\ gone.status = "removed" /\ Handled(gone)
  BY DEF Handled
<1>5. \/ Handled(r) /\ s = <<"next", NoRow>>
      \/ ~Handled(r) /\ t = "absent" /\ s = <<"save", gone>>
      \/ ~Handled(r) /\ t # "absent" /\ s \in {<<"complete", r>>, <<"check", r>>, <<"save", r>>}
      \/ ~Handled(r) /\ t # "absent" /\ s = <<"search", fall>> /\ r.status = "downloading"
  BY DEF Sighted
<1> HIDE DEF gone, fall
<1>6. gone \in Row /\ fall \in Row /\ fall.post = "fallback" /\ fall.status = r.status
  BY <1>1, <1>2 DEF gone, fall
<1>7. CASE Handled(r) /\ s = <<"next", NoRow>>
  <2>1. s[1] = "next" /\ s[2] = NoRow
    BY <1>7
  <2> QED  BY <1>3, <1>7, <2>1
<1>8. CASE ~Handled(r) /\ t = "absent" /\ s = <<"save", gone>>
  <2>1. s[1] = "save" /\ s[2] = gone
    BY <1>8
  <2> QED  BY <1>4, <1>6, <1>8, <2>1
<1>9. CASE ~Handled(r) /\ t # "absent" /\ s \in {<<"complete", r>>, <<"check", r>>, <<"save", r>>}
  <2>1. s[1] \in {"complete", "check", "save"} /\ s[2] = r
    BY <1>9
  <2> QED  BY <1>9, <2>1
<1>10. CASE ~Handled(r) /\ t # "absent" /\ s = <<"search", fall>> /\ r.status = "downloading"
  <2>1. s[1] = "search" /\ s[2] = fall
    BY <1>10
  <2> QED  BY <1>6, <1>10, <2>1
<1> QED  BY <1>5, <1>7, <1>8, <1>9, <1>10

\* The parts of the type, as they are used.
LEMMA TorrentParts ==
  TorrentTypeOK <=>
    /\ row \in [Rows -> Row] /\ live \in [Rows -> TorrentStates]
    /\ snap \in [Rows -> TorrentStates] \cup {Unknown}
    /\ progress \in [Rows -> TorrentStates] \cup {Unknown}
    /\ poll \in PollType
    /\ inFlight \subseteq Jobs /\ jobs \in Seq(Jobs) /\ Len(jobs) <= Capacity
    /\ job \in [Jobs -> JobType]
    /\ runState \in [Jobs -> {"", "running", "completed", "failed"}]
    /\ request \in [Rows -> {"none", "added", "done", "removing"}]
    /\ executed \in [Jobs -> Nat]
    /\ retried \in [Rows -> 0..MaxRetries] /\ kills \in 0..MaxCrashes
BY DEF TorrentTypeOK, PollType, JobType

-----------------------------------------------------------------------------
(* What the actions do.                                                    *)

LEMMA JobNames ==
  /\ \A e \in Rows : Completion(e) \in Jobs /\ Removal(e) \in Jobs
  /\ \A e, d \in Rows : /\ Completion(e) # Removal(d)
                        /\ e # d => Completion(e) # Completion(d) /\ Removal(e) # Removal(d)
  /\ \A j \in Jobs : j[1] \in Rows /\ (j = Completion(j[1]) \/ j = Removal(j[1]))
  /\ \A e \in Rows : Completion(e)[1] = e /\ Removal(e)[1] = e
                     /\ Completion(e)[2] = "completed" /\ Removal(e)[2] = "removed"
BY DEF Completion, Removal, Jobs, Triggers

\* The work on a row, but for the three steps that concern the pipelines.
PlainWork ==
  \/ FallbackSearch \/ FallbackRecheck \/ FallbackReplace \/ FallbackDelete
  \/ VideoCheck \/ RetryDelete \/ RetryAdd \/ RetrySave

Worked(d) ==
  /\ poll.pc \in RowSteps \ {"complete", "cleanup", "save"}
  /\ poll' \in PollType /\ poll'.left = poll.left /\ poll'.list = poll.list
  /\ \/ poll'.pc = "next" /\ poll'.d = Unknown
     \/ /\ poll'.d = d /\ poll'.pc \in RowSteps \ {"cleanup"}
        /\ poll'.cur.post = "pipeline_interrupted" => poll.cur.post = "pipeline_interrupted"
        /\ poll'.pc \notin RetrySteps => poll.pc \notin RetrySteps /\ row' = row
  /\ row' \in [Rows -> Row] /\ live' \in [Rows -> TorrentStates]
  /\ \A e \in Rows \ {d} : row'[e] = row[e] /\ live'[e] = live[e]
  /\ row[d].status # "none" => row'[d].status # "none"
  /\ row'[d].post = "pipeline_interrupted" =>
       row[d].post = "pipeline_interrupted" \/ poll.cur.post = "pipeline_interrupted"
  /\ retried' \in [Rows -> 0..MaxRetries]
  /\ UNCHANGED <<runState, pipeVars, snap, progress, request, kills>>

LEMMA PlainWorkOnRow ==
  ASSUME TorrentTypeOK, NEW d \in Rows, poll.d = d, PlainWork
  PROVE  Worked(d)
<1> DEFINE Onto(s) == /\ poll' \in PollType /\ poll'.left = poll.left /\ poll'.list = poll.list
                      /\ poll'.pc = s /\ poll'.d = d
           Leaves == /\ poll' \in PollType /\ poll'.left = poll.left /\ poll'.list = poll.list
                     /\ poll'.pc = "next" /\ poll'.d = Unknown
           LiveAt == live' \in [Rows -> TorrentStates] /\ \A e \in Rows \ {d} : live'[e] = live[e]
           RowAt == row' \in [Rows -> Row] /\ \A e \in Rows \ {d} : row'[e] = row[e]
           Rests == UNCHANGED <<runState, pipeVars, snap, progress, request, kills>>
           Same == row' = row /\ retried' = retried
<1>1. /\ row \in [Rows -> Row] /\ live \in [Rows -> TorrentStates] /\ poll \in PollType
      /\ poll.cur \in Row /\ d \in Rows /\ retried \in [Rows -> 0..MaxRetries]
  BY TorrentParts DEF PollType
<1>2. /\ \A s \in PollSteps : To(s) => Onto(s) /\ poll'.cur = poll.cur
      /\ \A s \in PollSteps, r \in Row : ToWith(s, r) => Onto(s) /\ poll'.cur = r
      /\ ToNext => Leaves
  BY <1>1, PollUpdates
<1>3. /\ row' = row => RowAt
      /\ live' = live => LiveAt
      /\ \A t \in TorrentStates : live' = [live EXCEPT ![d] = t] => LiveAt
  BY <1>1
<1>4. /\ \A r \in Row : SaveDownload(d, r) => RowAt /\ row'[d] = IF row[d].status = "deleted" THEN row[d] ELSE r
      /\ row' = [row EXCEPT ![d].status = "deleted"] => RowAt /\ row'[d].status = "deleted" /\ row'[d].post = row[d].post
  BY <1>1, SavedRows, DeletedRow
<1>5. \A p \in {"blacklisted", "video_failed"} : Fail(p) =>
        /\ Leaves /\ RowAt
        /\ row[d].status # "none" => row'[d].status # "none"
        /\ row'[d].post = "pipeline_interrupted" => row[d].post = "pipeline_interrupted"
  <2> SUFFICES ASSUME NEW p \in {"blacklisted", "video_failed"}, Fail(p)
               PROVE  /\ Leaves /\ RowAt
                      /\ row[d].status # "none" => row'[d].status # "none"
                      /\ row'[d].post = "pipeline_interrupted" => row[d].post = "pipeline_interrupted"
    OBVIOUS
  <2> DEFINE r == [status |-> "failed", post |-> p]
  <2>1. r \in Row /\ r.status = "failed" /\ r.post = p
    BY DEF Row, Statuses, Posts
  <2>2. SaveDownload(d, r) /\ ToNext
    BY DEF Fail
  <2> HIDE DEF r, Leaves, RowAt
  <2> QED  BY <1>2, <1>4, <2>1, <2>2
<1> HIDE DEF Onto, Leaves, LiveAt, RowAt
<1> USE DEF Rests, Same
<1>a. poll.pc \in RowSteps \ {"complete", "cleanup", "save"}
  BY DEF PlainWork, FallbackSearch, FallbackRecheck, FallbackReplace, FallbackDelete, VideoCheck,
         RetryDelete, RetryAdd, RetrySave, At, RowSteps, PollSteps
<1>6. ASSUME Leaves, RowAt, LiveAt, Rests, retried' \in [Rows -> 0..MaxRetries],
             row[d].status # "none" => row'[d].status # "none",
             row'[d].post = "pipeline_interrupted" =>
               row[d].post = "pipeline_interrupted" \/ poll.cur.post = "pipeline_interrupted"
      PROVE  Worked(d)
  BY <1>a, <1>6 DEF Leaves, RowAt, LiveAt, Worked
<1>7. ASSUME NEW s \in {"save", "recheck", "replace", "replaced", "complete"}, Onto(s),
             Same, LiveAt, Rests, poll.pc \notin RetrySteps,
             poll'.cur.post = "pipeline_interrupted" => poll.cur.post = "pipeline_interrupted"
      PROVE  Worked(d)
  BY <1>1, <1>3, <1>7, <1>a DEF Onto, LiveAt, RowAt, Worked, RowSteps, PollSteps
<1>8. ASSUME NEW s \in RetrySteps, Onto(s), RowAt, LiveAt, Rests, retried' \in [Rows -> 0..MaxRetries],
             poll'.cur.post = "pipeline_interrupted" => poll.cur.post = "pipeline_interrupted",
             row[d].status # "none" => row'[d].status # "none",
             row'[d].post = "pipeline_interrupted" => row[d].post = "pipeline_interrupted"
      PROVE  Worked(d)
  BY <1>8, <1>a DEF Onto, LiveAt, RowAt, Worked, RowSteps, PollSteps, RetrySteps
<1> HIDE DEF Rests, Same
<1>9. /\ {"save", "recheck", "replace", "replaced", "complete"} \subseteq PollSteps
      /\ RetrySteps \subseteq PollSteps
  BY DEF PollSteps, RetrySteps
<1>b. /\ \A s \in {"save", "recheck", "replace", "replaced", "complete"} : To(s) => Onto(s) /\ poll'.cur = poll.cur
      /\ \A s \in {"complete"}, r \in Row : ToWith(s, r) => Onto(s) /\ poll'.cur = r
      /\ \A s \in RetrySteps : To(s) => Onto(s) /\ poll'.cur = poll.cur
      /\ \A s \in RetrySteps, r \in Row : ToWith(s, r) => Onto(s) /\ poll'.cur = r
  BY <1>2, <1>9
<1>10. CASE FallbackSearch
  <2>1. poll.pc = "search" /\ (\E s \in {"save", "recheck"} : To(s)) /\ Rests /\ Same /\ live' = live
    BY <1>10 DEF FallbackSearch, At, Rests, Same, storeVars, pollOthers
  <2>2. poll.pc \notin RetrySteps /\ LiveAt
    BY <1>3, <2>1 DEF RetrySteps
  <2> QED  BY <1>7, <1>b, <2>1, <2>2
<1>11. CASE FallbackRecheck
  <2>1. poll.pc = "recheck" /\ (To("replace") \/ ToNext) /\ Rests /\ Same /\ live' = live
    BY <1>11 DEF FallbackRecheck, At, Rests, Same, storeVars, pollOthers
  <2>2. poll.pc \notin RetrySteps /\ LiveAt /\ RowAt
    BY <1>3, <2>1 DEF RetrySteps, Same
  <2> QED  BY <1>1, <1>2, <1>6, <1>7, <1>b, <2>1, <2>2 DEF Same
<1>12. CASE FallbackReplace
  <2>1. poll.pc = "replace" /\ (ToNext \/ To("replaced")) /\ Rests /\ Same
        /\ (live' = live \/ live' = [live EXCEPT ![d] = "absent"])
    BY <1>12 DEF FallbackReplace, At, Rests, Same, storeVars, pollOthers
  <2>2. poll.pc \notin RetrySteps /\ LiveAt /\ RowAt
    BY <1>3, <2>1 DEF RetrySteps, Same, TorrentStates
  <2> QED  BY <1>1, <1>2, <1>6, <1>7, <1>b, <2>1, <2>2 DEF Same
<1>13. CASE FallbackDelete
  <2>1. ToNext /\ Rests /\ live' = live /\ retried' = retried /\ row' = [row EXCEPT ![d].status = "deleted"]
    BY <1>13 DEF FallbackDelete, Rests, pollOthers
  <2> QED  BY <1>1, <1>2, <1>3, <1>4, <1>6, <2>1
<1>14. CASE VideoCheck
  <2>1. poll.pc = "check" /\ poll.pc \notin RetrySteps /\ Rests /\ LiveAt
    BY <1>3, <1>14 DEF VideoCheck, At, Rests, RetrySteps
  <2>2. CASE ToNext /\ UNCHANGED <<row, retried>>
    BY <1>1, <1>2, <1>3, <1>6, <2>1, <2>2
  <2>3. CASE ToWith("complete", [Cur EXCEPT !.status = "completed"]) /\ UNCHANGED <<row, retried>>
    <3> DEFINE r == [poll.cur EXCEPT !.status = "completed"]
    <3>1. r \in Row /\ r.post = poll.cur.post
      BY <1>1, RowFields DEF Statuses
    <3>2. ToWith("complete", r)
      BY <2>3 DEF Cur
    <3> HIDE DEF r
    <3> QED  BY <1>7, <1>b, <2>1, <2>3, <3>1, <3>2 DEF Same
  <2>4. CASE (Fail("blacklisted") \/ Fail("video_failed")) /\ UNCHANGED retried
    BY <1>1, <1>5, <1>6, <2>1, <2>4
  <2>5. CASE /\ retried[poll.d] < MaxRetries
             /\ retried' = [retried EXCEPT ![poll.d] = @ + 1]
             /\ LET again == [status |-> "queued", post |-> "video_retry"]
                IN SaveDownload(poll.d, again) /\ ToWith("delete", again)
    <3> DEFINE again == [status |-> "queued", post |-> "video_retry"]
    <3>1. again \in Row /\ again.status = "queued" /\ again.post = "video_retry"
      BY DEF Row, Statuses, Posts
    <3>2. SaveDownload(d, again) /\ ToWith("delete", again)
      BY <2>5
    <3>3. retried' \in [Rows -> 0..MaxRetries]
      BY <1>1, <2>5, TorrentAssumption
    <3> HIDE DEF again
    <3>4. RowAt /\ row'[d] = IF row[d].status = "deleted" THEN row[d] ELSE again
      BY <1>4, <3>1, <3>2
    <3>5. "delete" \in RetrySteps
      BY DEF RetrySteps
    <3>6. Onto("delete") /\ poll'.cur = again
      BY <1>b, <3>1, <3>2, <3>5
    <3> QED  BY <1>8, <2>1, <3>1, <3>3, <3>4, <3>5, <3>6
  <2> QED  BY <1>14, <2>2, <2>3, <2>4, <2>5 DEF VideoCheck
<1>15. CASE RetryDelete
  <2>1. Rests /\ retried' = retried
    BY <1>15 DEF RetryDelete, Rests, pollOthers
  <2>2. \/ Fail("video_failed") /\ live' = live
        \/ To("add") /\ row' = row /\ live' = [live EXCEPT ![d] = "absent"]
    BY <1>15 DEF RetryDelete
  <2>3. "add" \in RetrySteps /\ "absent" \in TorrentStates
    BY DEF RetrySteps, TorrentStates
  <2>4. CASE Fail("video_failed") /\ live' = live
    BY <1>1, <1>3, <1>5, <1>6, <2>1, <2>4
  <2>5. CASE To("add") /\ row' = row /\ live' = [live EXCEPT ![d] = "absent"]
    BY <1>1, <1>3, <1>8, <1>b, <2>1, <2>3, <2>5
  <2> QED  BY <2>2, <2>4, <2>5
<1>16. CASE RetryAdd
  <2>1. Rests /\ retried' = retried
    BY <1>16 DEF RetryAdd, Rests, pollOthers
  <2>2. \/ Fail("video_failed") /\ live' = live
        \/ To("resume") /\ row' = row /\ live' = [live EXCEPT ![d] = "moving"]
    BY <1>16 DEF RetryAdd
  <2>3. "resume" \in RetrySteps /\ "moving" \in TorrentStates
    BY DEF RetrySteps, TorrentStates
  <2>4. CASE Fail("video_failed") /\ live' = live
    BY <1>1, <1>3, <1>5, <1>6, <2>1, <2>4
  <2>5. CASE To("resume") /\ row' = row /\ live' = [live EXCEPT ![d] = "moving"]
    BY <1>1, <1>3, <1>8, <1>b, <2>1, <2>3, <2>5
  <2> QED  BY <2>2, <2>4, <2>5
<1>17. CASE RetrySave
  <2> DEFINE r == [poll.cur EXCEPT !.status = "downloading"]
  <2>1. r \in Row /\ r.post = poll.cur.post /\ r.status = "downloading"
    BY <1>1, RowFields DEF Statuses
  <2>2. SaveDownload(d, r) /\ ToNext /\ Rests /\ live' = live /\ retried' = retried
    BY <1>17 DEF RetrySave, Cur, Rests, pollOthers
  <2> HIDE DEF r
  <2>3. RowAt /\ row'[d] = IF row[d].status = "deleted" THEN row[d] ELSE r
    BY <1>4, <2>1, <2>2
  <2> QED  BY <1>1, <1>2, <1>3, <1>6, <2>1, <2>2, <2>3
<1> QED  BY <1>10, <1>11, <1>12, <1>13, <1>14, <1>15, <1>16, <1>17 DEF PlainWork

-----------------------------------------------------------------------------
(* Steps that leave a row alone.                                           *)

Apart(e) ==
  /\ row'[e] = row[e] /\ live'[e] = live[e] /\ request'[e] = request[e]
  /\ \A j \in {Completion(e), Removal(e)} :
       job'[j] = job[j] /\ executed'[j] = executed[j] /\ runState'[j] = runState[j]
  /\ \/ poll' = poll
     \/ /\ poll.d # e /\ poll'.d # e /\ (e \in poll'.left => e \in poll.left)
        /\ poll'.list[e] = poll.list[e]
  /\ live[e] = "absent" /\ Unseen(e) => Unseen(e)'

LEMMA RowRests ==
  ASSUME NEW e \in Rows, RowInv(e), Apart(e)
  PROVE  RowInv(e)'
<1>1. Entered(e)'
  BY DEF RowInv, Apart, Entered
<1>2. Listed(e)'
  BY DEF RowInv, Apart, Listed
<1>3. InHand(e)'
  BY DEF RowInv, Apart, InHand, PipelineEnded
<1>4. CutShort(e)'
  BY DEF RowInv, Apart, CutShort, SaysInterrupted
<1>5. RemovedOnce(e)'
  BY DEF RowInv, Apart, RemovedOnce, Started, Gone, Settled
<1> QED  BY <1>1, <1>2, <1>3, <1>4, <1>5 DEF RowInv

\* Runs on which nothing is done.
LEMMA RunRests ==
  ASSUME NEW j, OneRun(j), job'[j] = job[j], executed'[j] = executed[j], runState'[j] = runState[j],
         j \in inFlight' <=> j \in inFlight
  PROVE  OneRun(j)'
BY DEF OneRun, PipelineEnded

-----------------------------------------------------------------------------
(* Requests and qBittorrent.                                               *)

LEMMA RequestKeeps ==
  ASSUME PipelineInv, NEW d \in Rows, RequestStep(d) \/ QBittorrent(d)
  PROVE  PipelineInv'
<1>0. /\ row \in [Rows -> Row] /\ live \in [Rows -> TorrentStates]
      /\ request \in [Rows -> {"none", "added", "done", "removing"}] /\ TorrentTypeOK
  BY TorrentParts DEF PipelineInv
<1>1. /\ UNCHANGED <<snap, progress, poll, runState, inFlight, jobs, job, executed, retried, kills>>
  BY DEF RequestStep, AddTorrent, SaveAdded, RemoveDownload, DeleteRows, QBittorrent, pipeVars, storeVars
<1> DEFINE new == [status |-> IF live[d] = "absent" THEN "failed" ELSE "downloading", post |-> ""]
<1>2. \/ row' = row \/ row' = [row EXCEPT ![d].status = "deleted"]
      \/ request[d] = "added" /\ row' = [row EXCEPT ![d] = new]
  BY DEF RequestStep, AddTorrent, SaveAdded, RemoveDownload, DeleteRows, QBittorrent, storeVars
<1>3. new \in Row /\ new.post = "" /\ new.status # "none"
  BY DEF Row, Statuses, Posts
<1> HIDE DEF new
<1>4. row' \in [Rows -> Row] /\ \A e \in Rows \ {d} : row'[e] = row[e]
  <2>1. CASE row' = row
    BY <1>0, <2>1
  <2>2. CASE row' = [row EXCEPT ![d].status = "deleted"]
    BY <1>0, <2>2, DeletedRow
  <2>3. CASE row' = [row EXCEPT ![d] = new]
    BY <1>0, <1>3, <2>3
  <2> QED  BY <1>2, <2>1, <2>2, <2>3
<1>5. live' \in [Rows -> TorrentStates] /\ \A e \in Rows \ {d} : live'[e] = live[e]
  BY <1>0 DEF RequestStep, AddTorrent, SaveAdded, RemoveDownload, DeleteRows, QBittorrent, TorrentStates
<1>6. /\ request' \in [Rows -> {"none", "added", "done", "removing"}]
      /\ \A e \in Rows \ {d} : request'[e] = request[e]
  BY <1>0 DEF RequestStep, AddTorrent, SaveAdded, RemoveDownload, DeleteRows, QBittorrent
<1>7. TorrentTypeOK'
  BY <1>0, <1>1, <1>4, <1>5, <1>6 DEF TorrentTypeOK
<1>8. PollAt' /\ QueuedOnce' /\ \A j \in Jobs : OneRun(j)'
  BY <1>1 DEF PipelineInv, PollAt, QueuedOnce, OneRun, PipelineEnded
<1>9. Unseen(d) => Unseen(d)'
  BY <1>1 DEF Unseen
<1>10. ASSUME NEW e \in Rows \ {d}  PROVE RowInv(e)'
  <2>1. Unseen(e) => Unseen(e)'
    BY <1>1 DEF Unseen
  <2>2. Apart(e)
    BY <1>1, <1>4, <1>5, <1>6, <2>1 DEF Apart
  <2> QED  BY <2>2, RowRests DEF PipelineInv
<1>11. RowInv(d)
  BY DEF PipelineInv
<1>12. RowInv(d)'
  <2>1. CASE request[d] \in {"none", "added"}
    <3>1. row[d].status = "none" /\ ~Started(d)
      BY <1>11, <2>1 DEF RowInv, Entered, RemovedOnce, Gone
    <3>2. poll.d # d /\ d \notin poll.left
      BY <1>11, <3>1 DEF RowInv, InHand, Listed, ListedOnce
    <3>3. \/ row'[d] = row[d]
          \/ row'[d] = new /\ request'[d] = "done"
      BY <1>0, <2>1, <3>1 DEF RequestStep, AddTorrent, SaveAdded, RemoveDownload, DeleteRows, QBittorrent, storeVars, new
    <3>4. Entered(d)'
      BY <1>1, <1>11, <2>1, <3>1, <3>3 DEF RowInv, Entered
    <3>5. Listed(d)' /\ InHand(d)'
      BY <1>1, <3>2 DEF Listed, InHand
    <3>6. CutShort(d)'
      BY <1>1, <1>3, <1>11, <3>2, <3>3 DEF RowInv, CutShort, SaysInterrupted
    <3>7. RemovedOnce(d)'
      BY <1>1, <3>1 DEF RemovedOnce, Started
    <3> QED  BY <3>4, <3>5, <3>6, <3>7 DEF RowInv
  <2>2. CASE request[d] \in {"done", "removing"}
    <3>1. row' = row \/ row' = [row EXCEPT ![d].status = "deleted"]
      BY <1>2, <2>2
    <3>2. row'[d].post = row[d].post /\ (row'[d] = row[d] \/ row'[d].status = "deleted")
      BY <1>0, <3>1, DeletedRow
    <3>3. request'[d] \in {"done", "removing"}
      BY <1>0, <2>2 DEF RequestStep, AddTorrent, SaveAdded, RemoveDownload, DeleteRows, QBittorrent
    <3>4. live[d] = "absent" => live'[d] = "absent"
      BY <1>0, <2>2 DEF RequestStep, AddTorrent, SaveAdded, RemoveDownload, DeleteRows, QBittorrent
    <3>5. Entered(d)'
      BY <1>1, <1>11, <3>2, <3>3 DEF RowInv, Entered
    <3>6. Listed(d)' /\ InHand(d)'
      BY <1>1, <1>11, <3>2 DEF RowInv, Listed, InHand, PipelineEnded, ListedOnce
    <3>7. CutShort(d)'
      BY <1>1, <1>11, <3>2 DEF RowInv, CutShort, SaysInterrupted
    <3>8. Settled(d) => Settled(d)'
      BY <1>1, <3>2 DEF Settled, Handled
    <3>9. RemovedOnce(d)'
      BY <1>1, <1>9, <1>11, <3>3, <3>4, <3>8 DEF RowInv, RemovedOnce, Started, Gone, Handled
    <3> QED  BY <3>5, <3>6, <3>7, <3>9 DEF RowInv
  <2> QED  BY <1>0, <2>1, <2>2
<1> QED  BY <1>7, <1>8, <1>10, <1>12 DEF PipelineInv

-----------------------------------------------------------------------------
(* The lists of torrents, and the list of rows.                            *)

\* What such a step leaves alone.
OnlyLists == UNCHANGED <<storeVars, live, pipeVars, request, retried, kills>>

LEMMA ListsKeepRuns ==
  ASSUME PipelineInv, OnlyLists
  PROVE  QueuedOnce' /\ \A j \in Jobs : OneRun(j)'
BY DEF PipelineInv, OnlyLists, storeVars, pipeVars, QueuedOnce, OneRun, PipelineEnded

LEMMA ListsKeepTypes ==
  ASSUME TorrentTypeOK, OnlyLists, poll' \in PollType,
         snap' \in [Rows -> TorrentStates] \cup {Unknown},
         progress' \in [Rows -> TorrentStates] \cup {Unknown}
  PROVE  TorrentTypeOK'
BY DEF TorrentTypeOK, OnlyLists, storeVars, pipeVars, PollType

LEMMA ProgressKeeps ==
  ASSUME PipelineInv, ProgressFetch \/ ProgressRemember
  PROVE  PipelineInv'
<1>1. /\ OnlyLists /\ poll' = poll
      /\ \/ progress' = live /\ snap' = snap
         \/ progress # Unknown /\ snap' = progress /\ progress' = Unknown
  BY DEF ProgressFetch, ProgressRemember, OnlyLists
<1>2. /\ snap \in [Rows -> TorrentStates] \cup {Unknown} /\ poll \in PollType
      /\ progress \in [Rows -> TorrentStates] \cup {Unknown} /\ live \in [Rows -> TorrentStates]
  BY TorrentParts DEF PipelineInv
<1>3. TorrentTypeOK'
  <2>1. poll' \in PollType /\ snap' \in [Rows -> TorrentStates] \cup {Unknown}
        /\ progress' \in [Rows -> TorrentStates] \cup {Unknown}
    BY <1>1, <1>2
  <2> QED  BY <1>1, <2>1, ListsKeepTypes DEF PipelineInv
<1>4. PollAt'
  BY <1>1 DEF PipelineInv, PollAt
<1>5. ASSUME NEW e \in Rows  PROVE RowInv(e)'
  <2>1. live[e] = "absent" /\ Unseen(e) => Unseen(e)'
    BY <1>1 DEF Unseen
  <2>2. Apart(e)
    BY <1>1, <2>1 DEF Apart, OnlyLists, storeVars, pipeVars
  <2> QED  BY <2>2, RowRests DEF PipelineInv
<1> QED  BY <1>1, <1>3, <1>4, <1>5, ListsKeepRuns DEF PipelineInv

\* Between two rows the poll fetches, remembers, lists, or ends.
Listing == PollFetch \/ PollRemember \/ PollList \/ PollEnd

LEMMA ListingSteps ==
  ASSUME PipelineInv, Listing
  PROVE  /\ OnlyLists /\ progress' = progress
         /\ poll' \in PollType /\ poll.d = Unknown /\ poll'.d = Unknown
         /\ snap' \in [Rows -> TorrentStates] \cup {Unknown}
         /\ poll'.pc \in {"idle", "fetched", "remembered", "next"}
         /\ poll'.pc \in {"idle", "fetched", "remembered"} => poll'.left = {}
         /\ \A e \in Rows : /\ e \in poll'.left => Active(row[e]) /\ poll'.list[e] = row[e]
                            /\ poll'.list[e].post \in {poll.list[e].post, row[e].post, ""}
                            /\ live[e] = "absent" /\ Unseen(e) => Unseen(e)'
<1>1. /\ poll \in PollType /\ row \in [Rows -> Row] /\ live \in [Rows -> TorrentStates]
      /\ snap \in [Rows -> TorrentStates] \cup {Unknown}
  BY TorrentParts DEF PipelineInv
<1>2. poll.d = Unknown
  BY DEF PipelineInv, PollAt, Listing, PollFetch, PollRemember, PollList, PollEnd, At, RowSteps
<1>3. CASE PollFetch
  <2>1. /\ poll.pc = "idle" /\ poll' = [poll EXCEPT !.pc = "fetched", !.torrents = live]
        /\ OnlyLists /\ progress' = progress /\ snap' = snap
    BY <1>3 DEF PollFetch, At, OnlyLists, pollOthers
  <2>2. poll' \in PollType /\ poll'.d = poll.d /\ poll'.left = poll.left /\ poll'.list = poll.list
        /\ poll'.pc = "fetched" /\ poll'.torrents = live
    BY <1>1, <2>1 DEF PollType, PollSteps
  <2>3. poll.left = {}
    BY <2>1 DEF PipelineInv, PollAt
  <2>4. \A e \in Rows : live[e] = "absent" /\ Unseen(e) => Unseen(e)'
    BY <2>1, <2>2 DEF Unseen
  <2> QED  BY <1>1, <1>2, <2>1, <2>2, <2>3, <2>4
<1>4. CASE PollRemember
  <2>1. /\ poll.pc = "fetched" /\ poll' = [IdlePoll EXCEPT !.pc = "remembered"]
        /\ OnlyLists /\ progress' = progress /\ snap' = poll.torrents
    BY <1>4 DEF PollRemember, At, OnlyLists, pollOthers
  <2>2. /\ poll' \in PollType /\ poll'.d = Unknown /\ poll'.left = {} /\ poll'.pc = "remembered"
        /\ \A e \in Rows : poll'.list[e].post = ""
    BY <2>1, IdlePollType DEF IdlePoll, PollType, PollSteps, NoRow
  <2>3. \A e \in Rows : live[e] = "absent" /\ Unseen(e) => Unseen(e)'
    BY <2>1, <2>2 DEF Unseen
  <2>4. poll.torrents \in [Rows -> TorrentStates]
    BY <1>1 DEF PollType
  <2> QED  BY <1>2, <2>1, <2>2, <2>3, <2>4
<1>5. CASE PollList
  <2> DEFINE left == {d \in Rows : Active(row[d])}
             list == [d \in Rows |-> IF Active(row[d]) THEN row[d] ELSE NoRow]
  <2>1. /\ poll.pc = "remembered" /\ poll' = [poll EXCEPT !.pc = "next", !.left = left, !.list = list]
        /\ OnlyLists /\ progress' = progress /\ snap' = snap
    BY <1>5 DEF PollList, At, OnlyLists, pollOthers
  <2>2. left \subseteq Rows /\ list \in [Rows -> Row]
    BY <1>1, RowFields
  <2>3. /\ \A e \in Rows : e \in left => Active(row[e]) /\ list[e] = row[e]
        /\ \A e \in Rows : list[e].post \in {row[e].post, ""}
    BY DEF NoRow
  <2> HIDE DEF left, list
  <2>4. /\ poll' \in PollType /\ poll'.d = poll.d /\ poll'.pc = "next"
        /\ poll'.left = left /\ poll'.list = list
    BY <1>1, <2>1, <2>2 DEF PollType, PollSteps
  <2>5. \A e \in Rows : live[e] = "absent" /\ Unseen(e) => Unseen(e)'
    BY <2>1, <2>4 DEF Unseen
  <2> QED  BY <1>1, <1>2, <2>1, <2>3, <2>4, <2>5
<1>6. CASE PollEnd
  <2>1. poll' = IdlePoll /\ OnlyLists /\ progress' = progress /\ snap' = snap
    BY <1>6 DEF PollEnd, OnlyLists, pollOthers
  <2>2. /\ poll' \in PollType /\ poll'.d = Unknown /\ poll'.left = {} /\ poll'.pc = "idle"
        /\ \A e \in Rows : poll'.list[e].post = ""
    BY <2>1, IdlePollType DEF IdlePoll, NoRow
  <2>3. \A e \in Rows : live[e] = "absent" /\ Unseen(e) => Unseen(e)'
    BY <2>1, <2>2 DEF Unseen
  <2> QED  BY <1>1, <1>2, <2>1, <2>2, <2>3
<1> QED  BY <1>3, <1>4, <1>5, <1>6 DEF Listing

LEMMA ListingKeeps ==
  ASSUME PipelineInv, Listing
  PROVE  PipelineInv'
<1>1. /\ OnlyLists /\ progress' = progress /\ poll' \in PollType
      /\ poll.d = Unknown /\ poll'.d = Unknown
      /\ snap' \in [Rows -> TorrentStates] \cup {Unknown}
      /\ poll'.pc \in {"idle", "fetched", "remembered", "next"}
      /\ poll'.pc \in {"idle", "fetched", "remembered"} => poll'.left = {}
  BY ListingSteps
<1>2. TorrentTypeOK'
  <2>1. TorrentTypeOK /\ progress' \in [Rows -> TorrentStates] \cup {Unknown}
    BY <1>1, TorrentParts DEF PipelineInv
  <2> QED  BY <1>1, <2>1, ListsKeepTypes
<1>3. PollAt'
  BY <1>1 DEF PollAt, RowSteps
<1>4. ASSUME NEW e \in Rows  PROVE RowInv(e)'
  <2>1. /\ e \in poll'.left => Active(row[e]) /\ poll'.list[e] = row[e]
        /\ poll'.list[e].post \in {poll.list[e].post, row[e].post, ""}
        /\ live[e] = "absent" /\ Unseen(e) => Unseen(e)'
    BY ListingSteps
  <2>2. row' = row /\ live' = live /\ request' = request /\ job' = job /\ executed' = executed
        /\ runState' = runState
    BY <1>1 DEF OnlyLists, storeVars, pipeVars
  <2>3. poll.d # e /\ poll'.d # e
    BY <1>1, TorrentAssumption
  <2>4. RowInv(e)
    BY DEF PipelineInv
  <2>5. Entered(e)'
    BY <2>2, <2>4 DEF RowInv, Entered
  <2>6. Listed(e)' /\ InHand(e)'
    BY <2>1, <2>2, <2>3 DEF Listed, InHand, ListedOnce, Active
  <2>7. CutShort(e)'
    BY <2>1, <2>2, <2>3, <2>4 DEF RowInv, CutShort, SaysInterrupted
  <2>8. Settled(e) => Settled(e)'
    BY <2>1, <2>2 DEF Settled, Active
  <2>9. RemovedOnce(e)'
    BY <2>1, <2>2, <2>3, <2>4, <2>8 DEF RowInv, RemovedOnce, Started, Gone
  <2> QED  BY <2>5, <2>6, <2>7, <2>9 DEF RowInv
<1> QED  BY <1>1, <1>2, <1>3, <1>4, ListsKeepRuns DEF PipelineInv

-----------------------------------------------------------------------------
(* The poll at one row.  What it may do to the others is always the same.  *)

OthersLeft(d) ==
  /\ \A e \in Rows \ {d} : row'[e] = row[e] /\ live'[e] = live[e] /\ poll'.list[e] = poll.list[e]
  /\ \A e \in Rows \ {d} : e \in poll'.left => e \in poll.left
  /\ \A j \in Jobs \ {Completion(d), Removal(d)} : job'[j] = job[j]
  /\ poll.d \in {d, Unknown} /\ poll'.d \in {d, Unknown}
  /\ poll.pc \notin {"idle", "fetched"} /\ poll'.pc \notin {"idle", "fetched"}
  /\ UNCHANGED <<snap, progress, request, executed, runState>>

LEMMA OthersRest ==
  ASSUME PipelineInv, NEW d \in Rows, OthersLeft(d), NEW e \in Rows \ {d}
  PROVE  RowInv(e)'
<1>1. \A j \in {Completion(e), Removal(e)} : job'[j] = job[j]
  BY JobNames DEF OthersLeft
<1>2. Unseen(e) => Unseen(e)'
  BY DEF OthersLeft, Unseen
<1>3. poll.d # e /\ poll'.d # e
  BY TorrentAssumption DEF OthersLeft
<1>4. Apart(e)
  BY <1>1, <1>2, <1>3 DEF OthersLeft, Apart
<1> QED  BY <1>4, RowRests DEF PipelineInv

\* Work that is at a row d, and the torrent of which has not been removed.
LEMMA NotStarted ==
  ASSUME PipelineInv, NEW d \in Rows, poll.d = d, poll.pc # "save"
  PROVE  ~Started(d) /\ executed[Removal(d)] = 0 /\ job[Removal(d)].pc = "none"
<1>1. ~Started(d)
  BY DEF PipelineInv, RowInv, RemovedOnce, Gone
<1>2. executed[Removal(d)] \in Nat
  BY JobNames, TorrentParts DEF PipelineInv
<1> QED  BY <1>1, <1>2 DEF Started

LEMMA VisitKeeps ==
  ASSUME PipelineInv, NEW d \in Rows, PollDownload(d)
  PROVE  PipelineInv'
<1>1. /\ poll \in PollType /\ row \in [Rows -> Row] /\ poll.list[d] \in Row /\ TorrentTypeOK
  BY TorrentParts DEF PipelineInv, PollType
<1>2. PICK s \in Sighted(poll.list[d], snap[d]) :
        /\ poll' = [poll EXCEPT !.pc = s[1], !.cur = s[2], !.left = @ \ {d},
                                !.d = IF s[1] = "next" THEN Unknown ELSE d,
                                !.list[d] = NoRow]
        /\ IF s[1] = "search" THEN SaveTorrentState(d, s[2]) ELSE UNCHANGED row
  BY DEF PollDownload
<1>3. /\ poll.pc = "next" /\ d \in poll.left
      /\ UNCHANGED <<runState, live, pipeVars, pollOthers>>
  BY DEF PollDownload, At
<1>4. /\ s[1] \in {"next", "save", "complete", "check", "search"} /\ s[2] \in Row
      /\ Handled(poll.list[d]) => s[1] = "next"
      /\ snap[d] = "absent" => s[1] = "next" \/ (s[1] = "save" /\ Handled(s[2]))
      /\ s[2].post = "pipeline_interrupted" => poll.list[d].post = "pipeline_interrupted"
      /\ s[1] = "search" => s[2].status = "downloading" /\ s[2].post = "fallback"
  BY <1>1, SightedType
<1>5. poll.d = Unknown
  BY <1>3 DEF PipelineInv, PollAt, RowSteps
<1>6. /\ poll' \in PollType /\ poll'.pc = s[1] /\ poll'.cur = s[2] /\ poll'.left = poll.left \ {d}
      /\ poll'.d = (IF s[1] = "next" THEN Unknown ELSE d)
      /\ poll'.list[d] = NoRow /\ \A e \in Rows \ {d} : poll'.list[e] = poll.list[e]
  <2> DEFINE list == [poll.list EXCEPT ![d] = NoRow]
  <2>1. list \in [Rows -> Row] /\ list[d] = NoRow /\ \A e \in Rows \ {d} : list[e] = poll.list[e]
    BY <1>1, RowFields DEF PollType
  <2>2. poll' = [poll EXCEPT !.pc = s[1], !.cur = s[2], !.left = poll.left \ {d},
                             !.d = IF s[1] = "next" THEN Unknown ELSE d, !.list = list]
    BY <1>2
  <2>3. s[1] \in PollSteps
    BY <1>4 DEF PollSteps
  <2> HIDE DEF list
  <2> QED  BY <1>1, <1>4, <2>1, <2>2, <2>3 DEF PollType
<1>7. /\ row' \in [Rows -> Row] /\ \A e \in Rows \ {d} : row'[e] = row[e]
      /\ row'[d] = row[d] \/ (s[1] = "search" /\ Active(row[d]) /\ row'[d] = s[2])
  BY <1>1, <1>2, <1>4, SavedRows
<1>8. TorrentTypeOK'
  <2>1. poll' \in [pc : PollSteps, list : [Rows -> Row], left : SUBSET Rows,
                   d : Rows \cup {Unknown}, cur : Row, torrents : [Rows -> TorrentStates]]
    BY <1>6 DEF PollType
  <2>2. row' \in [Rows -> Row]
    BY <1>7
  <2> QED  BY <1>1, <1>3, <2>1, <2>2 DEF TorrentTypeOK, pipeVars, pollOthers
<1>9. PollAt'
  BY <1>4, <1>6 DEF PollAt, RowSteps, PollSteps
<1>10. QueuedOnce' /\ \A j \in Jobs : OneRun(j)'
  BY <1>3 DEF PipelineInv, pipeVars, QueuedOnce, OneRun, PipelineEnded
<1>11. ASSUME NEW e \in Rows \ {d}  PROVE RowInv(e)'
  <2>1. OthersLeft(d)
    BY <1>3, <1>4, <1>5, <1>6, <1>7 DEF OthersLeft, pipeVars, pollOthers
  <2> QED  BY <2>1, OthersRest
<1>12. RowInv(d)'
  <2>1. RowInv(d) /\ poll.d # d
    BY <1>5, TorrentAssumption DEF PipelineInv
  <2>2. row[d].status \in ListedOnce /\ row[d].status # "none"
    BY <1>3, <2>1 DEF RowInv, Listed, ListedOnce
  <2>3. row'[d].status \in ListedOnce /\ row'[d].status # "none"
    BY <1>4, <1>7, <2>2 DEF ListedOnce
  <2>4. UNCHANGED <<runState, live, job, executed, snap, progress, request>>
    BY <1>3 DEF pipeVars, pollOthers
  <2>5. Entered(d)'
    BY <2>1, <2>2, <2>3, <2>4 DEF RowInv, Entered
  <2>6. Listed(d)'
    BY <1>6 DEF Listed
  <2>7. InHand(d)'
    BY <1>4, <1>6, <2>3, TorrentAssumption DEF InHand, RowSteps, PollSteps
  <2>8. CutShort(d)'
    <3>1. row'[d].post = "pipeline_interrupted" => row[d].post = "pipeline_interrupted"
      BY <1>4, <1>7
    <3>2. poll'.list[d].post = ""
      <4>1. NoRow.post = ""
        BY DEF NoRow
      <4> QED  BY <1>6, <4>1
    <3>3. poll'.cur.post = "pipeline_interrupted" => poll.list[d].post = "pipeline_interrupted"
      BY <1>4, <1>6
    <3>4. SaysInterrupted(d)' => SaysInterrupted(d)
      BY <3>1, <3>2, <3>3 DEF SaysInterrupted
    <3> QED  BY <2>1, <2>4, <3>4 DEF RowInv, CutShort
  <2>9. RemovedOnce(d)'
    <3> SUFFICES ASSUME Started(d)'  PROVE Gone(d)'
      BY DEF RemovedOnce
    <3>1. Gone(d) /\ (Unseen(d) \/ Settled(d))
      BY <2>1, <2>4 DEF RowInv, RemovedOnce, Started, Gone
    <3>2. CASE s[1] = "next"
      <4>1. row' = row /\ poll'.d # d
        BY <1>2, <1>6, <3>2, TorrentAssumption
      <4>2. (Unseen(d) => Unseen(d)') /\ (Settled(d) => Settled(d)')
        BY <1>3, <1>6, <2>4, <3>2, <4>1 DEF Unseen, Settled
      <4> QED  BY <2>4, <3>1, <4>1, <4>2 DEF Gone
    <3>3. CASE s[1] # "next"
      <4>1. ~Settled(d)
        BY <1>3, <1>4, <3>3 DEF Settled
      <4>2. s[1] = "save" /\ Handled(s[2])
        BY <1>3, <1>4, <3>1, <3>3, <4>1 DEF Unseen
      <4> QED  BY <1>6, <2>4, <3>1, <4>2 DEF Gone
    <3> QED  BY <3>2, <3>3
  <2> QED  BY <2>5, <2>6, <2>7, <2>8, <2>9 DEF RowInv
<1> QED  BY <1>8, <1>9, <1>10, <1>11, <1>12 DEF PipelineInv

LEMMA PlainWorkKeeps ==
  ASSUME PipelineInv, NEW d \in Rows, poll.d = d, PlainWork
  PROVE  PipelineInv'
<1>1. Worked(d) /\ TorrentTypeOK /\ RowInv(d)
  BY PlainWorkOnRow DEF PipelineInv
<1>2. UNCHANGED <<runState, inFlight, jobs, job, executed, snap, progress, request, kills>>
  BY <1>1 DEF Worked, pipeVars
<1>3. TorrentTypeOK'
  BY <1>1, <1>2 DEF TorrentTypeOK, PollType, Worked
<1>4. PollAt'
  BY <1>1 DEF PollAt, Worked, RowSteps
<1>5. QueuedOnce' /\ \A j \in Jobs : OneRun(j)'
  BY <1>2 DEF PipelineInv, QueuedOnce, OneRun, PipelineEnded
<1>6. ASSUME NEW e \in Rows \ {d}  PROVE RowInv(e)'
  <2>1. OthersLeft(d)
    BY <1>1, <1>2 DEF OthersLeft, Worked, RowSteps
  <2> QED  BY <2>1, OthersRest
<1>7. RowInv(d)'
  <2>1. /\ poll.pc \in RowSteps /\ d \notin poll.left /\ row[d].status # "none"
        /\ poll.pc \notin RetrySteps => row[d].status \in ListedOnce
    BY <1>1 DEF RowInv, InHand
  <2>2. row'[d].status # "none"
    BY <1>1, <2>1 DEF Worked
  <2>3. Entered(d)'
    BY <1>1, <1>2, <2>1, <2>2 DEF RowInv, Entered
  <2>4. Listed(d)'
    BY <1>1, <2>1 DEF Listed, Worked
  <2>5. InHand(d)'
    BY <1>1, <2>1, <2>2, TorrentAssumption DEF InHand, Worked
  <2>6. CutShort(d)'
    <3>1. SaysInterrupted(d)' => SaysInterrupted(d)
      BY <1>1, TorrentAssumption DEF SaysInterrupted, Worked
    <3> QED  BY <1>1, <1>2, <3>1 DEF RowInv, CutShort
  <2>7. ~Started(d)
    BY <1>1, NotStarted DEF Worked
  <2>8. RemovedOnce(d)'
    BY <1>2, <2>7 DEF RemovedOnce, Started
  <2> QED  BY <2>3, <2>4, <2>5, <2>6, <2>8 DEF RowInv
<1> QED  BY <1>3, <1>4, <1>5, <1>6, <1>7 DEF PipelineInv

-----------------------------------------------------------------------------
(* The three steps of the poll that concern the pipelines.                 *)

LEMMA SaveKeeps ==
  ASSUME PipelineInv, NEW d \in Rows, poll.d = d, PollSave
  PROVE  PipelineInv'
<1>1. /\ poll \in PollType /\ row \in [Rows -> Row] /\ poll.cur \in Row /\ TorrentTypeOK /\ RowInv(d)
  BY TorrentParts DEF PipelineInv, PollType
<1>2. /\ poll.pc = "save" /\ SaveTorrentState(d, poll.cur) /\ ToNext
      /\ UNCHANGED <<runState, live, inFlight, jobs, job, executed, snap, progress, request, retried, kills>>
  BY DEF PollSave, At, Cur, pipeVars, pollOthers
<1>3. /\ row' \in [Rows -> Row] /\ \A e \in Rows \ {d} : row'[e] = row[e]
      /\ row'[d] = IF Active(row[d]) THEN poll.cur ELSE row[d]
  BY <1>1, <1>2, SavedRows
<1>4. /\ poll' \in PollType /\ poll'.pc = "next" /\ poll'.d = Unknown
      /\ poll'.left = poll.left /\ poll'.list = poll.list
  BY <1>1, <1>2, PollUpdates
<1>5. TorrentTypeOK'
  <2>1. poll' \in [pc : PollSteps, list : [Rows -> Row], left : SUBSET Rows,
                   d : Rows \cup {Unknown}, cur : Row, torrents : [Rows -> TorrentStates]]
    BY <1>4 DEF PollType
  <2> QED  BY <1>1, <1>2, <1>3, <2>1 DEF TorrentTypeOK
<1>6. PollAt'
  BY <1>4 DEF PollAt, RowSteps
<1>7. QueuedOnce' /\ \A j \in Jobs : OneRun(j)'
  BY <1>2 DEF PipelineInv, QueuedOnce, OneRun, PipelineEnded
<1>8. ASSUME NEW e \in Rows \ {d}  PROVE RowInv(e)'
  <2>1. OthersLeft(d)
    BY <1>2, <1>3, <1>4 DEF OthersLeft
  <2> QED  BY <2>1, OthersRest
<1>9. RowInv(d)'
  <2>1. d \notin poll.left /\ row[d].status \in ListedOnce /\ row[d].status # "none"
    BY <1>1, <1>2 DEF RowInv, InHand, RetrySteps
  <2>2. poll'.d # d /\ d \notin poll'.left
    BY <1>4, <2>1, TorrentAssumption
  <2>3. Entered(d)'
    BY <1>1, <1>2, <2>1 DEF RowInv, Entered
  <2>4. Listed(d)' /\ InHand(d)'
    BY <2>2 DEF Listed, InHand
  <2>5. CutShort(d)'
    <3>1. SaysInterrupted(d)' => SaysInterrupted(d)
      BY <1>3, <1>4, <2>2 DEF SaysInterrupted
    <3> QED  BY <1>1, <1>2, <3>1 DEF RowInv, CutShort
  <2>6. RemovedOnce(d)'
    <3> SUFFICES ASSUME Started(d)'  PROVE Gone(d)'
      BY DEF RemovedOnce
    <3>1. Gone(d) /\ Handled(poll.cur)
      BY <1>1, <1>2 DEF RowInv, RemovedOnce, Started, Gone
    <3>2. Handled(row'[d]) \/ row'[d].status = "deleted"
      BY <1>3, <2>1, <3>1 DEF Active, ListedOnce
    <3>3. Settled(d)'
      BY <2>2, <3>2 DEF Settled, Handled
    <3> QED  BY <1>2, <2>2, <3>1, <3>3 DEF Gone
  <2> QED  BY <2>3, <2>4, <2>5, <2>6 DEF RowInv
<1> QED  BY <1>5, <1>6, <1>7, <1>8, <1>9 DEF PipelineInv

\* A started pipeline: its job is marked and has not run.
LEMMA StartedRun ==
  ASSUME PipelineInv, NEW j \in Jobs, NEW p \in Posts \ {"pipeline_interrupted"}, StartPipeline(j, p),
         ~IsInFlight(j), executed[j] = 0, runState' = runState
  PROVE  /\ inFlight' \subseteq Jobs /\ job' \in [Jobs -> JobType] /\ jobs' = jobs /\ executed' = executed
         /\ \A i \in Jobs \ {j} : job'[i] = job[i]
         /\ job'[j].pc = "sending"
         /\ QueuedOnce' /\ \A i \in Jobs : OneRun(i)'
<1>1. job \in [Jobs -> JobType] /\ inFlight \subseteq Jobs /\ jobs \in Seq(Jobs)
  BY TorrentParts DEF PipelineInv
<1> DEFINE n == [NoJob EXCEPT !.pc = "sending", !.post = p]
<1>2. n \in JobType /\ n.pc = "sending" /\ n.post = p
  BY NoJobType DEF NoJob, JobType, JobSteps
<1>3. job' = [job EXCEPT ![j] = n] /\ inFlight' = inFlight \cup {j} /\ UNCHANGED <<jobs, executed>>
  BY DEF StartPipeline
<1> HIDE DEF n
<1>4. /\ job' \in [Jobs -> JobType] /\ job'[j] = n /\ \A i \in Jobs \ {j} : job'[i] = job[i]
      /\ inFlight' \subseteq Jobs
  BY <1>1, <1>2, <1>3
<1>5. job[j].pc = "none"
  BY DEF PipelineInv, OneRun, IsInFlight
<1>6. QueuedOnce'
  <2>1. j \notin ToSet(jobs) /\ ToSet(jobs) \subseteq Jobs
    BY <1>1, <1>5 DEF PipelineInv, QueuedOnce, ToSet
  <2> QED  BY <1>3, <1>4, <2>1 DEF PipelineInv, QueuedOnce, ToSet
<1>7. \A i \in Jobs \ {j} : OneRun(i)'
  BY <1>3, <1>4, RunRests DEF PipelineInv
<1>8. OneRun(j)'
  <2>1. OneRun(j)
    BY DEF PipelineInv
  <2> QED  BY <1>2, <1>3, <1>4, <2>1 DEF OneRun, PipelineEnded
<1> QED  BY <1>2, <1>3, <1>4, <1>6, <1>7, <1>8

\* A run that the table does not know has not run its steps.
LEMMA CompleteKeeps ==
  ASSUME PipelineInv, NEW d \in Rows, poll.d = d, Completed
  PROVE  PipelineInv'
<1> DEFINE j == Completion(d)
           ends == [poll.cur EXCEPT !.post = IF @ = "cleanup_failed" THEN @ ELSE "withheld"]
           cut == [poll.cur EXCEPT !.post = "pipeline_interrupted"]
           runs == [poll.cur EXCEPT !.post = "processing"]
<1>1. /\ poll \in PollType /\ row \in [Rows -> Row] /\ poll.cur \in Row /\ TorrentTypeOK /\ RowInv(d)
      /\ OneRun(j) /\ executed[j] \in Nat /\ j \in Jobs
  BY TorrentParts, JobNames DEF PipelineInv, PollType
<1>2. /\ poll.pc = "complete"
      /\ UNCHANGED <<row, runState, live, snap, progress, request, retried, kills>>
  BY DEF Completed, At, storeVars, pollOthers
<1>3. \/ IsInFlight(j) /\ To("save") /\ UNCHANGED pipeVars
      \/ ~IsInFlight(j) /\ runState[j] = "" /\ StartPipeline(j, "processing") /\ ToWith("save", runs)
      \/ ~IsInFlight(j) /\ runState[j] = "running" /\ ToWith("save", cut) /\ UNCHANGED pipeVars
      \/ ~IsInFlight(j) /\ PipelineEnded(j) /\ (ToWith("save", ends) \/ To("cleanup")) /\ UNCHANGED pipeVars
  BY DEF Completed, Cur, Completion
<1>4. /\ ends \in Row /\ ends.post # "pipeline_interrupted"
      /\ cut \in Row /\ runs \in Row /\ runs.post = "processing"
  BY <1>1, RowFields DEF Posts
<1> HIDE DEF j, ends, cut, runs
<1>a. runState[j] = "" => executed[j] = 0
  <2>1. executed[j] \in Nat /\ executed[j] <= 1
    BY <1>1 DEF OneRun
  <2>2. runState[j] = "" => executed[j] # 1
    BY <1>1 DEF OneRun
  <2>3. \A x \in Nat : x <= 1 => x = 0 \/ x = 1
    OBVIOUS
  <2>4. executed[j] = 0 \/ executed[j] = 1
    BY <2>1, <2>3
  <2> QED  BY <2>2, <2>4
<1>5. "save" \in PollSteps /\ "cleanup" \in PollSteps
  BY DEF PollSteps
<1>6. /\ poll' \in PollType /\ poll'.pc \in {"save", "cleanup"} /\ poll'.d = d
      /\ poll'.left = poll.left /\ poll'.list = poll.list
  BY <1>1, <1>3, <1>4, <1>5, PollUpdates
<1>7. /\ inFlight' \subseteq Jobs /\ job' \in [Jobs -> JobType] /\ jobs' = jobs /\ executed' = executed
      /\ \A i \in Jobs \ {j} : job'[i] = job[i]
      /\ QueuedOnce' /\ \A i \in Jobs : OneRun(i)'
  <2>1. CASE UNCHANGED pipeVars
    <3>1. inFlight \subseteq Jobs /\ job \in [Jobs -> JobType]
      BY <1>1, TorrentParts
    <3>2. UNCHANGED <<inFlight, job, jobs, executed, runState>>
      BY <1>2, <2>1 DEF pipeVars
    <3>3. QueuedOnce'
      BY <3>2 DEF PipelineInv, QueuedOnce
    <3>4. \A i \in Jobs : OneRun(i)'
      BY <3>2 DEF PipelineInv, OneRun, PipelineEnded
    <3> QED  BY <3>1, <3>2, <3>3, <3>4
  <2>2. CASE ~IsInFlight(j) /\ runState[j] = "" /\ StartPipeline(j, "processing")
    <3>1. executed[j] = 0
      BY <1>a, <2>2
    <3>2. "processing" \in Posts \ {"pipeline_interrupted"}
      BY DEF Posts
    <3> QED  BY <1>1, <1>2, <2>2, <3>1, <3>2, StartedRun
  <2> QED  BY <1>3, <2>1, <2>2
<1>8. TorrentTypeOK'
  <2>1. poll' \in [pc : PollSteps, list : [Rows -> Row], left : SUBSET Rows,
                   d : Rows \cup {Unknown}, cur : Row, torrents : [Rows -> TorrentStates]]
    BY <1>6 DEF PollType
  <2>2. job' \in [Jobs -> [pc : JobSteps, post : Posts, failed : BOOLEAN, copy : Row]]
    BY <1>7 DEF JobType
  <2> QED  BY <1>1, <1>2, <1>7, <2>1, <2>2 DEF TorrentTypeOK
<1>9. PollAt'
  BY <1>6 DEF PollAt, RowSteps, PollSteps
<1>10. ASSUME NEW e \in Rows \ {d}  PROVE RowInv(e)'
  <2>1. OthersLeft(d)
    BY <1>2, <1>6, <1>7 DEF OthersLeft, j
  <2> QED  BY <2>1, OthersRest
<1>11. RowInv(d)'
  <2>1. d \notin poll.left /\ row[d].status \in ListedOnce /\ row[d].status # "none"
    BY <1>1, <1>2 DEF RowInv, InHand, RetrySteps
  <2>2. job'[Removal(d)] = job[Removal(d)]
    BY <1>7, JobNames DEF j
  <2>3. \/ job'[j].pc = job[j].pc /\ job'[j].copy = job[j].copy
        \/ job'[j].pc = "sending" /\ runState[j] = "" /\ poll'.pc = "save" /\ poll'.cur.post = "processing"
    <3>1. CASE UNCHANGED pipeVars
      BY <3>1 DEF pipeVars
    <3>2. CASE ~IsInFlight(j) /\ runState[j] = "" /\ StartPipeline(j, "processing") /\ ToWith("save", runs)
      <4>1. executed[j] = 0
        BY <1>a, <3>2
      <4>2. "processing" \in Posts \ {"pipeline_interrupted"}
        BY DEF Posts
      <4>3. job'[j].pc = "sending"
        BY <1>1, <1>2, <3>2, <4>1, <4>2, StartedRun
      <4> QED  BY <1>1, <1>4, <1>5, <3>2, <4>3, PollUpdates
    <3> QED  BY <1>3, <3>1, <3>2
  <2>4. Entered(d)'
    <3>1. Entered(d)
      BY <1>1 DEF RowInv
    <3>2. UNCHANGED <<row, request>>
      BY <1>2
    <3>3. j = Completion(d)
      BY DEF j
    <3>4. job'[j].pc = "saving" => job[j].pc = "saving" /\ job'[j].copy = job[j].copy
      BY <2>3
    <3> QED  BY <2>2, <3>1, <3>2, <3>3, <3>4 DEF Entered
  <2>5. Listed(d)'
    BY <1>6, <2>1 DEF Listed
  <2>6. InHand(d)'
    <3>1. poll'.pc = "cleanup" => job'[j].pc = "none" /\ PipelineEnded(j)
      <4>1. poll'.pc = "cleanup" => ~IsInFlight(j) /\ PipelineEnded(j) /\ UNCHANGED pipeVars
        BY <1>1, <1>3, <1>4, <1>5, PollUpdates
      <4> QED  BY <1>1, <4>1 DEF OneRun, IsInFlight, pipeVars
    <3> QED  BY <1>2, <1>6, <2>1, <3>1 DEF InHand, RowSteps, PollSteps, RetrySteps, PipelineEnded, j
  <2>7. CutShort(d)'
    <3>1. poll'.cur.post = "pipeline_interrupted" =>
            \/ poll.cur.post = "pipeline_interrupted"
            \/ ~IsInFlight(j) /\ runState[j] = "running" /\ UNCHANGED pipeVars
      BY <1>1, <1>3, <1>4, <1>5, PollUpdates
    <3>2. ~IsInFlight(j) => job[j].pc = "none"
      BY <1>1 DEF OneRun, IsInFlight
    <3>3. CASE poll'.cur.post = "pipeline_interrupted" /\ ~IsInFlight(j) /\ runState[j] = "running" /\ UNCHANGED pipeVars
      BY <1>2, <3>2, <3>3 DEF CutShort, pipeVars, j
    <3>4. CASE SaysInterrupted(d)' => SaysInterrupted(d)
      BY <1>1, <1>2, <2>3, <3>4 DEF RowInv, CutShort, j
    <3>5. SaysInterrupted(d)' =>
            SaysInterrupted(d) \/ poll'.cur.post = "pipeline_interrupted"
      BY <1>2, <1>6 DEF SaysInterrupted
    <3>6. poll.cur.post = "pipeline_interrupted" => SaysInterrupted(d)
      BY DEF SaysInterrupted
    <3> QED  BY <3>1, <3>3, <3>4, <3>5, <3>6
  <2>8. RemovedOnce(d)'
    <3>1. ~Started(d)
      BY <1>2, NotStarted
    <3> QED  BY <1>7, <2>2, <3>1 DEF RemovedOnce, Started
  <2> QED  BY <2>4, <2>5, <2>6, <2>7, <2>8 DEF RowInv
<1> QED  BY <1>7, <1>8, <1>9, <1>10, <1>11 DEF PipelineInv

LEMMA CleanupKeeps ==
  ASSUME PipelineInv, NEW d \in Rows, poll.d = d, CleanupTorrent
  PROVE  PipelineInv'
<1> DEFINE j == Removal(d)
           failed == [poll.cur EXCEPT !.post = "cleanup_failed"]
           gone == [poll.cur EXCEPT !.post = "completed_removed"]
<1>1. /\ poll \in PollType /\ row \in [Rows -> Row] /\ poll.cur \in Row /\ TorrentTypeOK /\ RowInv(d)
      /\ live \in [Rows -> TorrentStates] /\ j \in Jobs
  BY TorrentParts, JobNames DEF PipelineInv, PollType
<1>2. /\ poll.pc = "cleanup"
      /\ UNCHANGED <<row, runState, snap, progress, request, retried, kills>>
  BY DEF CleanupTorrent, At, storeVars, pollOthers
<1>3. ~Started(d) /\ executed[j] = 0 /\ ~IsInFlight(j)
  <2>1. ~Started(d) /\ executed[j] = 0 /\ job[j].pc = "none"
    BY <1>2, NotStarted
  <2> QED  BY <1>1, <2>1 DEF PipelineInv, OneRun, IsInFlight
<1>4. \/ ToWith("save", failed) /\ UNCHANGED <<live, pipeVars>>
      \/ /\ live' = [live EXCEPT ![d] = "absent"] /\ ToWith("save", gone)
         /\ StartPipeline(j, "completed_removed")
  BY <1>3 DEF CleanupTorrent, Cur, Removal
<1>5. /\ failed \in Row /\ failed.post = "cleanup_failed"
      /\ gone \in Row /\ gone.post = "completed_removed"
  BY <1>1, RowFields DEF Posts
<1> HIDE DEF j, failed, gone
<1>6. "save" \in PollSteps
  BY DEF PollSteps
<1>7. /\ poll' \in PollType /\ poll'.pc = "save" /\ poll'.d = d
      /\ poll'.left = poll.left /\ poll'.list = poll.list
      /\ poll'.cur.post \in {"cleanup_failed", "completed_removed"}
  BY <1>1, <1>4, <1>5, <1>6, PollUpdates
<1>8. live' \in [Rows -> TorrentStates] /\ \A e \in Rows \ {d} : live'[e] = live[e]
  BY <1>1, <1>4 DEF TorrentStates
<1>9. /\ inFlight' \subseteq Jobs /\ job' \in [Jobs -> JobType] /\ jobs' = jobs /\ executed' = executed
      /\ \A i \in Jobs \ {j} : job'[i] = job[i]
      /\ QueuedOnce' /\ \A i \in Jobs : OneRun(i)'
  <2>1. CASE UNCHANGED pipeVars
    <3>1. inFlight \subseteq Jobs /\ job \in [Jobs -> JobType]
      BY <1>1, TorrentParts
    <3>2. UNCHANGED <<inFlight, job, jobs, executed, runState>>
      BY <1>2, <2>1 DEF pipeVars
    <3>3. QueuedOnce'
      BY <3>2 DEF PipelineInv, QueuedOnce
    <3>4. \A i \in Jobs : OneRun(i)'
      BY <3>2 DEF PipelineInv, OneRun, PipelineEnded
    <3> QED  BY <3>1, <3>2, <3>3, <3>4
  <2>2. CASE StartPipeline(j, "completed_removed")
    <3>1. "completed_removed" \in Posts \ {"pipeline_interrupted"}
      BY DEF Posts
    <3> QED  BY <1>1, <1>2, <1>3, <2>2, <3>1, StartedRun
  <2> QED  BY <1>4, <2>1, <2>2
<1>10. TorrentTypeOK'
  <2>1. poll' \in [pc : PollSteps, list : [Rows -> Row], left : SUBSET Rows,
                   d : Rows \cup {Unknown}, cur : Row, torrents : [Rows -> TorrentStates]]
    BY <1>7 DEF PollType
  <2>2. job' \in [Jobs -> [pc : JobSteps, post : Posts, failed : BOOLEAN, copy : Row]]
    BY <1>9 DEF JobType
  <2> QED  BY <1>1, <1>2, <1>8, <1>9, <2>1, <2>2 DEF TorrentTypeOK
<1>11. PollAt'
  BY <1>7 DEF PollAt, RowSteps, PollSteps
<1>12. ASSUME NEW e \in Rows \ {d}  PROVE RowInv(e)'
  <2>1. OthersLeft(d)
    BY <1>2, <1>7, <1>8, <1>9 DEF OthersLeft, j
  <2> QED  BY <2>1, OthersRest
<1>13. RowInv(d)'
  <2>1. /\ d \notin poll.left /\ row[d].status \in ListedOnce /\ row[d].status # "none"
        /\ job[Completion(d)].pc = "none"
    BY <1>1, <1>2 DEF RowInv, InHand, RetrySteps
  <2>2. job'[Completion(d)] = job[Completion(d)]
    BY <1>9, JobNames DEF j
  <2>3. job'[j].pc \in {"none", "sending"}
    <3>1. CASE UNCHANGED pipeVars
      BY <1>1, <1>3, <3>1 DEF pipeVars, PipelineInv, OneRun, IsInFlight
    <3>2. CASE StartPipeline(j, "completed_removed")
      <4>1. "completed_removed" \in Posts \ {"pipeline_interrupted"}
        BY DEF Posts
      <4> QED  BY <1>1, <1>2, <1>3, <3>2, <4>1, StartedRun
    <3> QED  BY <1>4, <3>1, <3>2
  <2>4. Entered(d)'
    BY <1>1, <1>2, <2>2, <2>3 DEF RowInv, Entered, j
  <2>5. Listed(d)'
    BY <1>7, <2>1 DEF Listed
  <2>6. InHand(d)'
    BY <1>2, <1>7, <2>1 DEF InHand, RowSteps, PollSteps, RetrySteps
  <2>7. CutShort(d)'
    <3>1. SaysInterrupted(d)' => SaysInterrupted(d)
      BY <1>2, <1>7 DEF SaysInterrupted
    <3> QED  BY <1>1, <1>2, <2>2, <3>1 DEF RowInv, CutShort
  <2>8. RemovedOnce(d)'
    <3> SUFFICES ASSUME Started(d)'  PROVE Gone(d)'
      BY DEF RemovedOnce
    <3>1. ~UNCHANGED pipeVars
      BY <1>3 DEF pipeVars, Started
    <3>2. live'[d] = "absent" /\ ToWith("save", gone)
      BY <1>1, <1>4, <3>1
    <3>3. Handled(poll'.cur)
      BY <1>1, <1>5, <1>6, <3>2, PollUpdates DEF Handled
    <3>4. request'[d] \in {"done", "removing"}
      BY <1>1, <1>2, <2>1 DEF RowInv, Entered
    <3> QED  BY <1>7, <2>1, <2>2, <3>2, <3>3, <3>4 DEF Gone
  <2> QED  BY <2>4, <2>5, <2>6, <2>7, <2>8 DEF RowInv
<1> QED  BY <1>9, <1>10, <1>11, <1>12, <1>13 DEF PipelineInv

-----------------------------------------------------------------------------
(* The steps of one pipeline.                                              *)

LEMMA RunStep ==
  ASSUME PipelineInv, NEW j \in Jobs, PipelineStep(j)
  PROVE  /\ inFlight' \subseteq Jobs /\ jobs' \in Seq(Jobs) /\ Len(jobs') <= Capacity
         /\ job' \in [Jobs -> JobType] /\ executed' \in [Jobs -> Nat]
         /\ runState' \in [Jobs -> {"", "running", "completed", "failed"}]
         /\ \A i \in Jobs \ {j} : job'[i] = job[i] /\ executed'[i] = executed[i] /\ runState'[i] = runState[i]
         /\ job[j].pc # "none" /\ UNCHANGED pipeOthers
         /\ QueuedOnce' /\ \A i \in Jobs : OneRun(i)'
<1> USE DEF pipeOthers, storeVars
<1>0. /\ inFlight \subseteq Jobs /\ jobs \in Seq(Jobs) /\ Len(jobs) <= Capacity
      /\ job \in [Jobs -> JobType] /\ executed \in [Jobs -> Nat]
      /\ runState \in [Jobs -> {"", "running", "completed", "failed"}]
      /\ \A i \in Jobs : OneRun(i)
      /\ NoDuplicates(jobs) /\ \A i \in ToSet(jobs) : job[i].pc = "queued"
  BY TorrentParts DEF PipelineInv, QueuedOnce
<1>1. /\ job[j] \in JobType /\ executed[j] \in Nat /\ OneRun(j)
  BY <1>0
<1>2. ToSet(jobs) \subseteq Jobs
  <2>1. \A i \in DOMAIN jobs : jobs[i] \in Jobs
    <3>1. jobs \in Seq(Jobs)
      BY <1>0
    <3> QED  BY <3>1, LenProperties, ElementOfSeq
  <2> QED  BY <2>1 DEF ToSet
<1>3. job[j].pc # "queued" => j \notin ToSet(jobs)
  BY <1>0
\* A job that is at another step, and its run that goes on.
<1>4. ASSUME NEW n \in JobType, job' = [job EXCEPT ![j] = n]
      PROVE  job' \in [Jobs -> JobType] /\ job'[j] = n /\ \A i \in Jobs \ {j} : job'[i] = job[i]
  BY <1>0, <1>4
<1>5. ASSUME \A i \in Jobs \ {j} : job'[i] = job[i] /\ executed'[i] = executed[i] /\ runState'[i] = runState[i],
             \A i \in Jobs \ {j} : i \in inFlight' <=> i \in inFlight, OneRun(j)'
      PROVE  \A i \in Jobs : OneRun(i)'
  BY <1>0, <1>5, RunRests
<1>6. ASSUME jobs' = jobs, job[j].pc # "queued", \A i \in Jobs \ {j} : job'[i] = job[i]
      PROVE  QueuedOnce'
  BY <1>0, <1>2, <1>3, <1>6 DEF QueuedOnce
<1>7. CASE SendJob(j)
  <2> DEFINE n == [job[j] EXCEPT !.pc = "queued"]
  <2>1. n \in JobType /\ n.pc = "queued" /\ n.post = job[j].post
    BY <1>1 DEF JobType, JobSteps
  <2>2. /\ job[j].pc = "sending" /\ Len(jobs) < Capacity /\ jobs' = Append(jobs, j)
        /\ job' = [job EXCEPT ![j] = n] /\ UNCHANGED <<row, runState, inFlight, executed, pipeOthers>>
    BY <1>7 DEF SendJob
  <2> HIDE DEF n
  <2>3. job' \in [Jobs -> JobType] /\ job'[j] = n /\ \A i \in Jobs \ {j} : job'[i] = job[i]
    BY <1>4, <2>1, <2>2
  <2>4. /\ jobs' \in Seq(Jobs) /\ NoDuplicates(jobs') /\ ToSet(jobs') = ToSet(jobs) \cup {j}
    <3>1. jobs \in Seq(Jobs) /\ NoDuplicates(jobs) /\ j \notin ToSet(jobs)
      BY <1>0, <1>3, <2>2
    <3> QED  BY <2>2, <3>1, AppendNewElement
  <2>5. Len(jobs') <= Capacity
    <3>1. Len(Append(jobs, j)) = Len(jobs) + 1 /\ Len(jobs) \in Nat
      BY <1>0, LenProperties, AppendProperties
    <3> QED  BY <2>2, <3>1, TorrentAssumption
  <2>6. QueuedOnce'
    BY <1>0, <1>2, <2>1, <2>3, <2>4 DEF QueuedOnce
  <2>7. OneRun(j)'
    BY <1>1, <2>1, <2>2, <2>3 DEF OneRun, PipelineEnded
  <2> QED  BY <1>0, <1>5, <2>2, <2>3, <2>4, <2>5, <2>6, <2>7
<1>8. CASE TakeJob(j)
  <2> DEFINE ends == [job[j] EXCEPT !.pc = "finished", !.failed = TRUE]
             runs == [job[j] EXCEPT !.pc = "running"]
  <2>1. /\ ends \in JobType /\ ends.pc = "finished" /\ ends.post = job[j].post
        /\ runs \in JobType /\ runs.pc = "running" /\ runs.post = job[j].post
    BY <1>1 DEF JobType, JobSteps
  <2>2. /\ jobs # <<>> /\ Head(jobs) = j /\ jobs' = Tail(jobs)
        /\ \/ job' = [job EXCEPT ![j] = ends] /\ runState' = runState
           \/ job' = [job EXCEPT ![j] = runs] /\ runState' = [runState EXCEPT ![j] = "running"]
        /\ UNCHANGED <<row, inFlight, executed, pipeOthers>>
    BY <1>8 DEF TakeJob
  <2> HIDE DEF ends, runs
  <2>3. /\ Head(jobs) \in ToSet(jobs) /\ jobs' \in Seq(Jobs)
        /\ NoDuplicates(jobs') /\ ToSet(jobs') = ToSet(jobs) \ {j}
    BY <1>0, <2>2, TailDropsHead
  <2>4. job[j].pc = "queued"
    BY <1>0, <2>2, <2>3
  <2>5. Len(jobs') <= Capacity
    <3>1. Len(Tail(jobs)) = Len(jobs) - 1 /\ Len(jobs) \in Nat
      <4>1. jobs \in Seq(Jobs) /\ jobs # <<>>
        BY <1>0, <2>2
      <4> QED  BY <4>1, LenProperties, HeadTailProperties
    <3>2. Len(jobs) <= Capacity /\ jobs' = Tail(jobs)
      BY <1>0, <2>2
    <3> QED  BY <3>1, <3>2, TorrentAssumption
  <2>6. CASE job' = [job EXCEPT ![j] = ends] /\ runState' = runState
    <3>1. job' \in [Jobs -> JobType] /\ job'[j] = ends /\ \A i \in Jobs \ {j} : job'[i] = job[i]
      BY <1>4, <2>1, <2>6
    <3>2. QueuedOnce'
      BY <1>0, <1>2, <2>3, <3>1 DEF QueuedOnce
    <3>3. OneRun(j)'
      BY <1>1, <2>1, <2>2, <2>4, <2>6, <3>1 DEF OneRun, PipelineEnded
    <3> QED  BY <1>0, <1>5, <2>2, <2>3, <2>4, <2>5, <2>6, <3>1, <3>2, <3>3
  <2>7. CASE job' = [job EXCEPT ![j] = runs] /\ runState' = [runState EXCEPT ![j] = "running"]
    <3>1. job' \in [Jobs -> JobType] /\ job'[j] = runs /\ \A i \in Jobs \ {j} : job'[i] = job[i]
      BY <1>4, <2>1, <2>7
    <3>2. /\ runState' \in [Jobs -> {"", "running", "completed", "failed"}] /\ runState'[j] = "running"
          /\ \A i \in Jobs \ {j} : runState'[i] = runState[i]
      BY <1>0, <2>7
    <3>3. QueuedOnce'
      BY <1>0, <1>2, <2>3, <3>1 DEF QueuedOnce
    <3>4. OneRun(j)'
      BY <1>1, <2>1, <2>2, <2>4, <3>1, <3>2 DEF OneRun, PipelineEnded
    <3> QED  BY <1>0, <1>5, <2>2, <2>3, <2>4, <2>5, <3>1, <3>2, <3>3, <3>4
  <2> QED  BY <2>2, <2>6, <2>7
<1>9. CASE RunSteps(j)
  <2>1. PICK ok \in BOOLEAN :
          /\ runState' = [runState EXCEPT ![j] = IF ok THEN "completed" ELSE "failed"]
          /\ job' = [job EXCEPT ![j].pc = "finished", ![j].failed = ~ok,
                                ![j].post = IF ok THEN "pipeline_completed" ELSE "pipeline_failed"]
    BY <1>9 DEF RunSteps
  <2> DEFINE n == [job[j] EXCEPT !.pc = "finished", !.failed = ~ok,
                                 !.post = IF ok THEN "pipeline_completed" ELSE "pipeline_failed"]
  <2>2. n \in JobType /\ n.pc = "finished" /\ n.post # "pipeline_interrupted"
    BY <1>1 DEF JobType, JobSteps, Posts
  <2>3. /\ job[j].pc = "running" /\ executed' = [executed EXCEPT ![j] = executed[j] + 1]
        /\ UNCHANGED <<row, inFlight, jobs, pipeOthers>>
    BY <1>9 DEF RunSteps
  <2>4. job' = [job EXCEPT ![j] = n]
    BY <2>1
  <2> HIDE DEF n
  <2>5. job' \in [Jobs -> JobType] /\ job'[j] = n /\ \A i \in Jobs \ {j} : job'[i] = job[i]
    BY <1>4, <2>2, <2>4
  <2>6. executed[j] = 0
    BY <1>1, <2>3 DEF OneRun
  <2>7. /\ executed' \in [Jobs -> Nat] /\ executed'[j] = 1
        /\ \A i \in Jobs \ {j} : executed'[i] = executed[i]
    <3>1. executed \in [Jobs -> Nat] /\ executed' = [executed EXCEPT ![j] = 1]
      <4>1. executed[j] + 1 = 1
        BY <2>6
      <4> QED  BY <1>0, <2>3, <4>1
    <3> QED  BY <3>1
  <2>8. /\ runState' \in [Jobs -> {"", "running", "completed", "failed"}] /\ runState'[j] \in {"completed", "failed"}
        /\ \A i \in Jobs \ {j} : runState'[i] = runState[i]
    <3>1. PICK s \in {"completed", "failed"} : runState' = [runState EXCEPT ![j] = s]
      BY <2>1
    <3>2. runState \in [Jobs -> {"", "running", "completed", "failed"}]
      BY <1>0
    <3> QED  BY <3>1, <3>2
  <2>9. OneRun(j)'
    <3>1. j \in inFlight'
      BY <1>1, <2>3 DEF OneRun
    <3>2. executed'[j] = 1 /\ executed'[j] <= 1 /\ runState'[j] # ""
      <4>1. executed'[j] = 1 /\ runState'[j] # ""
        BY <2>7, <2>8
      <4>2. \A x : x = 1 => x <= 1
        OBVIOUS
      <4> QED  BY <4>1, <4>2
    <3>3. job'[j].pc = "finished" /\ job'[j].post # "pipeline_interrupted"
      BY <2>2, <2>5
    <3> QED  BY <3>1, <3>2, <3>3 DEF OneRun, PipelineEnded
  <2>10. QueuedOnce'
    BY <1>6, <2>3, <2>5
  <2> QED  BY <1>0, <1>5, <2>3, <2>5, <2>7, <2>8, <2>9, <2>10
<1>10. CASE ReloadRow(j)
  <2> DEFINE n == [job[j] EXCEPT !.pc = "saving", !.copy = row[j[1]]]
  <2>1. row[j[1]] \in Row
    BY JobNames, TorrentParts DEF PipelineInv
  <2>2. n \in JobType /\ n.pc = "saving" /\ n.post = job[j].post
    BY <1>1, <2>1 DEF JobType, JobSteps
  <2>3. /\ job[j].pc = "finished" /\ UNCHANGED <<row, runState, jobs, executed, pipeOthers>>
        /\ \/ job' = [job EXCEPT ![j] = n] /\ inFlight' = inFlight
           \/ job' = [job EXCEPT ![j] = NoJob] /\ inFlight' = inFlight \ {j}
    BY <1>10 DEF ReloadRow
  <2> HIDE DEF n
  <2>4. /\ job' \in [Jobs -> JobType] /\ \A i \in Jobs \ {j} : job'[i] = job[i]
        /\ \/ job'[j] = n /\ inFlight' = inFlight
           \/ job'[j] = NoJob /\ inFlight' = inFlight \ {j}
    BY <1>4, <2>2, <2>3, NoJobType
  <2>5. NoJob.post # "pipeline_interrupted"
    BY DEF NoJob
  <2>6. OneRun(j)'
    BY <1>1, <2>2, <2>3, <2>4, <2>5, NoJobType DEF OneRun, PipelineEnded
  <2>7. QueuedOnce'
    BY <1>6, <2>3, <2>4
  <2> QED  BY <1>0, <1>5, <2>3, <2>4, <2>6, <2>7
<1>11. CASE SaveOutcome(j)
  <2>1. /\ job[j].pc = "saving" /\ UNCHANGED <<runState, jobs, executed, pipeOthers>>
        /\ job' = [job EXCEPT ![j] = NoJob] /\ inFlight' = inFlight \ {j}
    BY <1>11 DEF SaveOutcome
  <2>2. job' \in [Jobs -> JobType] /\ job'[j] = NoJob /\ \A i \in Jobs \ {j} : job'[i] = job[i]
    BY <1>4, <2>1, NoJobType
  <2>3. NoJob.post # "pipeline_interrupted"
    BY DEF NoJob
  <2>4. OneRun(j)'
    BY <1>1, <2>1, <2>2, <2>3, NoJobType DEF OneRun, PipelineEnded
  <2>5. QueuedOnce'
    BY <1>6, <2>1, <2>2
  <2> QED  BY <1>0, <1>5, <2>1, <2>2, <2>4, <2>5
<1> QED  BY <1>7, <1>8, <1>9, <1>10, <1>11 DEF PipelineStep

\* What the end of a run does to its row.
LEMMA RunRow ==
  ASSUME PipelineInv, NEW d \in Rows, NEW j \in {Completion(d), Removal(d)}, PipelineStep(j)
  PROVE  /\ row' \in [Rows -> Row] /\ \A e \in Rows \ {d} : row'[e] = row[e]
         /\ \/ row'[d] = row[d]
            \/ /\ job[j].pc = "saving" /\ row'[d].status = job[j].copy.status
               /\ row'[d].post # "pipeline_interrupted"
               /\ j = Removal(d) => Handled(row'[d])
         /\ job'[j].pc = "saving" =>
              /\ job[j].pc = "finished" /\ row[d].status = "completed" /\ row' = row
              /\ job'[j].copy = row[d]
<1>1. j \in Jobs /\ j[1] = d /\ row \in [Rows -> Row] /\ job \in [Jobs -> JobType]
  <2>1. j \in Jobs /\ j[1] = d
    BY JobNames
  <2>2. TorrentTypeOK
    BY DEF PipelineInv
  <2> QED  BY <2>1, <2>2, TorrentParts
<1>2. CASE SendJob(j) \/ TakeJob(j) \/ RunSteps(j) \/ ReloadRow(j)
  <2>1. row' = row
    BY <1>2 DEF SendJob, TakeJob, RunSteps, ReloadRow, storeVars
  <2>2. ASSUME job'[j].pc = "saving"
        PROVE  job[j].pc = "finished" /\ row[d].status = "completed" /\ job'[j].copy = row[d]
    <3> DEFINE n == [job[j] EXCEPT !.pc = "saving", !.copy = row[j[1]]]
    <3>0. job[j] \in JobType
      BY <1>1
    <3>1. ~SendJob(j)
      BY <1>1, <2>2, <3>0 DEF SendJob, JobType
    <3>2. ~TakeJob(j)
      BY <1>1, <2>2, <3>0 DEF TakeJob, JobType
    <3>3. ~RunSteps(j)
      <4>1. SUFFICES ASSUME RunSteps(j)  PROVE job'[j].pc = "finished"
        BY <2>2
      <4>2. PICK ok \in BOOLEAN :
              job' = [job EXCEPT ![j].pc = "finished", ![j].failed = ~ok,
                                 ![j].post = IF ok THEN "pipeline_completed" ELSE "pipeline_failed"]
        BY <4>1 DEF RunSteps
      <4> DEFINE m == [job[j] EXCEPT !.pc = "finished", !.failed = ~ok,
                                     !.post = IF ok THEN "pipeline_completed" ELSE "pipeline_failed"]
      <4>3. m.pc = "finished"
        BY <3>0 DEF JobType
      <4>4. job' = [job EXCEPT ![j] = m]
        BY <4>2
      <4> HIDE DEF m
      <4> QED  BY <1>1, <4>3, <4>4
    <3>4. /\ job[j].pc = "finished"
          /\ \/ row[d].status = "completed" /\ job' = [job EXCEPT ![j] = n]
             \/ job' = [job EXCEPT ![j] = NoJob]
      BY <1>1, <1>2, <3>1, <3>2, <3>3 DEF ReloadRow
    <3>5. n.copy = row[d]
      BY <1>1, <3>0 DEF JobType
    <3> HIDE DEF n
    <3>6. NoJob.pc # "saving"
      BY NoJobType
    <3> QED  BY <1>1, <2>2, <3>4, <3>5, <3>6
  <2> QED  BY <1>1, <2>1, <2>2
<1>3. CASE SaveOutcome(j)
  <2> DEFINE p == IF j[2] = "completed" THEN job[j].post
                  ELSE IF job[j].failed THEN "removed_pipeline_failed" ELSE "completed_removed"
             r == [job[j].copy EXCEPT !.post = p]
  <2>1. job[j] \in JobType /\ job[j].copy \in Row /\ job[j].post \in Posts
        /\ job[j].post # "pipeline_interrupted"
    <3>1. job[j] \in JobType /\ job[j].post # "pipeline_interrupted"
      BY <1>1 DEF PipelineInv, OneRun
    <3> QED  BY <3>1 DEF JobType
  <2>2. p \in Posts /\ p # "pipeline_interrupted"
    BY <2>1 DEF Posts
  <2>3. j = Removal(d) => p \in {"removed_pipeline_failed", "completed_removed"}
    BY JobNames
  <2> HIDE DEF p
  <2>4. r \in Row /\ r.post = p /\ r.status = job[j].copy.status
    BY <2>1, <2>2, RowFields
  <2>5. j = Removal(d) => Handled(r)
    BY <2>3, <2>4 DEF Handled
  <2>6. SaveDownload(d, r) /\ job[j].pc = "saving" /\ job' = [job EXCEPT ![j] = NoJob]
    BY <1>1, <1>3 DEF SaveOutcome, p
  <2> HIDE DEF r
  <2>7. /\ row' \in [Rows -> Row] /\ \A e \in Rows \ {d} : row'[e] = row[e]
        /\ row'[d] = row[d] \/ row'[d] = r
    BY <1>1, <2>4, <2>6, SavedRows
  <2>8. job'[j].pc # "saving"
    BY <1>1, <2>6, NoJobType
  <2> QED  BY <2>2, <2>4, <2>5, <2>6, <2>7, <2>8
<1> QED  BY <1>2, <1>3 DEF PipelineStep

LEMMA PipelineKeeps ==
  ASSUME PipelineInv, NEW j \in Jobs, PipelineStep(j)
  PROVE  PipelineInv'
<1>1. PICK d \in Rows : j \in {Completion(d), Removal(d)}
  BY JobNames
<1>2. /\ inFlight' \subseteq Jobs /\ jobs' \in Seq(Jobs) /\ Len(jobs') <= Capacity
      /\ job' \in [Jobs -> JobType] /\ executed' \in [Jobs -> Nat]
      /\ runState' \in [Jobs -> {"", "running", "completed", "failed"}]
      /\ \A i \in Jobs \ {j} : job'[i] = job[i] /\ executed'[i] = executed[i] /\ runState'[i] = runState[i]
      /\ job[j].pc # "none"
      /\ QueuedOnce' /\ \A i \in Jobs : OneRun(i)'
  BY RunStep
<1>3. UNCHANGED <<live, snap, progress, poll, request, retried, kills>>
  BY RunStep DEF pipeOthers
<1>4. /\ row' \in [Rows -> Row] /\ \A e \in Rows \ {d} : row'[e] = row[e]
      /\ \/ row'[d] = row[d]
         \/ /\ job[j].pc = "saving" /\ row'[d].status = job[j].copy.status
            /\ row'[d].post # "pipeline_interrupted"
            /\ j = Removal(d) => Handled(row'[d])
      /\ job'[j].pc = "saving" =>
           /\ job[j].pc = "finished" /\ row[d].status = "completed" /\ row' = row
           /\ job'[j].copy = row[d]
  BY <1>1, RunRow
<1>5. TorrentTypeOK'
  <2>1. TorrentTypeOK
    BY DEF PipelineInv
  <2>2. job' \in [Jobs -> [pc : JobSteps, post : Posts, failed : BOOLEAN, copy : Row]]
    BY <1>2 DEF JobType
  <2> QED  BY <1>2, <1>3, <1>4, <2>1, <2>2 DEF TorrentTypeOK
<1>6. PollAt'
  BY <1>3 DEF PipelineInv, PollAt
<1>7. ASSUME NEW e \in Rows \ {d}  PROVE RowInv(e)'
  <2>1. \A i \in {Completion(e), Removal(e)} : i \in Jobs \ {j}
    BY <1>1, JobNames
  <2>2. Unseen(e) => Unseen(e)'
    BY <1>3 DEF Unseen
  <2>3. Apart(e)
    BY <1>2, <1>3, <1>4, <2>1, <2>2 DEF Apart
  <2> QED  BY <2>3, RowRests DEF PipelineInv
<1>8. RowInv(d)'
  <2>1. RowInv(d)
    BY DEF PipelineInv
  <2>2. /\ Completion(d) \in Jobs /\ Removal(d) \in Jobs /\ Completion(d) # Removal(d)
    BY JobNames
  <2>3. \/ row'[d] = row[d]
        \/ row'[d].status = "completed" /\ request[d] \in {"done", "removing"} /\ row'[d].post # "pipeline_interrupted"
    BY <1>1, <1>4, <2>1 DEF RowInv, Entered
  <2>4. job'[j].pc = "saving" => job'[j].copy.status = "completed" /\ request[d] \in {"done", "removing"}
    BY <1>4, <2>1 DEF RowInv, Entered
  <2>5. Entered(d)'
    <3>1. row'[d].status # "none" => request'[d] \in {"done", "removing"}
      BY <1>3, <2>1, <2>3 DEF RowInv, Entered
    <3>2. \A i \in {Completion(d), Removal(d)} : job'[i].pc = "saving" =>
            job'[i].copy.status = "completed" /\ request'[d] \in {"done", "removing"}
      BY <1>2, <1>3, <2>1, <2>2, <2>4 DEF RowInv, Entered
    <3> QED  BY <3>1, <3>2 DEF Entered
  <2>6. Listed(d)'
    BY <1>3, <2>1, <2>3 DEF RowInv, Listed, ListedOnce
  <2>7. (SaysInterrupted(d))' => SaysInterrupted(d)
    BY <1>3, <2>3 DEF SaysInterrupted
  <2>8. CASE j = Completion(d)
    <3>1. ~SaysInterrupted(d) /\ ~Started(d)
      BY <1>2, <2>1, <2>8 DEF RowInv, CutShort, RemovedOnce, Gone
    <3>2. poll.d = d => poll.pc # "cleanup"
      BY <1>2, <2>1, <2>8 DEF RowInv, InHand
    <3>3. InHand(d)'
      BY <1>3, <2>1, <2>3, <3>2 DEF RowInv, InHand, ListedOnce
    <3>4. CutShort(d)'
      BY <2>7, <3>1 DEF CutShort
    <3>5. RemovedOnce(d)'
      BY <1>2, <2>2, <2>8, <3>1 DEF RemovedOnce, Started
    <3> QED  BY <2>5, <2>6, <3>3, <3>4, <3>5 DEF RowInv
  <2>9. CASE j = Removal(d)
    <3>1. job'[Completion(d)] = job[Completion(d)] /\ runState'[Completion(d)] = runState[Completion(d)]
      BY <1>2, <2>2, <2>9
    <3>2. InHand(d)'
      BY <1>3, <2>1, <2>3, <3>1 DEF RowInv, InHand, ListedOnce, PipelineEnded
    <3>3. CutShort(d)'
      BY <2>1, <2>7, <3>1 DEF RowInv, CutShort
    <3>4. Gone(d)
      BY <1>2, <2>1, <2>9 DEF RowInv, RemovedOnce, Started
    <3>5. (Unseen(d) => Unseen(d)') /\ (Settled(d) => Settled(d)')
      BY <1>3, <1>4, <2>9 DEF Unseen, Settled, Handled
    <3>6. Gone(d)'
      BY <1>3, <3>1, <3>4, <3>5 DEF Gone
    <3> QED  BY <2>5, <2>6, <3>2, <3>3, <3>6 DEF RowInv, RemovedOnce
  <2> QED  BY <1>1, <2>8, <2>9
<1> QED  BY <1>2, <1>5, <1>6, <1>7, <1>8 DEF PipelineInv

-----------------------------------------------------------------------------
(* The whole.                                                              *)

LEMMA RestartKeeps ==
  ASSUME PipelineInv, Restart
  PROVE  PipelineInv'
<1>1. /\ kills < MaxCrashes /\ kills' = kills + 1 /\ snap' = Unknown /\ progress' = Unknown
      /\ poll' = IdlePoll /\ inFlight' = {} /\ jobs' = <<>> /\ job' = [j \in Jobs |-> NoJob]
      /\ request' = [d \in Rows |-> IF request[d] = "none" THEN "none" ELSE "done"]
      /\ UNCHANGED <<row, runState, live, executed, retried>>
  BY DEF Restart, storeVars
<1>2. /\ poll' \in PollType /\ poll'.left = {} /\ poll'.d = Unknown /\ poll'.pc = "idle"
      /\ \A e \in Rows : poll'.list[e].post = ""
  BY <1>1, IdlePollType DEF IdlePoll, NoRow
<1>3. /\ TorrentTypeOK /\ kills \in 0 .. MaxCrashes
      /\ request \in [Rows -> {"none", "added", "done", "removing"}]
  BY TorrentParts DEF PipelineInv
<1>4. \A j \in Jobs : job'[j] = NoJob /\ NoJob \in JobType /\ NoJob.pc = "none" /\ NoJob.post = ""
  BY <1>1, NoJobType DEF NoJob
<1>5. TorrentTypeOK'
  <2>1. poll' \in [pc : PollSteps, list : [Rows -> Row], left : SUBSET Rows,
                   d : Rows \cup {Unknown}, cur : Row, torrents : [Rows -> TorrentStates]]
    BY <1>2 DEF PollType
  <2>2. job' \in [Jobs -> [pc : JobSteps, post : Posts, failed : BOOLEAN, copy : Row]]
    BY <1>1, NoJobType DEF JobType
  <2>3. jobs' \in Seq(Jobs) /\ Len(jobs') <= Capacity
    BY <1>1, EmptySeq, TorrentAssumption
  <2>4. kills' \in 0 .. MaxCrashes
    BY <1>1, <1>3, TorrentAssumption
  <2>5. request' \in [Rows -> {"none", "added", "done", "removing"}]
    BY <1>1
  <2> QED  BY <1>1, <1>3, <2>1, <2>2, <2>3, <2>4, <2>5 DEF TorrentTypeOK
<1>6. PollAt'
  BY <1>2 DEF PollAt, RowSteps
<1>7. QueuedOnce'
  BY <1>1, EmptySeq DEF QueuedOnce, NoDuplicates, ToSet
<1>8. ASSUME NEW j \in Jobs  PROVE OneRun(j)'
  <2>1. OneRun(j)
    BY DEF PipelineInv
  <2> QED  BY <1>1, <1>4, <2>1 DEF OneRun, PipelineEnded
<1>9. ASSUME NEW e \in Rows  PROVE RowInv(e)'
  <2>1. RowInv(e) /\ Completion(e) \in Jobs /\ Removal(e) \in Jobs
    BY JobNames DEF PipelineInv
  <2>2. job'[Completion(e)].pc = "none" /\ job'[Removal(e)].pc = "none"
    BY <1>4, <2>1
  <2>3. request[e] \in {"done", "removing"} => request'[e] = "done"
    BY <1>1
  <2>4. poll'.d # e
    BY <1>2, TorrentAssumption
  <2>5. Entered(e)'
    BY <1>1, <2>1, <2>2, <2>3 DEF RowInv, Entered
  <2>6. Listed(e)' /\ InHand(e)'
    BY <1>2, <2>4 DEF Listed, InHand
  <2>7. CutShort(e)'
    <3>1. SaysInterrupted(e)' => SaysInterrupted(e)
      BY <1>1, <1>2, <2>4 DEF SaysInterrupted
    <3> QED  BY <1>1, <2>1, <2>2, <3>1 DEF RowInv, CutShort
  <2>8. Unseen(e)'
    BY <1>1, <1>2 DEF Unseen
  <2>9. RemovedOnce(e)'
    BY <1>1, <2>1, <2>2, <2>3, <2>4, <2>8 DEF RowInv, RemovedOnce, Started, Gone
  <2> QED  BY <2>5, <2>6, <2>7, <2>9 DEF RowInv
<1> QED  BY <1>5, <1>6, <1>7, <1>8, <1>9 DEF PipelineInv

LEMMA PipelineStart ==
  ASSUME TorrentInit
  PROVE  PipelineInv
<1>1. NoRow \in Row /\ NoJob \in JobType /\ IdlePoll \in PollType /\ IdlePoll.pc = "idle"
      /\ IdlePoll.left = {} /\ IdlePoll.d = Unknown
  BY RowFields, NoJobType, IdlePollType
<1>2. TorrentTypeOK
  <2>1. row \in [Rows -> Row] /\ live \in [Rows -> TorrentStates] /\ poll \in PollType
    BY <1>1 DEF TorrentInit, TorrentStates
  <2>2. inFlight \subseteq Jobs /\ snap = Unknown /\ progress = Unknown
    BY DEF TorrentInit
  <2>0. jobs = <<>>
    BY DEF TorrentInit
  <2>3. jobs \in Seq(Jobs) /\ Len(jobs) <= Capacity
    BY <2>0, EmptySeq, TorrentAssumption
  <2>4. job \in [Jobs -> JobType] /\ runState \in [Jobs -> {"", "running", "completed", "failed"}]
    BY <1>1 DEF TorrentInit
  <2>5. /\ request \in [Rows -> {"none", "added", "done", "removing"}]
        /\ executed \in [Jobs -> Nat] /\ retried \in [Rows -> 0..MaxRetries] /\ kills \in 0..MaxCrashes
    <3>1. 0 \in Nat /\ 0 \in 0..MaxRetries /\ 0 \in 0..MaxCrashes
      BY TorrentAssumption
    <3>2. request = [d \in Rows |-> "none"] /\ executed = [j \in Jobs |-> 0]
          /\ retried = [d \in Rows |-> 0] /\ kills = 0
      BY DEF TorrentInit
    <3> QED  BY <3>1, <3>2
  <2> QED  BY <2>1, <2>2, <2>3, <2>4, <2>5, TorrentParts
<1>3. PollAt
  BY <1>1 DEF TorrentInit, PollAt, RowSteps
<1>4. QueuedOnce
  <2>1. jobs = <<>>
    BY DEF TorrentInit
  <2> QED  BY <2>1, EmptySeq DEF QueuedOnce, NoDuplicates, ToSet
<1>5. \A j \in Jobs : /\ job[j] = NoJob /\ executed[j] = 0 /\ runState[j] = "" /\ j \notin inFlight
                      /\ NoJob.pc = "none" /\ NoJob.post = ""
  BY NoJobType DEF TorrentInit, NoJob
<1>6. ASSUME NEW j \in Jobs  PROVE OneRun(j)
  <2>1. /\ job[j].pc = "none" /\ job[j].post = "" /\ runState[j] = "" /\ executed[j] = 0
        /\ j \notin inFlight
    BY <1>5
  <2>2. 0 <= 1 /\ 0 # 1
    OBVIOUS
  <2> QED  BY <2>1, <2>2 DEF OneRun, PipelineEnded
<1>7. ASSUME NEW e \in Rows  PROVE RowInv(e)
  <2>1. /\ row[e] = NoRow /\ poll.list[e] = NoRow /\ NoRow.status = "none" /\ NoRow.post = ""
        /\ poll.left = {} /\ poll.d # e
    BY <1>1, TorrentAssumption DEF TorrentInit, IdlePoll, NoRow
  <2>a. Completion(e) \in Jobs /\ Removal(e) \in Jobs
    BY JobNames
  <2>2. /\ job[Completion(e)].pc = "none" /\ job[Removal(e)].pc = "none" /\ executed[Removal(e)] = 0
    BY <1>5, <2>a
  <2>3. ~Started(e)
    BY <2>2 DEF Started
  <2> QED  BY <2>1, <2>2, <2>3 DEF RowInv, Entered, Listed, InHand, CutShort, SaysInterrupted, RemovedOnce
<1> QED  BY <1>2, <1>3, <1>4, <1>6, <1>7 DEF PipelineInv

LEMMA PollKeeps ==
  ASSUME PipelineInv, PollStep
  PROVE  PipelineInv'
<1>1. CASE Listing
  BY <1>1, ListingKeeps
<1>2. ASSUME NEW d \in Rows, PollDownload(d)  PROVE PipelineInv'
  BY <1>2, VisitKeeps
<1>3. CASE PollSave \/ Completed \/ CleanupTorrent \/ PlainWork
  <2>1. poll.pc \in RowSteps
    BY <1>3 DEF PlainWork, PollSave, Completed, CleanupTorrent, FallbackSearch, FallbackRecheck, FallbackReplace,
         FallbackDelete, VideoCheck, RetryDelete, RetryAdd, RetrySave, At, RowSteps, PollSteps
  <2>2. PICK d \in Rows : poll.d = d
    BY <2>1 DEF PipelineInv, PollAt
  <2> QED  BY <1>3, <2>2, SaveKeeps, CompleteKeeps, CleanupKeeps, PlainWorkKeeps
<1> QED  BY <1>1, <1>2, <1>3 DEF PollStep, Listing, PlainWork

LEMMA PipelineNext ==
  ASSUME PipelineInv, [TorrentNext]_torrentVars
  PROVE  PipelineInv'
<1>1. CASE UNCHANGED torrentVars
  <2>1. /\ UNCHANGED <<row, runState, live, snap, progress, poll, inFlight, jobs, job, executed,
                       request, retried, kills>>
    BY <1>1 DEF torrentVars, storeVars, pipeVars
  <2>2. TorrentTypeOK' /\ PollAt' /\ QueuedOnce' /\ \A j \in Jobs : OneRun(j)'
    BY <2>1 DEF PipelineInv, TorrentTypeOK, PollAt, QueuedOnce, OneRun, PipelineEnded
  <2>3. \A e \in Rows : Apart(e)
    BY <2>1 DEF Apart, Unseen
  <2> QED  BY <2>2, <2>3, RowRests DEF PipelineInv
<1>2. ASSUME NEW d \in Rows, RequestStep(d) \/ QBittorrent(d)  PROVE PipelineInv'
  BY <1>2, RequestKeeps
<1>3. CASE ProgressFetch \/ ProgressRemember
  BY <1>3, ProgressKeeps
<1>4. CASE PollStep
  BY <1>4, PollKeeps
<1>5. ASSUME NEW j \in Jobs, PipelineStep(j)  PROVE PipelineInv'
  BY <1>5, PipelineKeeps
<1>6. CASE Restart
  BY <1>6, RestartKeeps
<1> QED  BY <1>1, <1>2, <1>3, <1>4, <1>5, <1>6 DEF TorrentNext

\* In no reachable state has a pipeline run its steps twice for one download
\* and one trigger (runEventPipelineAsync, isPipelineInFlight).
THEOREM PipelinesRunOnce == TorrentSpec => []PipelineRunsOnce
<1>1. TorrentInit => PipelineInv
  BY PipelineStart
<1>2. PipelineInv /\ [TorrentNext]_torrentVars => PipelineInv'
  BY PipelineNext
<1>3. PipelineInv => PipelineRunsOnce
  BY DEF PipelineInv, OneRun, PipelineRunsOnce
<1> QED  BY <1>1, <1>2, <1>3, PTL DEF TorrentSpec

\* The poll removes a seeding torrent only when the pipeline of its
\* completion has run to its end, and was not interrupted (cleanupTorrent).
LEMMA CleanupIsLast ==
  ASSUME PipelineInv, NEW d \in Rows, CleanupTorrent, poll.d = d
  PROVE  executed[<<d, "completed">>] = 1 /\ row[d].post # "pipeline_interrupted"
<1>1. RowInv(d) /\ poll.pc = "cleanup" /\ Completion(d) \in Jobs
  BY JobNames DEF PipelineInv, CleanupTorrent, At
<1>2. PipelineEnded(Completion(d)) /\ OneRun(Completion(d))
  BY <1>1 DEF PipelineInv, RowInv, InHand
<1>3. executed[Completion(d)] = 1 /\ runState[Completion(d)] # "running"
  BY <1>2 DEF OneRun, PipelineEnded
<1>4. row[d].post # "pipeline_interrupted"
  BY <1>1, <1>3 DEF RowInv, CutShort, SaysInterrupted
<1> QED  BY <1>3, <1>4 DEF Completion

(* The poll deletes a torrent only after its pipeline has run to its end   *)
(* (pollDownload, cleanupTorrent).                                         *)
THEOREM CleanupComesLast == TorrentSpec => CleanupAfterPipeline
<1>1. TorrentInit => PipelineInv
  BY PipelineStart
<1>2. PipelineInv /\ [TorrentNext]_torrentVars => PipelineInv'
  BY PipelineNext
<1>3. PipelineInv => [\A d \in Rows :
        CleanupTorrent /\ poll.d = d /\ live[d] = "seeding" /\ live'[d] = "absent"
          => executed[<<d, "completed">>] = 1 /\ row[d].post # "pipeline_interrupted"]_torrentVars
  BY CleanupIsLast
<1> QED  BY <1>1, <1>2, <1>3, PTL DEF TorrentSpec, CleanupAfterPipeline
=============================================================================
