--------------------------- MODULE DiscoveryIndex ---------------------------
(***************************************************************************)
(* The recommendation index of Discoveries, internal/web/discovery_jobs.go:*)
(* a job reads the releases changed since the cursor of the last job - or  *)
(* all of them - page by page, refreshes what is known of their subtitles, *)
(* scores them and moves the cursor to the time it was started at.         *)
(*                                                                         *)
(* Releases go on being written while it does.  A write stamps its row     *)
(* before it commits.  The clock ticks with what reads it, so no two stamps*)
(* are equal.  A score stands for the version of the row it is of.         *)
(***************************************************************************)
EXTENDS Integers, FiniteSets

CONSTANTS
  Catalog,   \* releases
  PageRows,  \* the rows of a page
  MaxClock   \* bound: the stamps of releases and jobs

ASSUME DiscoveryAssumption ==
  IsFiniteSet(Catalog) /\ PageRows \in Nat \ {0} /\ MaxClock \in Nat

VARIABLES
  clock,
  updatedAt,   \* updated_at of every release
  write,       \* a write of a release that is stamped and has not committed
  overtaken,   \* history: releases whose last write was stamped before a job
               \* started, and committed after it had
  scored,      \* discovery_scores: the version that was scored, 0 for none
  indexCursor, \* discoveries_incremental_cursor_at
  subtitles,   \* discoverySubtitleCache: the releases checked
  job,         \* discoveryJobs and the goroutine
  lookup       \* a cachedSubtitleAvailability that looks at the disk

discoveryVars == <<clock, updatedAt, write, overtaken, scored, indexCursor, subtitles, job, lookup>>

NotWriting == [of |-> {}, at |-> 0]
NotLooking == [on |-> FALSE, checked |-> {}]
Unknown == [known |-> FALSE, checked |-> {}]
NoJob == [pc |-> "off", mode |-> "", started |-> 0, full |-> FALSE, since |-> 0, offset |-> 0,
          read |-> [r \in Catalog |-> 0], index |-> Unknown, ends |-> {}]

\* An earlier version has left a cursor and no scores.
DiscoveryInit ==
  /\ clock = Cardinality(Catalog) /\ write = NotWriting /\ overtaken = {}
  /\ updatedAt = CHOOSE f \in [Catalog -> 1..clock] : \A r, s \in Catalog : f[r] = f[s] => r = s
  /\ scored = [r \in Catalog |-> 0] /\ indexCursor \in {0, clock}
  /\ subtitles = Unknown /\ job = NoJob /\ lookup = NotLooking

Tick == clock < MaxClock /\ clock' = clock + 1
Releasing == UNCHANGED <<updatedAt, write, overtaken>>

-----------------------------------------------------------------------------
(* Releases are written: by scans, synchronisations and edits.             *)

Stamp(r) ==
  /\ write = NotWriting /\ Tick /\ write' = [of |-> {r}, at |-> clock + 1]
  /\ UNCHANGED <<updatedAt, overtaken, scored, indexCursor, subtitles, job, lookup>>

Commit ==
  /\ write.of # {} /\ write' = NotWriting
  /\ updatedAt' = [r \in Catalog |-> IF r \in write.of THEN write.at ELSE updatedAt[r]]
  /\ overtaken' = IF job.started > write.at THEN overtaken \cup write.of ELSE overtaken \ write.of
  /\ UNCHANGED <<clock, scored, indexCursor, subtitles, job, lookup>>

-----------------------------------------------------------------------------
(* The job.                                                                *)

\* A request or the schedule starts one if none runs.
StartJob(mode) ==
  /\ job.pc \in {"off", "saving"} /\ Tick
  /\ job' = [NoJob EXCEPT !.pc = "begin", !.mode = mode, !.started = clock + 1,
                          !.ends = job.ends \cup (IF job.pc = "saving" THEN {[job EXCEPT !.ends = {}]} ELSE {})]
  /\ Releasing /\ UNCHANGED <<scored, indexCursor, subtitles, lookup>>

\* All releases when asked to, when there is no cursor and when there is no
\* score.
BeginJob ==
  /\ job.pc = "begin"
  /\ job' = [job EXCEPT !.pc = "pages", !.since = indexCursor,
               !.full = job.mode # "scheduled" \/ indexCursor = 0 \/ \A r \in Catalog : scored[r] = 0]
  /\ Releasing /\ UNCHANGED <<clock, scored, indexCursor, subtitles, lookup>>

Listed == {r \in Catalog : job.full \/ updatedAt[r] > job.since}

\* The place of a row in the list by updated_at, the last first.
PlaceInList(r) == Cardinality({s \in Listed : updatedAt[s] > updatedAt[r]})

\* A row that is written while the job reads moves to the first page: rows are
\* then read twice, and this one is not read if it had yet to be.
ReadPage ==
  LET page == {r \in Listed : PlaceInList(r) \in job.offset..(job.offset + PageRows - 1)} IN
  /\ job.pc = "pages"
  /\ job' = [job EXCEPT !.read = [r \in Catalog |-> IF r \in page THEN updatedAt[r] ELSE @[r]],
                        !.offset = @ + PageRows,
                        !.pc = IF Cardinality(page) < PageRows THEN "clone" ELSE @]
  /\ Releasing /\ UNCHANGED <<clock, scored, indexCursor, subtitles, lookup>>

ReadIds == {r \in Catalog : job.read[r] > 0}

\* The index is cloned and written back when the files have been looked at.
CloneIndex ==
  /\ job.pc = "clone" /\ job' = [job EXCEPT !.pc = "subtitles", !.index = subtitles]
  /\ Releasing /\ UNCHANGED <<clock, scored, indexCursor, subtitles, lookup>>

WriteIndex ==
  /\ job.pc = "subtitles"
  /\ subtitles' = IF job.full THEN [known |-> TRUE, checked |-> ReadIds]
                  ELSE IF job.index.known /\ ReadIds # {} THEN [job.index EXCEPT !.checked = @ \cup ReadIds]
                  ELSE subtitles
  /\ job' = [job EXCEPT !.index = Unknown, !.pc = IF ReadIds = {} THEN "finish" ELSE "score"]
  /\ Releasing /\ UNCHANGED <<clock, scored, indexCursor, lookup>>

\* SaveDiscoveryScores saves all scores or none; a release read twice has that
\* of its later copy.
SaveScores ==
  /\ job.pc = "score" /\ job' = [job EXCEPT !.pc = "finish"]
  /\ scored' = [r \in Catalog |-> IF r \in ReadIds THEN job.read[r] ELSE scored[r]]
  /\ Releasing /\ UNCHANGED <<clock, indexCursor, subtitles, lookup>>

\* The status says first that the job has ended: another may start before the
\* cursor is saved.
FinishJob ==
  /\ job.pc = "finish" /\ Tick
  /\ job' = [job EXCEPT !.pc = "saving", !.read = NoJob.read, !.offset = clock + 1]
  /\ Releasing /\ UNCHANGED <<scored, indexCursor, subtitles, lookup>>

\* Reading a page, the profile or saving the scores may fail.
JobFails ==
  /\ job.pc \in {"pages", "score"} /\ job' = [NoJob EXCEPT !.started = job.started, !.ends = job.ends]
  /\ Releasing /\ UNCHANGED <<clock, scored, indexCursor, subtitles, lookup>>

\* Mutant. The cursor is the time the job ended at.
CursorAtEnd(j) == j.offset

\* The cursor is the time the job was started at.
CursorOf(j) == j.started

\* The settings are saved or not; a job for the subtitles saves no cursor.
SaveCursor ==
  \E j \in job.ends \cup (IF job.pc = "saving" THEN {job} ELSE {}) :
    /\ job' = IF j = job THEN [NoJob EXCEPT !.started = job.started, !.ends = job.ends]
              ELSE [job EXCEPT !.ends = @ \ {j}]
    /\ indexCursor' \in {indexCursor} \cup (IF j.mode = "subtitle-manual" THEN {} ELSE {CursorOf(j)})
    /\ Releasing /\ UNCHANGED <<clock, scored, subtitles, lookup>>

\* A crash: the job and the index of subtitles are gone.
DiscoveryRestart ==
  /\ job.pc # "off" /\ job' = [NoJob EXCEPT !.started = job.started]
  /\ subtitles' = Unknown /\ write' = NotWriting /\ lookup' = NotLooking
  /\ UNCHANGED <<clock, updatedAt, overtaken, scored, indexCursor>>

-----------------------------------------------------------------------------
(* A page of Discoveries that filters by subtitles looks at the files of   *)
(* releases the index does not know, and writes its clone back.            *)

LookAtFiles ==
  /\ ~lookup.on /\ \E fresh \in BOOLEAN :
       lookup' = [on |-> TRUE, checked |-> IF subtitles.known /\ fresh THEN subtitles.checked ELSE {}]
  /\ Releasing /\ UNCHANGED <<clock, scored, indexCursor, subtitles, job>>

WriteLookup ==
  /\ lookup.on /\ lookup' = NotLooking
  /\ \E S \in SUBSET Catalog \ {{}} : subtitles' = [known |-> TRUE, checked |-> lookup.checked \cup S]
  /\ Releasing /\ UNCHANGED <<clock, scored, indexCursor, job>>

DiscoveryNext ==
  \/ \E r \in Catalog : Stamp(r)
  \/ Commit
  \/ \E mode \in {"manual", "scheduled", "subtitle-manual"} : StartJob(mode)
  \/ BeginJob \/ ReadPage \/ CloneIndex \/ WriteIndex \/ SaveScores \/ FinishJob \/ JobFails
  \/ SaveCursor \/ DiscoveryRestart
  \/ LookAtFiles \/ WriteLookup

DiscoverySpec == DiscoveryInit /\ [][DiscoveryNext]_discoveryVars

-----------------------------------------------------------------------------
(* Properties.                                                             *)

\* Once there are scores, every release has the score of its present version,
\* or was written after the cursor, so that the next job reads it: whatever is
\* written while a job reads pages, fails, is cut off or saves its cursor late.
\* Only a write stamped before a job started and committed behind its back is
\* left out; the code has no defence against that one.
ScoresCurrent ==
  (\E r \in Catalog : scored[r] > 0) =>
    \A r \in Catalog \ overtaken : scored[r] = updatedAt[r] \/ updatedAt[r] > indexCursor
=============================================================================
