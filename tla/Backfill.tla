------------------------------ MODULE Backfill ------------------------------
(***************************************************************************)
(* internal/backfill/service.go: the historical backfill of JavLibrary,    *)
(* with the statements of store/store.go it saves its progress with and    *)
(* the listing page it reads through scraper/javlibrary.go.                *)
(*                                                                         *)
(* Atomicity.  One action is one access to the store, one critical section *)
(* of s.mu, or the reading of one listing page with its detail pages.      *)
(* Every access but the last one of a run is made with the run's context   *)
(* and fails once that is cancelled.  Only the run writes the tables of    *)
(* the backfill, so the copy of a source it works with is the stored row.  *)
(*                                                                         *)
(* Data.  A date is a number, 0 the empty string.  Counters, names and     *)
(* priorities are left out.                                                *)
(***************************************************************************)
EXTENDS Naturals, FiniteSets

CONSTANTS
  Sources,    \* indexes of the site, numbered in the order of the store's list
  Releases,   \* numbered in the order in which equal dates are listed
  ListedIn,   \* [Sources -> SUBSET Releases]
  Date,       \* [Releases -> 1..]: the release dates
  Excluded,   \* the releases of the GIGA studio
  AtFirst,    \* the releases the site lists in the beginning
  Scanned,    \* the releases a scan of a monitored site may add
  PageSize,   \* entries of a listing page
  MayFail,    \* whether a page, a detail page or the store may fail
  MaxStarts,  \* bound: calls of Start
  MaxCrashes  \* bound: restarts of the process

ASSUME BackfillAssumption ==
  /\ Sources \subseteq Nat \ {0} /\ IsFiniteSet(Sources)
  /\ Releases \subseteq Nat /\ IsFiniteSet(Releases)
  /\ ListedIn \in [Sources -> SUBSET Releases]
  /\ Date \in [Releases -> Nat \ {0}]
  /\ {Excluded, AtFirst, Scanned} \subseteq SUBSET Releases
  /\ PageSize \in Nat \ {0} /\ MayFail \in BOOLEAN
  /\ MaxStarts \in Nat /\ MaxCrashes \in Nat

VARIABLES
  published,  \* the releases the site lists
  library,    \* the releases of table releases ...
  dated,      \* ... and those of them with a date
  items,      \* items[r]: row of historical_backfill_items
  rows,       \* rows[s]: row of historical_backfill_sources
  jobState,   \* historical_backfill_state
  unsaved,    \* history: whether jobState could not be saved when it changed
  read,       \* history: read[s]: releases on the pages of s saved as read
  status,     \* s.status: Running, State, Resume
  ctxDone,    \* whether the context of the run is cancelled
  cancelling, \* whether a Stop is about to cancel that context
  pc,         \* where the run is
  left,       \* the sources it has still to read
  source,     \* the source it reads ...
  page,       \* ... and the number of the page
  work,       \* what HistoricalPage returned: ids, the fetched ones, the bare
              \* ones among these (their detail page failed), the page limit
  todo,       \* the releases of the page it has still to save
  outcome,    \* of UpsertRelease
  failed,     \* whether runErr is set
  final,      \* finalState
  starts, crashes

storeVars == <<items, rows, jobState, unsaved, read>>
libraryVars == <<published, library, dated>>
pageVars == <<left, source, page, work, todo, outcome>>
runVars == <<pageVars, failed, final>>
stopVars == <<ctxDone, cancelling>>
boundVars == <<starts, crashes>>
vars == <<storeVars, libraryVars, runVars, stopVars, boundVars, status, pc>>

NoItem == [state |-> "none", date |-> 0]
NoRow == [state |-> "absent", cursor |-> 0, resume |-> 0, next |-> 1,
          limit |-> 0, catchup |-> FALSE]
NoWork == [ids |-> {}, fetched |-> {}, bare |-> {}, limit |-> 0]
Items == [state : {"none", "failed", "completed"}, date : Nat]
Rows == [state : {"absent", "pending", "running", "completed"},
         cursor : Nat, resume : Nat, next : Nat, limit : Nat, catchup : BOOLEAN]
Endings == {"completed", "failed", "cancelled"}
JobStates == Endings \cup {"idle", "running", "interrupted"}
Statuses == [running : BOOLEAN, state : JobStates \cup {"starting", "stopping"},
             resume : BOOLEAN]
Status(running, state, resume) ==
  [running |-> running, state |-> state, resume |-> resume]
Steps == {"idle", "prepare", "discover", "next", "fetch", "save", "mark",
          "finish", "report"}

TypeOK ==
  /\ published \subseteq Releases /\ library \subseteq Releases
  /\ dated \subseteq library
  /\ items \in [Releases -> Items] /\ rows \in [Sources -> Rows]
  /\ jobState \in JobStates /\ unsaved \in BOOLEAN
  /\ read \in [Sources -> SUBSET Releases]
  /\ status \in Statuses
  /\ ctxDone \in BOOLEAN /\ cancelling \in BOOLEAN
  /\ pc \in Steps /\ left \subseteq Sources /\ source \in Sources \cup {0}
  /\ pc \in {"fetch", "save", "mark"} => source \in Sources
  /\ page \in Nat /\ failed \in BOOLEAN /\ final \in Endings
  /\ work \in [ids : SUBSET Releases, fetched : SUBSET Releases,
               bare : SUBSET Releases, limit : Nat]
  /\ work.fetched \subseteq work.ids /\ todo \subseteq work.fetched
  /\ outcome \in {"completed", "failed"}
  /\ starts \in Nat /\ crashes \in Nat

Init ==
  /\ published = AtFirst /\ library = {} /\ dated = {}
  /\ items = [r \in Releases |-> NoItem] /\ rows = [s \in Sources |-> NoRow]
  /\ jobState = "idle" /\ unsaved = FALSE /\ read = [s \in Sources |-> {}]
  /\ status = Status(FALSE, "idle", FALSE)
  /\ ctxDone = FALSE /\ cancelling = FALSE /\ pc = "idle"
  /\ left = {} /\ source = 0 /\ page = 1 /\ work = NoWork /\ todo = {}
  /\ outcome = "completed"
  /\ failed = FALSE /\ final = "completed"
  /\ starts = 0 /\ crashes = 0

-----------------------------------------------------------------------------
(* The listing of a source is sorted by date, the newest release first.    *)
Listing(s) == ListedIn[s] \cap published
Newer(q, r) == Date[q] > Date[r] \/ (Date[q] = Date[r] /\ q > r)
Place(s, r) == Cardinality({q \in Listing(s) : Newer(q, r)})
Page(s, n) == {r \in Listing(s) : (n - 1) * PageSize <= Place(s, r)
                                  /\ Place(s, r) < n * PageSize}

(* The highest page number among the links of a page of source s.          *)
OnlineMax(s) == LET pages == (Cardinality(Listing(s)) + PageSize - 1) \div PageSize
                IN IF pages > 1 THEN pages ELSE 0

Least(a, b) == IF a < b THEN a ELSE b
Greatest(a, b) == IF a < b THEN b ELSE a

(* listingPageLimit; 0 stands for no limit.                                *)
ListingPageLimit(online, ceiling, current) ==
  IF online = 0 THEN ceiling
  ELSE IF ceiling = 0 THEN Greatest(current, online)
       ELSE Greatest(current, Least(ceiling, online))

(* What scrapeFiltered reports when it is asked for one page: the ceiling  *)
(* is that one page, unless the page asked for is another than the first.  *)
ReportedLimit(s, n) == ListingPageLimit(OnlineMax(s), IF n = 1 THEN 1 ELSE 0, n)

-----------------------------------------------------------------------------
(* Start, with what the caller says of Resume.                             *)
Start(resume) ==
  /\ ~status.running /\ starts < MaxStarts
  /\ status' = Status(TRUE, "starting", resume)
  /\ ctxDone' = FALSE /\ cancelling' = FALSE
  /\ pc' = "prepare"
  /\ starts' = starts + 1
  /\ UNCHANGED <<storeVars, libraryVars, runVars, crashes>>

(* Stop reads the cancel function under the lock and calls it after.       *)
Stop ==
  /\ status.running
  /\ status' = [status EXCEPT !.state = "stopping"]
  /\ cancelling' = TRUE
  /\ UNCHANGED <<storeVars, libraryVars, runVars, boundVars, ctxDone, pc>>

CancelContext ==
  /\ cancelling
  /\ ctxDone' = TRUE /\ cancelling' = FALSE
  /\ UNCHANGED <<storeVars, libraryVars, runVars, boundVars, status, pc>>

(* The local variables of run are gone.                                    *)
LoopIsOver ==
  /\ left' = {} /\ source' = 0 /\ page' = 1 /\ work' = NoWork /\ todo' = {}
  /\ outcome' = "completed"

(* run gives up: its context is done, or something has failed.             *)
GiveUp ==
  /\ pc' = "finish" /\ failed' = TRUE /\ LoopIsOver
  /\ UNCHANGED <<libraryVars, final, stopVars, boundVars, status>>

(* PrepareHistoricalBackfill, one transaction.                             *)
Resumed(row) ==
  IF row.state = "absent" THEN row
  ELSE [row EXCEPT !.resume = row.cursor, !.catchup = (row.state = "completed"),
                   !.state = "pending", !.next = 1]

PrepareTables ==
  /\ pc = "prepare" /\ ~ctxDone
  /\ IF status.resume
     THEN /\ rows' = [s \in Sources |-> Resumed(rows[s])]
          /\ UNCHANGED <<items, read>>
     ELSE /\ rows' = [s \in Sources |-> NoRow]
          /\ items' = [r \in Releases |-> NoItem]
          /\ read' = [s \in Sources |-> {}]
  /\ pc' = "discover"
  /\ UNCHANGED <<libraryVars, runVars, stopVars, boundVars, status>>

(* Faulty variant: the state is not part of the transaction. *)
PrepareKeepsState == PrepareTables /\ UNCHANGED <<jobState, unsaved>>

Prepare == PrepareTables /\ jobState' = "running" /\ unsaved' = FALSE

WithSources(found) ==
  [s \in Sources |-> IF s \in found /\ rows[s].state = "absent"
                     THEN [NoRow EXCEPT !.state = "pending"] ELSE rows[s]]

(* HistoricalIndexes need not find every source; the stored ones count too.*)
Discover(found) ==
  /\ pc = "discover" /\ ~ctxDone /\ found # {}
  /\ rows' = WithSources(found)
  /\ left' = {s \in Sources : rows'[s].state \notin {"absent", "completed"}}
  /\ pc' = "next"
  /\ UNCHANGED <<libraryVars, items, jobState, unsaved, read, source, page, work,
                 todo, outcome, failed, final, stopVars, boundVars, status>>

(* The sources are saved one by one; what is saved before a failure stays. *)
DiscoverFails(found) ==
  /\ pc = "discover" /\ (ctxDone \/ MayFail)
  /\ ctxDone => found = {}
  /\ rows' = WithSources(found)
  /\ GiveUp
  /\ UNCHANGED <<items, jobState, unsaved, read>>

PrepareFails ==
  /\ pc = "prepare" /\ (ctxDone \/ MayFail)
  /\ GiveUp
  /\ UNCHANGED storeVars

NextSource(s) ==
  /\ pc = "next" /\ s \in left /\ \A t \in left : s <= t
  /\ left' = left \ {s}
  /\ source' = s /\ page' = Greatest(rows[s].next, 1)
  /\ status' = [status EXCEPT !.state = "running"]
  /\ pc' = "fetch"
  /\ UNCHANGED <<libraryVars, storeVars, work, todo, outcome, failed, final,
                 stopVars, boundVars>>

NoMoreSources ==
  /\ pc = "next" /\ left = {}
  /\ pc' = "finish" /\ LoopIsOver
  /\ UNCHANGED <<libraryVars, storeVars, failed, final, stopVars, boundVars, status>>

-----------------------------------------------------------------------------
Done(r) == items[r].state = "completed"

(* The releases of a page that include has no need to fetch: those with a  *)
(* completed item, and those the library knows, which it records at once.  *)
Known(ids) == {r \in ids : Done(r) \/ r \in library}

Recorded(marked) ==
  [r \in Releases |-> IF r \in marked /\ ~Done(r)
     THEN [state |-> "completed", date |-> IF r \in dated THEN Date[r] ELSE 0]
     ELSE items[r]]

(* HistoricalPage: a release whose detail page fails comes back bare, one  *)
(* of an excluded studio not at all.                                       *)
Wanted == Page(source, page) \ Known(Page(source, page))
Accepted(bare) == Wanted \ (Excluded \ bare)

FetchPage(bare, toSave) ==
  /\ pc = "fetch" /\ ~ctxDone /\ Page(source, page) # {}
  /\ bare \subseteq Wanted /\ (MayFail \/ bare = {})
  /\ items' = Recorded(Known(Page(source, page)))
  /\ work' = [ids |-> Page(source, page), fetched |-> Accepted(bare), bare |-> bare,
              limit |-> ReportedLimit(source, page)]
  /\ todo' = toSave
  /\ pc' = "save"
  /\ UNCHANGED <<libraryVars, rows, jobState, unsaved, read, left, source, page,
                 outcome, failed, final, stopVars, boundVars, status>>

(* Faulty variant: what comes of an excluded release is saved as well. *)
FetchExcluded(bare) == FetchPage(bare, Wanted)

Fetch(bare) == FetchPage(bare, Accepted(bare))

(* include may have recorded some of them when the page fails.  A page     *)
(* without entries is a failure.                                           *)
PageFails(marked) ==
  /\ pc = "fetch"
  /\ ctxDone \/ MayFail \/ Page(source, page) = {}
  /\ marked \subseteq Known(Page(source, page))
  /\ ctxDone \/ ~MayFail => marked = {}
  /\ items' = Recorded(marked)
  /\ UNCHANGED <<rows, jobState, unsaved, read>>

(* Faulty variant: a page that fails is tried again. *)
FetchAgain(marked) ==
  /\ PageFails(marked)
  /\ UNCHANGED <<libraryVars, runVars, stopVars, boundVars, status, pc>>

FetchFails(marked) == PageFails(marked) /\ GiveUp

(* The releases of a page are saved in the order they are listed in.       *)
IsNext(r) == r \in todo /\ \A q \in todo : ~Newer(q, r)

(* UpsertRelease; the loop goes on after a failure ...                     *)
SaveRelease(r, result) ==
  /\ pc = "save" /\ IsNext(r)
  /\ IF result = "completed"
     THEN /\ ~ctxDone
          /\ library' = library \cup {r}
          /\ dated' = IF r \in work.bare THEN dated ELSE dated \cup {r}
     ELSE /\ ctxDone \/ MayFail
          /\ UNCHANGED <<library, dated>>
  /\ outcome' = result
  /\ pc' = "mark"
  /\ UNCHANGED <<published, storeVars, left, source, page, work, todo, failed,
                 final, stopVars, boundVars, status>>

(* ... and SaveHistoricalBackfillItem with the outcome.                    *)
MarkAs(r, state) ==
  /\ pc = "mark" /\ IsNext(r)
  /\ items' = [items EXCEPT ![r] =
       [state |-> state, date |-> IF r \in work.bare THEN 0 ELSE Date[r]]]
  /\ todo' = todo \ {r} /\ outcome' = "completed"
  /\ pc' = "save"
  /\ UNCHANGED <<libraryVars, rows, jobState, unsaved, read, left, source, page,
                 work, failed, final, stopVars, boundVars, status>>

(* Faulty variant: the outcome is not looked at. *)
MarkCompleted(r) == ~ctxDone /\ MarkAs(r, "completed")

MarkItem(r) == ~ctxDone /\ MarkAs(r, outcome)

(* Marking an item or saving the source fails.                             *)
SaveFails ==
  /\ pc = "mark" \/ (pc = "save" /\ todo = {})
  /\ ctxDone \/ MayFail
  /\ GiveUp
  /\ UNCHANGED storeVars

(* The dates of a page, the oldest one, and whether the date is reached    *)
(* the source had been read down to before the resumption.                 *)
Dates == {items[r].date : r \in work.ids} \ {0}
Oldest == CHOOSE d \in Dates : \A e \in Dates : d <= e
BoundaryReached ==
  \E r \in work.ids \ work.fetched :
    /\ Done(r) /\ items[r].date # 0
    /\ rows[source].resume # 0 /\ items[r].date <= rows[source].resume

Limit == IF work.limit > 0 THEN work.limit ELSE rows[source].limit
PageIsLast ==
  \/ work.ids = {}
  \/ Limit > 0 /\ page >= Limit
  \/ rows[source].catchup /\ BoundaryReached

(* The row of the source after a page.                                     *)
Advanced(row) ==
  [state |-> IF PageIsLast THEN "completed" ELSE "running",
   cursor |-> IF Dates # {} /\ (row.cursor = 0 \/ Oldest < row.cursor)
              THEN Oldest ELSE row.cursor,
   resume |-> IF PageIsLast THEN 0 ELSE row.resume,
   next |-> page + 1, limit |-> Limit,
   catchup |-> IF PageIsLast THEN FALSE ELSE row.catchup]

(* SaveHistoricalBackfillSource, after all the items of the page.          *)
SaveRow ==
  /\ pc = "save" /\ ~ctxDone
  /\ rows' = [rows EXCEPT ![source] = Advanced(@)]
  /\ read' = [read EXCEPT ![source] = @ \cup work.ids]
  /\ IF PageIsLast THEN pc' = "next" /\ page' = 1 /\ source' = 0
                   ELSE pc' = "fetch" /\ page' = page + 1 /\ source' = source
  /\ work' = NoWork /\ todo' = {}
  /\ UNCHANGED <<libraryVars, items, jobState, unsaved, left, outcome, failed,
                 final, stopVars, boundVars, status>>

(* Faulty variant: the source is saved as soon as the page is fetched. *)
SaveSourceFirst == SaveRow

SaveSource == todo = {} /\ SaveRow

(* The deferred function: the outcome, saved without the context, an error *)
(* ignored; ...                                                            *)
SaveState(saved) ==
  /\ pc = "finish"
  /\ final' = IF ctxDone THEN "cancelled" ELSE IF failed THEN "failed" ELSE "completed"
  /\ saved \/ MayFail
  /\ jobState' = IF saved THEN final' ELSE jobState
  /\ unsaved' = ~saved
  /\ pc' = "report"
  /\ failed' = FALSE
  /\ UNCHANGED <<libraryVars, items, rows, read, pageVars, stopVars, boundVars, status>>

(* ... and only then another run may start.                                *)
ReportAs(state) ==
  /\ pc = "report"
  /\ status' = [status EXCEPT !.running = FALSE, !.state = state]
  /\ pc' = "idle" /\ final' = "completed"
  /\ UNCHANGED <<libraryVars, storeVars, pageVars, failed, stopVars, boundVars>>

(* Faulty variant: the context is looked at once more. *)
ReportCancelled == ReportAs(IF ctxDone THEN "cancelled" ELSE final)

Report == ReportAs(final)

-----------------------------------------------------------------------------
(* The site lists a new release, of any date.                              *)
Publish(r) ==
  /\ r \notin published
  /\ published' = published \cup {r}
  /\ UNCHANGED <<storeVars, library, dated, runVars, stopVars, boundVars, status, pc>>

(* A scan of a monitored site adds a release, with or without its date.    *)
ScanAdds(r, withDate) ==
  /\ r \in (published \cap Scanned) \ library
  /\ library' = library \cup {r}
  /\ dated' = IF withDate THEN dated \cup {r} ELSE dated
  /\ UNCHANGED <<storeVars, published, runVars, stopVars, boundVars, status, pc>>

(* The process stops at any point, and New starts the next: a run that was *)
(* under way has been interrupted.                                         *)
Crash(saved) ==
  LET interrupted == jobState = "running"
      state == IF interrupted THEN "interrupted" ELSE jobState
  IN /\ crashes < MaxCrashes /\ crashes' = crashes + 1
     /\ saved \/ (MayFail /\ interrupted)
     /\ jobState' = IF saved THEN state ELSE jobState
     /\ unsaved' = ~saved
     /\ status' = Status(FALSE, state, FALSE)
     /\ pc' = "idle" /\ ctxDone' = FALSE /\ cancelling' = FALSE
     /\ LoopIsOver /\ failed' = FALSE /\ final' = "completed"
     /\ UNCHANGED <<libraryVars, items, rows, read, starts>>

RunStep ==
  \/ Prepare \/ PrepareFails
  \/ \E found \in SUBSET Sources : Discover(found) \/ DiscoverFails(found)
  \/ \E s \in Sources : NextSource(s)
  \/ NoMoreSources
  \/ \E some \in SUBSET Releases : Fetch(some) \/ FetchFails(some)
  \/ \E r \in Releases, result \in {"completed", "failed"} : SaveRelease(r, result)
  \/ \E r \in Releases : MarkItem(r)
  \/ SaveSource \/ SaveFails
  \/ \E saved \in BOOLEAN : SaveState(saved)
  \/ Report

Next ==
  \/ \E resume \in BOOLEAN : Start(resume)
  \/ Stop \/ CancelContext
  \/ RunStep
  \/ \E r \in Releases : Publish(r) \/ \E withDate \in BOOLEAN : ScanAdds(r, withDate)
  \/ \E saved \in BOOLEAN : Crash(saved)

Spec == Init /\ [][Next]_vars
FairSpec == Spec /\ WF_vars(RunStep)

-----------------------------------------------------------------------------
(* What a source is saved to have been read of is saved: every release on  *)
(* the pages its row counts as read has an item, through failures, Stop and*)
(* crashes, until a run that does not resume starts over.  A row ahead of  *)
(* its items would make the next run pass over them.                       *)
CheckpointCovers ==
  \A s \in Sources : \A r \in read[s] \ Excluded : items[r].state # "none"

(* A release that is passed over as completed is in the library, even if   *)
(* the process stops between the two saves.                                *)
CompletedIsInLibrary == \A r \in Releases : Done(r) => r \in library

(* A backfill is stored as completed only when every source it knows is.   *)
CompletedMeansAll ==
  jobState = "completed" => \A s \in Sources : rows[s].state \in {"absent", "completed"}

(* When no run is under way, the state shown is the one a restart will     *)
(* restore, unless it could not be saved: a Stop that comes while the run  *)
(* says how it ended does not tell the two apart.                          *)
AgreeWhenOver == ~status.running => unsaved \/ jobState = status.state

(* Every run ends, whatever fails and whenever it is stopped.              *)
RunEnds == status.running ~> ~status.running

(* README.md: a run "replays each index from its newest page until it      *)
(* relocates the saved release-date boundary, captures anything inserted   *)
(* [...], and then continues deeper": a completed run has recorded whatever*)
(* was listed (where nothing is published later).                          *)
WholeIndexRead ==
  ~status.running /\ status.state = "completed" =>
    \A s \in Sources : rows[s].state # "absent" =>
      \A r \in Listing(s) \ Excluded : items[r].state # "none"
=============================================================================
