--------------------------- MODULE ReleaseRefresh ---------------------------
(* Refreshing the details of a release (src/internal/monitor/service.go:   *)
(* StartRelease, RefreshReleaseNow; web/server.go: the screenshot backfill;*)
(* store/store.go: UpsertRelease, PatchRelease).  "Update details" runs in *)
(* a goroutine of its own for each release; a sweep refreshes releases     *)
(* through a pool of workers; both read the row, scrape, and save it long  *)
(* after, while the user edits it.                                         *)
(* Of a row the model has one mark for the three that behave alike         *)
(* (notify_on_release, watchlist, monitor_download), for all the scraped   *)
(* fields their version, which is also the number of screenshots, and the  *)
(* version that updated_at tells of.  One page of releases is swept.  One   *)
(* action is a statement of the store, a request, or a critical section of *)
(* s.mu or coverJobMu.                                                     *)
EXTENDS Naturals, FiniteSets

CONSTANTS
  RefreshRows,   \* releases; the manual refresh of a release has its name
  SweepWorkers,  \* the workers of the screenshot backfill
  MaxVersion,    \* bound: the versions of a page
  MaxMarkEdits,  \* bound: how often the user changes a mark
  MaxRefreshes   \* bound: how many refreshes and sweeps are asked for

ASSUME RefreshAssumption ==
  /\ RefreshRows \cap SweepWorkers = {} /\ {MaxVersion, MaxMarkEdits, MaxRefreshes} \subseteq Nat

VARIABLES
  row,       \* row[r]: the stored release
  page,      \* page[r]: the version its product page has now
  cached,    \* cached[r]: the version whose screenshots are in the cache
  checked,   \* the releases with screenshots_checked_at
  refresher, \* refresher[p]: how far a refresh is, and what it has read
  details,   \* details[r]: the result of the last manual refresh
  sweep,     \* screenshotJob: whether it runs, and the listed rows it has yet to hand out
  asked      \* how often refreshes were asked for, and marks edited

refreshVars == <<row, page, cached, checked, refresher, details, sweep, asked>>

Refreshers == RefreshRows \cup SweepWorkers
ListedRows == [rel : RefreshRows, ver : 0 .. MaxVersion]
NewRow == [mark |-> FALSE, ver |-> 0, dated |-> 0]
Resting == [pc |-> "idle", of |-> {}, read |-> NewRow, found |-> 0, cancelled |-> FALSE]

RefreshTypeOK ==
  LET StoredRow == [mark : BOOLEAN, ver : 0 .. MaxVersion, dated : 0 .. MaxVersion]
  IN /\ row \in [RefreshRows -> StoredRow] /\ page \in [RefreshRows -> 0 .. MaxVersion]
     /\ cached \in [RefreshRows -> 0 .. MaxVersion] /\ checked \subseteq RefreshRows
     /\ refresher \in [Refreshers ->
          [pc : {"idle", "check", "read", "scrape", "shots", "save", "reread", "done", "failed"},
           of : SUBSET RefreshRows, read : StoredRow, found : 0 .. MaxVersion, cancelled : BOOLEAN]]
     /\ details \in [RefreshRows -> {"none", "completed", "failed", "cancelled"}]
     /\ sweep \in [running : BOOLEAN, listed : BOOLEAN, todo : SUBSET ListedRows]
     /\ asked \in [refreshes : 0 .. MaxRefreshes, edits : 0 .. MaxMarkEdits]

RefreshInit ==
  /\ row = [r \in RefreshRows |-> NewRow] /\ page = [r \in RefreshRows |-> 0]
  /\ cached = [r \in RefreshRows |-> 0] /\ checked = {}
  /\ refresher = [p \in Refreshers |-> Resting] /\ details = [r \in RefreshRows |-> "none"]
  /\ sweep = [running |-> FALSE, listed |-> FALSE, todo |-> {}]
  /\ asked = [refreshes |-> 0, edits |-> 0]

Go(p, pc) == refresher' = [refresher EXCEPT ![p].pc = pc]
Ask == asked.refreshes < MaxRefreshes /\ asked' = [asked EXCEPT !.refreshes = @ + 1]
StoreUnchanged == UNCHANGED <<row, cached, checked>>
OthersUnchanged == UNCHANGED <<page, details, sweep, asked>>

-----------------------------------------------------------------------------
(* The user, and the pages.                                                *)
EditMark(r, mark) ==
  /\ row[r].mark # mark /\ asked.edits < MaxMarkEdits
  /\ asked' = [asked EXCEPT !.edits = @ + 1]
  /\ row' = [row EXCEPT ![r].mark = mark]
  /\ UNCHANGED <<page, cached, checked, refresher, details, sweep>>

PageChanges(r) ==
  /\ page[r] < MaxVersion /\ page' = [page EXCEPT ![r] = @ + 1]
  /\ StoreUnchanged /\ UNCHANGED <<refresher, details, sweep, asked>>

(* StartRelease: a release that is being refreshed is not refreshed twice. *)
StartRelease(r) ==
  /\ refresher[r].pc = "idle" /\ Ask
  /\ refresher' = [refresher EXCEPT ![r] = [Resting EXCEPT !.pc = "read", !.of = {r}]]
  /\ details' = [details EXCEPT ![r] = "none"]
  /\ StoreUnchanged /\ UNCHANGED <<page, sweep>>

(* Stop cancels the manual refreshes; a sweep goes on.                     *)
StopRefreshes ==
  /\ \E r \in RefreshRows : refresher[r].pc # "idle" /\ ~refresher[r].cancelled
  /\ refresher' = [p \in Refreshers |->
       IF p \in RefreshRows /\ refresher[p].pc # "idle"
       THEN [refresher[p] EXCEPT !.cancelled = TRUE] ELSE refresher[p]]
  /\ StoreUnchanged /\ OthersUnchanged

-----------------------------------------------------------------------------
(* doRefreshRelease.  Every step but the screenshots' may fail, and does   *)
(* after a cancellation.                                                   *)
Fails(p) ==
  /\ refresher[p].pc \in {"check", "read", "scrape", "save", "reread"}
  /\ Go(p, "failed") /\ StoreUnchanged /\ OthersUnchanged

ReadRow(p) ==
  /\ refresher[p].pc = "read" /\ ~refresher[p].cancelled
  /\ \E r \in refresher[p].of :
       refresher' = [refresher EXCEPT ![p].pc = "scrape", ![p].read = row[r]]
  /\ StoreUnchanged /\ OthersUnchanged

Scrape(p) ==
  /\ refresher[p].pc = "scrape" /\ ~refresher[p].cancelled
  /\ \E r \in refresher[p].of :
       refresher' = [refresher EXCEPT ![p].pc = "shots", ![p].found = page[r]]
  /\ StoreUnchanged /\ OthersUnchanged

(* Screenshots that cannot be fetched fail a sweep, and no manual refresh. *)
FetchShots(p) ==
  LET found == refresher[p].found
  IN /\ refresher[p].pc = "shots" /\ UNCHANGED <<row, checked>> /\ OthersUnchanged
     /\ \/ found = 0 /\ Go(p, "save") /\ UNCHANGED cached
        \/ /\ found > 0 /\ ~refresher[p].cancelled /\ Go(p, "save")
           /\ cached' = [r \in RefreshRows |->
                IF r \in refresher[p].of /\ cached[r] < found THEN found ELSE cached[r]]
        \/ /\ found > 0 /\ Go(p, IF p \in SweepWorkers THEN "failed" ELSE "save")
           /\ UNCHANGED cached

(* Faulty variant: the marks are saved as they were read.                  *)
MarksAsRead(stored, read) == read

(* UpsertRelease: of a mark the greater of the stored and the read one.    *)
MergedMark(stored, read) == stored \/ read

(* The scraped fields replace the stored ones, but a page without          *)
(* screenshots leaves those that are stored; updated_at moves with them,   *)
(* unless the refresh is the sweep's.                                      *)
SaveRow(p) ==
  /\ refresher[p].pc = "save" /\ ~refresher[p].cancelled
  /\ \E r \in refresher[p].of :
       LET found == refresher[p].found
           bumps == found # row[r].ver /\ p \notin SweepWorkers
       IN row' = [row EXCEPT ![r] = [mark |-> MergedMark(@.mark, refresher[p].read.mark),
                                     ver |-> IF found = 0 THEN @.ver ELSE found,
                                     dated |-> IF bumps THEN found ELSE @.dated]]
  /\ Go(p, "reread")
  /\ UNCHANGED <<cached, checked>> /\ OthersUnchanged

(* The row is read again for the outcome, and sent to those who listen.    *)
Reread(p) ==
  /\ refresher[p].pc = "reread" /\ ~refresher[p].cancelled
  /\ Go(p, "done") /\ StoreUnchanged /\ OthersUnchanged

(* runReleaseJob: a refresh that ended after Stop counts as cancelled.     *)
FinishManual(r) ==
  /\ refresher[r].pc \in {"done", "failed"}
  /\ details' = [details EXCEPT ![r] =
       IF refresher[r].cancelled THEN "cancelled"
       ELSE IF refresher[r].pc = "done" THEN "completed" ELSE "failed"]
  /\ refresher' = [refresher EXCEPT ![r] = Resting]
  /\ StoreUnchanged /\ UNCHANGED <<page, sweep, asked>>

-----------------------------------------------------------------------------
(* The screenshot backfill.                                                *)
StartSweep ==
  /\ ~sweep.running /\ Ask
  /\ sweep' = [running |-> TRUE, listed |-> FALSE, todo |-> {}]
  /\ StoreUnchanged /\ UNCHANGED <<page, refresher, details>>

ListSweep ==
  /\ sweep.running /\ ~sweep.listed
  /\ \E todo \in {{[rel |-> r, ver |-> row[r].ver] : r \in RefreshRows}, {}} :
       sweep' = [sweep EXCEPT !.listed = TRUE, !.todo = todo]
  /\ StoreUnchanged /\ UNCHANGED <<page, refresher, details, asked>>

Hand(w) ==
  /\ refresher[w].pc = "idle"
  /\ \E item \in sweep.todo :
       /\ sweep' = [sweep EXCEPT !.todo = @ \ {item}]
       /\ refresher' = [refresher EXCEPT ![w] =
            [Resting EXCEPT !.pc = "check", !.of = {item.rel}, !.found = item.ver]]
  /\ StoreUnchanged /\ UNCHANGED <<page, details, asked>>

(* screenshotBackfillOne looks at the row as it was listed: a release with *)
(* all its screenshots in the cache is noted, and one that was checked and *)
(* has none is not scraped again.                                          *)
Complete(r, ver) == ver > 0 /\ cached[r] >= ver

CheckShots(w) ==
  /\ refresher[w].pc = "check"
  /\ \E r \in refresher[w].of :
       LET ver == refresher[w].found
       IN IF Complete(r, ver) \/ (r \in checked /\ ver = 0)
          THEN checked' \in {checked, checked \cup {r}} /\ refresher' = [refresher EXCEPT ![w] = Resting]
          ELSE Go(w, "read") /\ UNCHANGED checked
  /\ UNCHANGED <<row, cached>> /\ OthersUnchanged

NoteChecked(w) ==
  /\ refresher[w].pc \in {"done", "failed"}
  /\ \/ refresher[w].pc = "done" /\ checked' = checked \cup refresher[w].of
     \/ UNCHANGED checked
  /\ refresher' = [refresher EXCEPT ![w] = Resting]
  /\ UNCHANGED <<row, cached>> /\ OthersUnchanged

EndSweep ==
  /\ sweep.running /\ sweep.listed /\ sweep.todo = {}
  /\ \A w \in SweepWorkers : refresher[w].pc = "idle"
  /\ sweep' = [sweep EXCEPT !.running = FALSE]
  /\ StoreUnchanged /\ UNCHANGED <<page, refresher, details, asked>>

(* A cached file is lost.                                                  *)
LoseShots(r) ==
  /\ cached[r] > 0 /\ asked.edits < MaxMarkEdits
  /\ asked' = [asked EXCEPT !.edits = @ + 1] /\ cached' = [cached EXCEPT ![r] = 0]
  /\ UNCHANGED <<row, page, checked, refresher, details, sweep>>

RefreshNext ==
  \/ \E r \in RefreshRows : \/ EditMark(r, TRUE) \/ EditMark(r, FALSE) \/ PageChanges(r) \/ LoseShots(r)
                            \/ StartRelease(r) \/ FinishManual(r)
  \/ StopRefreshes \/ StartSweep \/ ListSweep \/ EndSweep
  \/ \E p \in Refreshers : ReadRow(p) \/ Scrape(p) \/ FetchShots(p) \/ SaveRow(p) \/ Reread(p) \/ Fails(p)
  \/ \E w \in SweepWorkers : CheckShots(w) \/ NoteChecked(w) \/ Hand(w)

RefreshSpec == RefreshInit /\ [][RefreshNext]_refreshVars

-----------------------------------------------------------------------------
(* A mark the user has set while refreshes are under way, each of which    *)
(* saves what it read long before, is taken back by nobody but the user    *)
(* (upsertRelease: a mark "never regresses").  The opposite does not hold: *)
(* a mark that was cleared meanwhile is set again.                         *)
MarksStaySet ==
  [][\A r \in RefreshRows : row[r].mark /\ ~row'[r].mark => EditMark(r, FALSE)]_refreshVars
=============================================================================
