--------------------------- MODULE BackfillProofs ---------------------------
(***************************************************************************)
(* Theorems about the historical backfill, for any sources, releases and   *)
(* dates, any page size and any number of runs and crashes.                *)
(***************************************************************************)
EXTENDS Backfill, PriorityQueueTheorems, FiniteSetTheorems

USE BackfillAssumption

(***************************************************************************)
(* Types.                                                                  *)
(***************************************************************************)


LEMMA LimitIsNatural ==
  ASSUME NEW s \in Sources, NEW n \in Nat
  PROVE  ReportedLimit(s, n) \in Nat
<1>1. IsFiniteSet(Listing(s))
  BY FS_Subset DEF Listing
<1>2. Cardinality(Listing(s)) \in Nat
  BY <1>1, FS_CardinalityType
<1>3. OnlineMax(s) \in Nat
  BY <1>2 DEF OnlineMax
<1> QED  BY <1>3 DEF ReportedLimit, ListingPageLimit, Least, Greatest

LEMMA RowType ==
  ASSUME NEW state \in {"absent", "pending", "running", "completed"},
         NEW cursor \in Nat, NEW resume \in Nat, NEW next \in Nat, NEW limit \in Nat,
         NEW catchup \in BOOLEAN
  PROVE  [state |-> state, cursor |-> cursor, resume |-> resume, next |-> next,
          limit |-> limit, catchup |-> catchup] \in Rows
BY DEF Rows

LEMMA StatusType ==
  ASSUME NEW running \in BOOLEAN, NEW state \in JobStates \cup {"starting", "stopping"},
         NEW resume \in BOOLEAN
  PROVE  Status(running, state, resume) \in Statuses
BY DEF Status, Statuses

(* What SaveHistoricalBackfillSource writes is well typed.                 *)
LEMMA AdvancedTypes ==
  ASSUME TypeOK, NEW s \in Sources, source = s
  PROVE  Advanced(rows[s]) \in Rows
<1>1. Dates \subseteq Nat
  BY DEF Dates, TypeOK, Items
<1>2. Dates # {} => Oldest \in Nat
  BY <1>1, LeastNatural DEF Oldest
<1>3. Limit \in Nat
  BY DEF Limit, TypeOK, Rows
<1>4. rows[s] \in Rows
  BY DEF TypeOK
<1>5. page \in Nat
  BY DEF TypeOK
<1>6. /\ rows[s].cursor \in Nat /\ rows[s].resume \in Nat
      /\ rows[s].catchup \in BOOLEAN /\ page + 1 \in Nat
  BY <1>4, <1>5 DEF Rows
<1> DEFINE cursor == IF Dates # {} /\ (rows[s].cursor = 0 \/ Oldest < rows[s].cursor)
                     THEN Oldest ELSE rows[s].cursor
           resume == IF PageIsLast THEN 0 ELSE rows[s].resume
           catchup == IF PageIsLast THEN FALSE ELSE rows[s].catchup
           state == IF PageIsLast THEN "completed" ELSE "running"
           next == page + 1
<1>7. cursor \in Nat
  BY <1>2, <1>6
<1>8. resume \in Nat /\ next \in Nat
  BY <1>6
<1>9. catchup \in BOOLEAN /\ state \in {"absent", "pending", "running", "completed"}
  BY <1>6, Zenon
<1>10. Advanced(rows[s]) =
         [state |-> state, cursor |-> cursor, resume |-> resume, next |-> next,
          limit |-> Limit, catchup |-> catchup]
  BY Zenon DEF Advanced
<1> HIDE DEF cursor, resume, catchup, state, next
<1> QED  BY <1>3, <1>7, <1>8, <1>9, <1>10, RowType

LEMMA TypeInit == Init => TypeOK
<1>1. NoRow \in Rows /\ NoItem \in Items
  BY DEF NoRow, Rows, NoItem, Items
<1>2. Status(FALSE, "idle", FALSE) \in Statuses
  BY StatusType, Zenon DEF JobStates, Endings
<1>3. Init => status \in Statuses
  BY <1>2, Zenon DEF Init
<1>4. Init =>
       /\ published = AtFirst /\ library = {} /\ dated = {}
       /\ items = [r \in Releases |-> NoItem] /\ rows = [s \in Sources |-> NoRow]
       /\ jobState = "idle" /\ unsaved = FALSE /\ read = [s \in Sources |-> {}]
       /\ ctxDone = FALSE /\ cancelling = FALSE /\ pc = "idle"
       /\ left = {} /\ source = 0 /\ page = 1 /\ work = NoWork /\ todo = {}
       /\ outcome = "completed" /\ failed = FALSE /\ final = "completed"
       /\ starts = 0 /\ crashes = 0
  BY Zenon DEF Init
<1>5. Init => {unsaved, ctxDone, cancelling, failed} \subseteq BOOLEAN
  BY <1>4
<1>6. Init => /\ pc \in Steps /\ jobState \in JobStates /\ final \in Endings
              /\ outcome \in {"completed", "failed"}
  BY <1>4 DEF JobStates, Endings, Steps
<1>7. Init => /\ published \subseteq Releases
              /\ items \in [Releases -> Items] /\ rows \in [Sources -> Rows]
              /\ read \in [Sources -> SUBSET Releases]
  BY <1>1, <1>4
<1>8. NoWork \in [ids : SUBSET Releases, fetched : SUBSET Releases,
                   bare : SUBSET Releases, limit : Nat]
      /\ NoWork.fetched = {} /\ NoWork.ids = {}
  BY DEF NoWork
<1> QED  BY <1>3, <1>4, <1>5, <1>6, <1>7, <1>8 DEF TypeOK

LEMMA GiveUpTypes ==
  ASSUME TypeOK, GiveUp,
         rows' \in [Sources -> Rows], items' \in [Releases -> Items],
         UNCHANGED <<jobState, unsaved, read>>
  PROVE  TypeOK'
BY DEF TypeOK, GiveUp, LoopIsOver, NoWork, Steps, libraryVars, stopVars, boundVars

LEMMA RecordedTypes ==
  ASSUME TypeOK, NEW marked
  PROVE  Recorded(marked) \in [Releases -> Items]
<1>1. \A r \in Releases : items[r] \in Items /\ Date[r] \in Nat
  BY DEF TypeOK
<1> QED  BY <1>1 DEF Recorded, Items

LEMMA WithSourcesTypes ==
  ASSUME TypeOK, NEW found
  PROVE  WithSources(found) \in [Sources -> Rows]
BY DEF TypeOK, WithSources, NoRow, Rows

LEMMA TypeStep ==
  ASSUME TypeOK, [Next]_vars
  PROVE  TypeOK'
<1> USE DEF libraryVars, storeVars, pageVars, runVars, stopVars, boundVars
<1>1. ASSUME NEW resume \in BOOLEAN, Start(resume)
      PROVE  TypeOK'
  <2>1. Status(TRUE, "starting", resume) \in Statuses
    BY StatusType, Zenon
  <2>2. status' \in Statuses
    BY <1>1, <2>1, Zenon DEF Start
  <2>3. /\ ctxDone' = FALSE /\ cancelling' = FALSE
        /\ pc' = "prepare" /\ starts' = starts + 1
        /\ UNCHANGED <<storeVars, libraryVars, runVars, crashes>>
    BY <1>1, Zenon DEF Start
  <2>4. ctxDone' \in BOOLEAN /\ cancelling' \in BOOLEAN
    BY <2>3
  <2>5. pc' \in Steps /\ starts' \in Nat
    BY <2>3 DEF TypeOK, Steps
  <2> QED  BY <2>2, <2>3, <2>4, <2>5 DEF TypeOK
<1>2. CASE Stop
  BY <1>2 DEF TypeOK, Stop, Statuses, JobStates, Endings
<1>3. CASE CancelContext
  BY <1>3 DEF TypeOK, CancelContext
<1>4. CASE Prepare
  <2>1. ASSUME NEW row \in Rows
        PROVE  Resumed(row) \in Rows
    <3>1. (row.state = "completed") \in BOOLEAN
      OBVIOUS
    <3> DEFINE done == row.state = "completed"
    <3> HIDE DEF done
    <3>2. done \in BOOLEAN
      BY DEF done
    <3>3. [row EXCEPT !.resume = row.cursor, !.catchup = done,
                      !.state = "pending", !.next = 1] \in Rows
      BY <3>2 DEF Rows
    <3> QED  BY <3>3 DEF Resumed, done
  <2>2. NoItem \in Items
    BY DEF NoItem, Items
  <2>4. NoRow \in Rows
    BY RowType, Zenon DEF NoRow
  <2>3. /\ rows' \in [Sources -> Rows] /\ items' \in [Releases -> Items]
        /\ read' \in [Sources -> SUBSET Releases]
    BY <1>4, <2>1, <2>2, <2>4 DEF Prepare, PrepareTables, TypeOK
  <2> QED  BY <1>4, <2>3 DEF TypeOK, Prepare, PrepareTables, JobStates, Steps
<1>5. CASE PrepareFails
  BY <1>5, GiveUpTypes DEF PrepareFails, TypeOK
<1>6. ASSUME NEW found \in SUBSET Sources, Discover(found)
      PROVE  TypeOK'
  <2>1. rows' \in [Sources -> Rows]
    BY <1>6, WithSourcesTypes DEF Discover
  <2> QED  BY <1>6, <2>1 DEF TypeOK, Discover, Steps
<1>7. ASSUME NEW found \in SUBSET Sources, DiscoverFails(found)
      PROVE  TypeOK'
  BY <1>7, GiveUpTypes, WithSourcesTypes DEF DiscoverFails, TypeOK
<1>8. ASSUME NEW s \in Sources, NextSource(s)
      PROVE  TypeOK'
  <2>1. page' \in Nat
    BY <1>8 DEF NextSource, Greatest, TypeOK, Rows
  <2> QED  BY <1>8, <2>1 DEF TypeOK, NextSource, Statuses, JobStates, Endings, Steps
<1>9. CASE NoMoreSources
  BY <1>9 DEF TypeOK, NoMoreSources, LoopIsOver, NoWork, Steps
<1>10. ASSUME NEW bare \in SUBSET Releases, Fetch(bare)
       PROVE  TypeOK'
  <2>1. items' \in [Releases -> Items]
    BY <1>10, RecordedTypes DEF Fetch, FetchPage
  <2>2. source \in Sources /\ Page(source, page) \subseteq Releases
    BY <1>10 DEF Fetch, FetchPage, TypeOK, Page, Listing
  <2>3. work'.limit \in Nat
    BY <1>10, <2>2, LimitIsNatural DEF Fetch, FetchPage, TypeOK
  <2> QED  BY <1>10, <2>1, <2>2, <2>3 DEF TypeOK, Fetch, FetchPage, Accepted, Wanted, Steps
<1>11. ASSUME NEW marked \in SUBSET Releases, FetchFails(marked)
       PROVE  TypeOK'
  BY <1>11, GiveUpTypes, RecordedTypes DEF FetchFails, PageFails, TypeOK
<1>12. ASSUME NEW r \in Releases, NEW result \in {"completed", "failed"},
              SaveRelease(r, result)
       PROVE  TypeOK'
  BY <1>12 DEF TypeOK, SaveRelease, Steps
<1>13. ASSUME NEW r \in Releases, MarkItem(r)
       PROVE  TypeOK'
  <2>1. items' \in [Releases -> Items]
    BY <1>13 DEF MarkItem, MarkAs, TypeOK, Items
  <2> QED  BY <1>13, <2>1 DEF TypeOK, MarkItem, MarkAs, Steps
<1>14. CASE SaveSource
  <2>1. rows' \in [Sources -> Rows]
    BY <1>14, AdvancedTypes DEF SaveSource, SaveRow, TypeOK
  <2>2. read' \in [Sources -> SUBSET Releases]
    BY <1>14 DEF SaveSource, SaveRow, TypeOK
  <2> QED  BY <1>14, <2>1, <2>2 DEF TypeOK, SaveSource, SaveRow, NoWork, Steps
<1>15. CASE SaveFails
  BY <1>15, GiveUpTypes DEF SaveFails, TypeOK
<1>16. ASSUME NEW saved \in BOOLEAN, SaveState(saved)
       PROVE  TypeOK'
  BY <1>16 DEF TypeOK, SaveState, JobStates, Endings, Steps
<1>17. CASE Report
  <2>1. final \in JobStates /\ status \in Statuses
    BY DEF TypeOK, JobStates
  <2>2. status' = [status EXCEPT !.running = FALSE, !.state = final]
    BY <1>17 DEF Report, ReportAs
  <2>3. status' \in Statuses
    BY <2>1, <2>2 DEF Statuses
  <2> QED  BY <1>17, <2>3 DEF TypeOK, Report, ReportAs, JobStates, Endings, Steps
<1>18. ASSUME NEW r \in Releases, Publish(r)
       PROVE  TypeOK'
  BY <1>18 DEF TypeOK, Publish
<1>19. ASSUME NEW r \in Releases, NEW withDate \in BOOLEAN, ScanAdds(r, withDate)
       PROVE  TypeOK'
  BY <1>19 DEF TypeOK, ScanAdds
<1>20. ASSUME NEW saved \in BOOLEAN, Crash(saved)
       PROVE  TypeOK'
  <2> DEFINE state == IF jobState = "running" THEN "interrupted" ELSE jobState
  <2>1. state \in JobStates
    BY DEF TypeOK, JobStates
  <2> HIDE DEF state
  <2>2. Status(FALSE, state, FALSE) \in Statuses
    BY <2>1, StatusType, Zenon
  <2>3. status' \in Statuses /\ jobState' \in JobStates
    BY <1>20, <2>1, <2>2 DEF Crash, state, TypeOK
  <2>4. /\ unsaved' = ~saved /\ crashes' = crashes + 1
        /\ pc' = "idle" /\ ctxDone' = FALSE /\ cancelling' = FALSE
        /\ LoopIsOver /\ failed' = FALSE /\ final' = "completed"
        /\ UNCHANGED <<libraryVars, items, rows, read, starts>>
    BY <1>20, Zenon DEF Crash
  <2>5. {unsaved', ctxDone', cancelling', failed'} \subseteq BOOLEAN
    BY <2>4
  <2>6. pc' \in Steps /\ final' \in Endings /\ crashes' \in Nat
    BY <2>4 DEF TypeOK, Endings, Steps
  <2> QED  BY <2>3, <2>4, <2>5, <2>6 DEF TypeOK, LoopIsOver, NoWork
<1>21. CASE UNCHANGED vars
  BY <1>21 DEF TypeOK, vars
<1> QED
  BY <1>1, <1>2, <1>3, <1>4, <1>5, <1>6, <1>7, <1>8, <1>9, <1>10, <1>11, <1>12,
     <1>13, <1>14, <1>15, <1>16, <1>17, <1>18, <1>19, <1>20, <1>21
  DEF Next, RunStep

(* The tables, the library and the local variables of the run keep their   *)
(* types, whatever fails and whenever the run is stopped or the process    *)
(* restarted.                                                              *)
THEOREM BackfillTyping == Spec => []TypeOK
BY TypeInit, TypeStep, PTL DEF Spec

(***************************************************************************)
(* The saved progress of a source never runs ahead of the items.           *)
(***************************************************************************)

(* While a page is being saved, what the run has still to save of it and   *)
(* what it has recorded are the whole page.                                *)
PageIsRecorded ==
  pc \in {"save", "mark"} =>
    \A r \in work.ids \ Excluded : r \in todo \/ items[r].state # "none"

LEMMA RecordedKeeps ==
  ASSUME TypeOK, NEW marked, NEW r \in Releases
  PROVE  /\ items[r].state # "none" => Recorded(marked)[r].state # "none"
         /\ r \in marked => Recorded(marked)[r].state # "none"
BY DEF Recorded, Done

(* Only a run that does not resume takes records away.                     *)
LEMMA RecordsStay ==
  ASSUME TypeOK, [Next]_vars, ~(Prepare /\ ~status.resume),
         NEW r \in Releases, items[r].state # "none"
  PROVE  items'[r].state # "none"
<1> USE DEF storeVars
<1>1. CASE UNCHANGED items
  BY <1>1
<1>2. ASSUME NEW bare, Fetch(bare)
      PROVE  items'[r].state # "none"
  BY <1>2, RecordedKeeps DEF Fetch, FetchPage
<1>3. ASSUME NEW marked, FetchFails(marked)
      PROVE  items'[r].state # "none"
  BY <1>3, RecordedKeeps DEF FetchFails, PageFails
<1>4. ASSUME NEW q \in Releases, MarkItem(q)
      PROVE  items'[r].state # "none"
  BY <1>4 DEF MarkItem, MarkAs, TypeOK
<1>5. CASE Prepare
  BY <1>5, <1>1 DEF Prepare, PrepareTables
<1> QED
  BY <1>1, <1>2, <1>3, <1>4, <1>5
  DEF Next, RunStep, vars, Start, Stop, CancelContext, PrepareFails, Discover,
      DiscoverFails, NextSource, NoMoreSources, SaveRelease, SaveSource, SaveRow,
      SaveFails, SaveState, Report, ReportAs, Publish, ScanAdds, Crash

LEMMA PageStep ==
  ASSUME TypeOK, [Next]_vars, PageIsRecorded
  PROVE  PageIsRecorded'
<1> SUFFICES ASSUME pc' \in {"save", "mark"}, NEW r \in work'.ids \ Excluded
             PROVE  r \in todo' \/ items'[r].state # "none"
  BY DEF PageIsRecorded
<1> USE DEF libraryVars, storeVars, pageVars, runVars
<1>1. ASSUME NEW bare, Fetch(bare)
      PROVE  r \in todo' \/ items'[r].state # "none"
  <2>1. r \in Page(source, page) /\ r \in Releases
    BY <1>1 DEF Fetch, FetchPage, Page, Listing, TypeOK
  <2>2. CASE r \in Known(Page(source, page))
    BY <1>1, <2>1, <2>2, RecordedKeeps DEF Fetch, FetchPage
  <2>3. CASE r \notin Known(Page(source, page))
    BY <1>1, <2>1, <2>3 DEF Fetch, FetchPage, Accepted, Wanted
  <2> QED  BY <2>2, <2>3
<1>2. ASSUME NEW q \in Releases, MarkItem(q)
      PROVE  r \in todo' \/ items'[r].state # "none"
  <2>1. r \in Releases /\ (r \in todo \/ items[r].state # "none")
    BY <1>2 DEF MarkItem, MarkAs, PageIsRecorded, TypeOK
  <2>2. CASE r = q
    BY <1>2, <2>1, <2>2 DEF MarkItem, MarkAs, TypeOK
  <2>3. CASE r # q
    BY <1>2, <2>1, <2>3 DEF MarkItem, MarkAs, TypeOK
  <2> QED  BY <2>2, <2>3
<1>3. CASE UNCHANGED <<items, work, todo>> /\ pc \in {"save", "mark"}
  BY <1>3 DEF PageIsRecorded
<1> QED
  BY <1>1, <1>2, <1>3
  DEF Next, RunStep, vars, Start, Stop, CancelContext, GiveUp, Prepare, PrepareTables,
      PrepareFails, Discover, DiscoverFails, NextSource, NoMoreSources, FetchFails,
      PageFails, SaveRelease, SaveSource, SaveRow, SaveFails, SaveState, Report,
      ReportAs, Publish, ScanAdds, Crash

LEMMA CheckpointStep ==
  ASSUME TypeOK, [Next]_vars, PageIsRecorded, CheckpointCovers
  PROVE  CheckpointCovers'
<1> SUFFICES ASSUME NEW s \in Sources, NEW r \in read'[s] \ Excluded
             PROVE  items'[r].state # "none"
  BY DEF CheckpointCovers
<1> USE DEF storeVars
<1>1. CASE Prepare /\ ~status.resume
  BY <1>1 DEF Prepare, PrepareTables
<1>2. CASE SaveSource
  <2>1. r \in Releases
    BY <1>2 DEF SaveSource, SaveRow, TypeOK
  <2>2. r \in read[s] \/ r \in work.ids
    BY <1>2 DEF SaveSource, SaveRow, TypeOK
  <2>3. items[r].state # "none"
    BY <1>2, <2>2 DEF SaveSource, SaveRow, PageIsRecorded, CheckpointCovers
  <2> QED  BY <1>2, <2>3 DEF SaveSource, SaveRow
<1>3. ASSUME ~(Prepare /\ ~status.resume), UNCHANGED read
      PROVE  items'[r].state # "none"
  <2>1. r \in Releases /\ items[r].state # "none"
    BY <1>3 DEF TypeOK, CheckpointCovers
  <2> QED  BY <1>3, <2>1, RecordsStay
<1>4. Prepare \/ SaveSource \/ UNCHANGED read
  BY DEF Next, RunStep, vars, Start, Stop, CancelContext, GiveUp,
      PrepareFails, Discover, DiscoverFails, NextSource, NoMoreSources, Fetch, FetchPage,
      FetchFails, PageFails, SaveRelease, MarkItem, MarkAs, SaveFails, SaveState,
      Report, ReportAs, Publish, ScanAdds, Crash, libraryVars, pageVars, runVars
<1>5. Prepare /\ status.resume => UNCHANGED read
  BY DEF Prepare, PrepareTables
<1>6. CASE SaveSource /\ Prepare
  BY <1>2, <1>6
<1> QED  BY <1>1, <1>2, <1>3, <1>4, <1>5

(* Whatever the saved row of a source counts as read has been recorded:    *)
(* through failures, Stop and crashes no later run passes over a release.  *)
THEOREM CheckpointsCover == Spec => []CheckpointCovers
<1>1. Init => PageIsRecorded /\ CheckpointCovers
  BY Zenon DEF Init, PageIsRecorded, CheckpointCovers
<1> QED  BY <1>1, BackfillTyping, PageStep, CheckpointStep, PTL DEF Spec

(***************************************************************************)
(* What is completed is in the library.                                    *)
(***************************************************************************)

(* Between the two saves of a release, the one that is about to be marked  *)
(* as completed has been stored.                                           *)
SavedIsStored ==
  pc = "mark" /\ outcome = "completed" => \A r \in Releases : IsNext(r) => r \in library

(* No two releases of a page are next.                                     *)
LEMMA OneIsNext ==
  ASSUME TypeOK, NEW q \in Releases, NEW r \in Releases, IsNext(q), IsNext(r)
  PROVE  q = r
BY DEF IsNext, Newer

LEMMA LibraryGrows ==
  ASSUME [Next]_vars
  PROVE  library \subseteq library'
BY DEF Next, RunStep, vars, Start, Stop, CancelContext, GiveUp, Prepare, PrepareTables,
       PrepareFails, Discover, DiscoverFails, NextSource, NoMoreSources, Fetch, FetchPage,
       FetchFails, PageFails, SaveRelease, MarkItem, MarkAs, SaveSource, SaveRow,
       SaveFails, SaveState, Report, ReportAs, Publish, ScanAdds, Crash, libraryVars

LEMMA StoredStep ==
  ASSUME TypeOK, [Next]_vars, SavedIsStored
  PROVE  SavedIsStored'
<1> SUFFICES ASSUME pc' = "mark", outcome' = "completed",
                    NEW r \in Releases, IsNext(r)'
             PROVE  r \in library'
  BY DEF SavedIsStored
<1> USE DEF libraryVars, storeVars, pageVars, runVars
<1>1. ASSUME NEW q \in Releases, SaveRelease(q, "completed")
      PROVE  r \in library'
  <2>1. IsNext(r)
    BY <1>1 DEF SaveRelease, IsNext
  <2>2. r = q
    BY <1>1, <2>1, OneIsNext DEF SaveRelease
  <2> QED  BY <1>1, <2>2 DEF SaveRelease
<1>2. CASE UNCHANGED <<pc, outcome, todo>>
  BY <1>2, LibraryGrows DEF SavedIsStored, IsNext
<1> QED
  BY <1>1, <1>2
  DEF Next, RunStep, vars, Start, Stop, CancelContext, GiveUp, LoopIsOver, Prepare,
      PrepareTables, PrepareFails, Discover, DiscoverFails, NextSource, NoMoreSources,
      Fetch, FetchPage, FetchFails, PageFails, SaveRelease, MarkItem, MarkAs,
      SaveSource, SaveRow, SaveFails, SaveState, Report, ReportAs, Publish, ScanAdds,
      Crash

LEMMA CompletedStep ==
  ASSUME TypeOK, [Next]_vars, SavedIsStored, CompletedIsInLibrary
  PROVE  CompletedIsInLibrary'
<1> SUFFICES ASSUME NEW r \in Releases, Done(r)'
             PROVE  r \in library
  BY LibraryGrows DEF CompletedIsInLibrary
<1> USE DEF storeVars
<1>1. ASSUME NEW marked \in SUBSET Known(Page(source, page)), items' = Recorded(marked)
      PROVE  r \in library
  <2>1. Done(r) \/ r \in marked
    BY <1>1 DEF Recorded, Done
  <2> QED  BY <2>1 DEF Known, CompletedIsInLibrary
<1>2. ASSUME NEW q \in Releases, MarkItem(q)
      PROVE  r \in library
  <2>1. CASE r = q
    <3>1. outcome = "completed"
      BY <1>2, <2>1 DEF MarkItem, MarkAs, Done, TypeOK
    <3> QED  BY <1>2, <2>1, <3>1 DEF MarkItem, MarkAs, SavedIsStored
  <2>2. CASE r # q
    BY <1>2, <2>2 DEF MarkItem, MarkAs, Done, TypeOK, CompletedIsInLibrary
  <2> QED  BY <2>1, <2>2
<1>3. CASE Prepare
  BY <1>3 DEF Prepare, PrepareTables, Done, NoItem, CompletedIsInLibrary
<1>4. CASE UNCHANGED items
  BY <1>4 DEF Done, CompletedIsInLibrary
<1> QED
  BY <1>1, <1>2, <1>3, <1>4
  DEF Next, RunStep, vars, Start, Stop, CancelContext, PrepareFails, Discover,
      DiscoverFails, NextSource, NoMoreSources, Fetch, FetchPage, FetchFails, PageFails,
      SaveRelease, SaveSource, SaveRow, SaveFails, SaveState, Report, ReportAs, Publish,
      ScanAdds, Crash

(* No run passes over a release as completed that is not in the library,   *)
(* whatever fails between the two saves of a release.                      *)
THEOREM CompletedIsStored == Spec => []CompletedIsInLibrary
<1>1. Init => SavedIsStored /\ CompletedIsInLibrary
  BY DEF Init, SavedIsStored, CompletedIsInLibrary, Done, NoItem
<1> QED  BY <1>1, BackfillTyping, StoredStep, CompletedStep, PTL DEF Spec

(***************************************************************************)
(* A backfill is completed when its sources are.                           *)
(***************************************************************************)

IsOpen(s) == rows[s].state \notin {"absent", "completed"}

(* While a run is on its way the stored state says so, and it has every    *)
(* open source still before it; it ends without an error when none is left.*)
SourcesInHand ==
  /\ pc \in {"discover", "next", "fetch", "save", "mark"} => jobState = "running"
  /\ pc = "next" => \A s \in Sources : IsOpen(s) => s \in left
  /\ pc \in {"fetch", "save", "mark"} =>
       \A s \in Sources : IsOpen(s) => s \in left \cup {source}
  /\ pc = "finish" /\ ~failed => \A s \in Sources : ~IsOpen(s)

LEMMA SourcesStep ==
  ASSUME TypeOK, [Next]_vars, SourcesInHand, CompletedMeansAll
  PROVE  SourcesInHand' /\ CompletedMeansAll'
<1> USE DEF libraryVars, storeVars, pageVars, runVars, SourcesInHand, CompletedMeansAll,
            IsOpen
<1>1. ASSUME NEW found \in SUBSET Sources, Discover(found)
      PROVE  SourcesInHand' /\ CompletedMeansAll'
  BY <1>1 DEF Discover
<1>2. CASE SaveSource
  <2>1. /\ rows' = [rows EXCEPT ![source] = Advanced(rows[source])]
        /\ source \in Sources /\ jobState = "running" /\ jobState' = "running"
        /\ left' = left /\ pc = "save"
    BY <1>2 DEF SaveSource, SaveRow, TypeOK
  <2>2. \A s \in Sources : s # source => rows'[s] = rows[s]
    BY <2>1
  <2>3. CASE PageIsLast
    <3>1. rows'[source].state = "completed"
      BY <2>1, <2>3 DEF Advanced, TypeOK
    <3> QED  BY <1>2, <2>1, <2>2, <2>3, <3>1 DEF SaveSource, SaveRow
  <2>4. CASE ~PageIsLast
    BY <1>2, <2>1, <2>2, <2>4 DEF SaveSource, SaveRow
  <2> QED  BY <2>3, <2>4
<1>3. ASSUME NEW saved \in BOOLEAN, SaveState(saved)
      PROVE  SourcesInHand' /\ CompletedMeansAll'
  <2>1. final' = "completed" => ~failed
    BY <1>3 DEF SaveState
  <2> QED  BY <1>3, <2>1 DEF SaveState
<1>4. ASSUME NEW saved \in BOOLEAN, Crash(saved)
      PROVE  SourcesInHand' /\ CompletedMeansAll'
  <2>1. jobState' = "completed" => jobState = "completed"
    BY <1>4 DEF Crash
  <2> QED  BY <1>4, <2>1 DEF Crash
<1>5. ASSUME NEW s \in Sources, NextSource(s)
      PROVE  SourcesInHand' /\ CompletedMeansAll'
  BY <1>5 DEF NextSource
<1>6. CASE Prepare
  BY <1>6 DEF Prepare, PrepareTables
<1>7. CASE GiveUp /\ UNCHANGED <<jobState, rows>>
  BY <1>7 DEF GiveUp
<1>8. ASSUME NEW found \in SUBSET Sources, DiscoverFails(found)
      PROVE  SourcesInHand' /\ CompletedMeansAll'
  BY <1>8 DEF DiscoverFails, GiveUp
<1>9. CASE NoMoreSources
  BY <1>9 DEF NoMoreSources
<1>10. CASE /\ UNCHANGED <<jobState, rows, left, source>>
            /\ pc \in {"fetch", "save", "mark"} /\ pc' \in {"fetch", "save", "mark"}
  BY <1>10
<1>11. CASE /\ UNCHANGED <<jobState, rows>>
            /\ pc' \in {"idle", "prepare", "report"}
  BY <1>11
<1>12. CASE UNCHANGED <<jobState, rows, left, source, pc, failed>>
  BY <1>12
<1> HIDE DEF SourcesInHand, CompletedMeansAll, IsOpen
<1> QED
  BY <1>1, <1>2, <1>3, <1>4, <1>5, <1>6, <1>7, <1>8, <1>9, <1>10, <1>11, <1>12
  DEF Next, RunStep, vars, Start, Stop, CancelContext, PrepareFails, Fetch, FetchPage,
      FetchFails, PageFails, SaveRelease, MarkItem, MarkAs, SaveFails, Report, ReportAs,
      Publish, ScanAdds

(* A backfill that is stored as completed has no open source, also when a  *)
(* later run resumes it and the process stops before that run is over.     *)
THEOREM CompletedIsWhole == Spec => []CompletedMeansAll
<1>1. Init => SourcesInHand /\ CompletedMeansAll
  BY Zenon DEF Init, SourcesInHand, CompletedMeansAll
<1> QED  BY <1>1, BackfillTyping, SourcesStep, PTL DEF Spec

(***************************************************************************)
(* The state that is shown and the one that is stored.                     *)
(***************************************************************************)

(* A run is shown as long as there is one; and what it is about to show as *)
(* its outcome is what it has saved, if it could.                          *)
ShownIsStored ==
  /\ status.running <=> pc # "idle"
  /\ pc = "report" => unsaved \/ jobState = final
  /\ AgreeWhenOver

LEMMA ShownStep ==
  ASSUME TypeOK, [Next]_vars, ShownIsStored
  PROVE  ShownIsStored'
<1> USE DEF libraryVars, storeVars, pageVars, runVars, stopVars, boundVars,
            ShownIsStored, AgreeWhenOver
<1>1. /\ status = [running |-> status.running, state |-> status.state,
                  resume |-> status.resume]
      /\ status.running \in BOOLEAN
  BY StatusType DEF TypeOK, Statuses
<1>2. ASSUME NEW resume \in BOOLEAN, Start(resume)  PROVE ShownIsStored'
  BY <1>2 DEF Start, Status
<1>3. CASE Stop
  BY <1>1, <1>3 DEF Stop
<1>4. CASE Prepare
  BY <1>4 DEF Prepare, PrepareTables
<1>5. ASSUME NEW s \in Sources, NextSource(s)  PROVE ShownIsStored'
  BY <1>1, <1>5 DEF NextSource
<1>6. ASSUME NEW saved \in BOOLEAN, SaveState(saved)  PROVE ShownIsStored'
  BY <1>6 DEF SaveState
<1>7. CASE Report
  BY <1>1, <1>7 DEF Report, ReportAs
<1>8. ASSUME NEW saved \in BOOLEAN, Crash(saved)  PROVE ShownIsStored'
  BY <1>8 DEF Crash, Status
<1>9. CASE /\ UNCHANGED <<jobState, unsaved, status>>
           /\ pc \notin {"idle", "report"} /\ pc' \notin {"idle", "report"}
  BY <1>9
<1>10. CASE UNCHANGED <<jobState, unsaved, status, final, pc>>
  BY <1>10
<1> HIDE DEF ShownIsStored
<1> QED
  BY <1>2, <1>3, <1>4, <1>5, <1>6, <1>7, <1>8, <1>9, <1>10
  DEF Next, RunStep, vars, CancelContext, PrepareFails, Discover, DiscoverFails,
      NoMoreSources, Fetch, FetchPage, FetchFails, PageFails, SaveRelease, MarkItem,
      MarkAs, SaveSource, SaveRow, SaveFails, GiveUp, Publish, ScanAdds

(* What the page shows of the last run is what a restart will show of it,  *)
(* unless that could not be saved, also after a Stop that came while the   *)
(* run was about to end.                                                   *)
THEOREM ShownStateIsStored == Spec => []AgreeWhenOver
<1>1. Init => ShownIsStored
  BY DEF Init, ShownIsStored, AgreeWhenOver, Status
<1>2. ShownIsStored => AgreeWhenOver
  BY DEF ShownIsStored
<1> QED  BY <1>1, <1>2, BackfillTyping, ShownStep, PTL DEF Spec
=============================================================================
