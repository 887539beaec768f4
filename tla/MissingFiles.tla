---------------------------- MODULE MissingFiles ----------------------------
(***************************************************************************)
(* internal/stash/missing.go and internal/store/stash_missing.go: the list *)
(* of StashApp's scenes whose file is gone from disk.  A scan brings the   *)
(* list up to date; a retrieval scrapes the releases it lacks; an          *)
(* application monitors, and looks for, the releases it links; a request   *)
(* empties it.  All four may run at the same time, each at most once but   *)
(* for the last.                                                           *)
(*                                                                         *)
(* A row is known by its id; a deleted row's id may be given out again, as *)
(* SQLite does with the highest.  A scene's code is the release it shows;  *)
(* what the scan writes of StashApp's texts and counters is left out.  A   *)
(* time is the number of the scan it falls into.                           *)
(***************************************************************************)
EXTENDS Integers, FiniteSets, FiniteSetsExt

CONSTANTS
  Videos,          \* StashApp's scenes, each of a release of its own
  Addressed,       \* those with a JavLibrary address
  MaxScans,        \* bound: scans, clears and runs that are started
  MaxMoves,        \* bound: files and scenes that come and go
  MaxMissFaults    \* bound: failed requests and statements, and crashes

ASSUME MissingAssumption ==
  /\ IsFiniteSet(Videos) /\ Addressed \subseteq Videos
  /\ Videos \cap {"none", "off", "fetch", "releases", "check", "over"} = {}   \* a scan's steps
  /\ \A b \in {MaxScans, MaxMoves, MaxMissFaults} : b \in Nat

VARIABLES
  media,        \* the scenes StashApp has, and those with a file on disk
  rows,         \* stash_missing_scenes: a function from ids
  library,      \* releases: known, monitored for download, in download
  scan,         \* StartMissingScan, runMissingScan and s.missingStatus
  retrieve,     \* StartRetrieve, runRetrieve
  apply,        \* StartApply, runApply
  clearing,     \* a ClearMissingScenes that found no scan running
  missingUsed   \* the counters behind the bounds

missingVars == <<media, rows, library, scan, retrieve, apply, clearing, missingUsed>>

None == "none"
Status == {"", "missing", "retrieving", "retrieve_failed"}
Row(scene, k) == [scene |-> scene, rel |-> None, status |-> "missing", scanned |-> k]
NextId == Max({0} \cup DOMAIN rows) + 1
IdsOf(scene) == {id \in DOMAIN rows : rows[id].scene = scene}

\* What a scan knows; "seen" and "written" are history: the scenes it found
\* missing, and whether a failed statement or a clear took some from the list.
NoScan == [running |-> FALSE, pc |-> "off", k |-> 0, todo |-> {}, known |-> {}, seen |-> {}, written |-> TRUE]
NoRun == [running |-> FALSE, pc |-> "off", todo |-> {}, id |-> 0, scene |-> None, mode |-> None]

MissingInit ==
  /\ media = [stash |-> Videos, disk |-> {}] /\ rows = <<>>
  /\ library \in [known : {{}, Videos \ Addressed}, monitored : {{}}, wanted : {{}}]
  /\ scan = NoScan /\ retrieve = NoRun /\ apply = NoRun /\ clearing = FALSE
  /\ missingUsed = [scans |-> 0, moves |-> 0, faults |-> 0]

Use(field, bound) == missingUsed[field] < bound /\ missingUsed' = [missingUsed EXCEPT ![field] = @ + 1]
Fault == Use("faults", MaxMissFaults)

-----------------------------------------------------------------------------
(* The world: files come and go, scenes are deleted, releases scraped.     *)

FileMoves(scene) ==
  /\ Use("moves", MaxMoves)
  /\ \/ media' = [media EXCEPT !.disk = IF scene \in @ THEN @ \ {scene} ELSE @ \cup {scene}]
     \/ media' = [media EXCEPT !.stash = @ \ {scene}]
  /\ UNCHANGED <<rows, library, scan, retrieve, apply, clearing>>

-----------------------------------------------------------------------------
(* The scan.                                                               *)

StartMissingScan ==
  /\ ~scan.running /\ Use("scans", MaxScans)
  /\ scan' = [NoScan EXCEPT !.running = TRUE, !.pc = "fetch", !.k = missingUsed.scans + 1]
  /\ UNCHANGED <<media, rows, library, retrieve, apply, clearing>>

\* Settings, StashApp or the releases could not be read: nothing is written.
ScanFails ==
  /\ scan.pc \in {"fetch", "releases"} /\ Fault
  /\ scan' = NoScan
  /\ UNCHANGED <<media, rows, library, retrieve, apply, clearing>>

FetchCandidates ==
  /\ scan.pc = "fetch"
  /\ scan' = [scan EXCEPT !.pc = "releases", !.todo = media.stash]
  /\ UNCHANGED <<media, rows, library, retrieve, apply, clearing, missingUsed>>

ReleasesByCanonicalVideoID ==
  /\ scan.pc = "releases"
  /\ scan' = [scan EXCEPT !.pc = "check", !.known = library.known]
  /\ UNCHANGED <<media, rows, library, retrieve, apply, clearing, missingUsed>>

\* A file found, on any of its paths: the scene is passed over.
FileExists(scene) ==
  /\ scan.pc = "check" /\ scene \in scan.todo /\ scene \in media.disk
  /\ scan' = [scan EXCEPT !.todo = @ \ {scene}]
  /\ UNCHANGED <<media, rows, library, retrieve, apply, clearing, missingUsed>>

\* Mutant. A row that is there keeps the time of its last scan.
UpsertedRowKeepingTime(scene, k) ==
  IF IdsOf(scene) # {} THEN rows ELSE [id \in DOMAIN rows \cup {NextId} |-> IF id = NextId THEN Row(scene, k) ELSE rows[id]]

\* UpsertStashMissingScene refreshes a row, but for what the recovery wrote.
UpsertedRow(scene, k) ==
  IF IdsOf(scene) # {}
  THEN [id \in DOMAIN rows |-> IF id \in IdsOf(scene) THEN [rows[id] EXCEPT !.scanned = k] ELSE rows[id]]
  ELSE [id \in DOMAIN rows \cup {NextId} |-> IF id = NextId THEN Row(scene, k) ELSE rows[id]]

\* No file, a check that took too long included.
RecordMissing(scene) ==
  /\ scan.pc = "check" /\ scene \in scan.todo
  /\ \/ scene \notin media.disk /\ UNCHANGED missingUsed
     \/ scene \in media.disk /\ Fault
  /\ rows' = UpsertedRow(scene, scan.k)
  /\ scan' = [scan EXCEPT !.seen = @ \cup {scene}, !.todo = @ \ {scene}, !.pc = IF scene \in scan.known THEN scene ELSE @]
  /\ UNCHANGED <<media, library, retrieve, apply, clearing>>

RecordFails(scene) ==
  /\ scan.pc = "check" /\ scene \in scan.todo /\ scene \notin media.disk /\ Fault
  /\ scan' = [scan EXCEPT !.seen = @ \cup {scene}, !.todo = @ \ {scene}, !.written = FALSE]
  /\ UNCHANGED <<media, rows, library, retrieve, apply, clearing>>

\* LinkStashMissingRelease: by id, whatever row has it now, or none.
Linked(ids, scene) ==
  [id \in DOMAIN rows |-> IF id \in ids THEN [rows[id] EXCEPT !.rel = scene, !.status = ""] ELSE rows[id]]

LinkMatch ==
  /\ scan.pc \in Videos
  /\ \/ rows' = Linked(IdsOf(scan.pc), scan.pc) /\ scan' = [scan EXCEPT !.pc = "check"] /\ UNCHANGED missingUsed
     \/ rows' = rows /\ scan' = [scan EXCEPT !.pc = "check", !.written = FALSE] /\ Fault
  /\ UNCHANGED <<media, library, retrieve, apply, clearing>>

\* PruneStashMissingScenes: the rows this scan did not write.
Prune ==
  /\ scan.pc = "check" /\ scan.todo = {}
  /\ LET kept == {id \in DOMAIN rows : rows[id].scanned >= scan.k} IN rows' = [id \in kept |-> rows[id]]
  /\ scan' = [scan EXCEPT !.pc = "over"]
  /\ UNCHANGED <<media, library, retrieve, apply, clearing, missingUsed>>

ScanEnds ==
  /\ scan.pc = "over" /\ scan' = NoScan
  /\ UNCHANGED <<media, rows, library, retrieve, apply, clearing, missingUsed>>

\* ClearMissingScenes looks at the status, and then deletes.
ClearChecks ==
  /\ ~clearing /\ ~scan.running /\ Use("scans", MaxScans) /\ clearing' = TRUE
  /\ UNCHANGED <<media, rows, library, scan, retrieve, apply>>
ClearDeletes ==
  /\ clearing /\ clearing' = FALSE /\ rows' = <<>>
  /\ scan' = [scan EXCEPT !.written = FALSE]
  /\ UNCHANGED <<media, library, retrieve, apply, missingUsed>>

-----------------------------------------------------------------------------
(* Retrieval.                                                              *)

WithStatus(ids, status) ==
  [id \in DOMAIN rows |-> IF id \in ids THEN [rows[id] EXCEPT !.status = status] ELSE rows[id]]

StartRetrieve(ids) ==
  /\ ~retrieve.running /\ Use("scans", MaxScans)
  /\ retrieve' = [NoRun EXCEPT !.running = TRUE, !.pc = "next", !.todo = ids]
  /\ UNCHANGED <<media, rows, library, scan, apply, clearing>>

\* A row that is gone, and one that is linked by now, need nothing.
RetrieveNext(id) ==
  /\ retrieve.pc = "next" /\ id \in retrieve.todo
  /\ LET todo == retrieve.todo \ {id}
         row == rows[id] IN
     IF id \notin DOMAIN rows \/ (id \in DOMAIN rows /\ row.rel # None)
     THEN rows' = rows /\ retrieve' = [retrieve EXCEPT !.todo = todo]
     ELSE IF row.scene \notin Addressed
     THEN rows' = WithStatus({id}, "retrieve_failed") /\ retrieve' = [retrieve EXCEPT !.todo = todo]
     ELSE rows' = WithStatus({id}, "retrieving")
          /\ retrieve' = [retrieve EXCEPT !.todo = todo, !.pc = "scrape", !.id = id, !.scene = row.scene]
  /\ UNCHANGED <<media, library, scan, apply, clearing, missingUsed>>

\* AddByURL, the recovery site and UpsertRelease, or one of them failing.
Scrape ==
  /\ retrieve.pc = "scrape"
  /\ \/ /\ library' = [library EXCEPT !.known = @ \cup {retrieve.scene}]
        /\ retrieve' = [retrieve EXCEPT !.pc = "link"] /\ UNCHANGED <<rows, missingUsed>>
     \/ /\ Fault /\ rows' = WithStatus({retrieve.id}, "retrieve_failed")
        /\ retrieve' = [retrieve EXCEPT !.pc = "next", !.id = 0, !.scene = None] /\ UNCHANGED library
  /\ UNCHANGED <<media, scan, apply, clearing>>

LinkRetrieved ==
  /\ retrieve.pc = "link"
  /\ \/ rows' = Linked({retrieve.id}, retrieve.scene) /\ UNCHANGED missingUsed
     \/ rows' = WithStatus({retrieve.id}, "retrieve_failed") /\ Fault
     \/ rows' = rows /\ Fault
  /\ retrieve' = [retrieve EXCEPT !.pc = "next", !.id = 0, !.scene = None]
  /\ UNCHANGED <<media, library, scan, apply, clearing>>

RetrieveEnds ==
  /\ retrieve.pc = "next" /\ retrieve.todo = {} /\ retrieve' = NoRun
  /\ UNCHANGED <<media, rows, library, scan, apply, clearing, missingUsed>>

-----------------------------------------------------------------------------
(* Application.                                                            *)

StartApply(ids, mode) ==
  /\ ~apply.running /\ Use("scans", MaxScans)
  /\ apply' = [NoRun EXCEPT !.running = TRUE, !.pc = "next", !.todo = ids, !.mode = mode]
  /\ UNCHANGED <<media, rows, library, scan, retrieve, clearing>>

ApplyNext(id) ==
  /\ apply.pc = "next" /\ id \in apply.todo
  /\ IF id \in DOMAIN rows /\ rows[id].rel # None
     THEN apply' = [apply EXCEPT !.todo = @ \ {id}, !.pc = "monitor", !.scene = rows[id].rel]
     ELSE apply' = [apply EXCEPT !.todo = @ \ {id}]
  /\ UNCHANGED <<media, rows, library, scan, retrieve, clearing, missingUsed>>

\* PatchRelease monitors the release and lets it be downloaded though it is
\* linked to a scene; the search of "monitor_download" follows.
Monitor ==
  /\ apply.pc = "monitor"
  /\ \/ /\ library' = [library EXCEPT !.monitored = @ \cup {apply.scene}] /\ UNCHANGED missingUsed
        /\ apply' = IF apply.mode = "monitor_download" THEN [apply EXCEPT !.pc = "search"] ELSE [apply EXCEPT !.pc = "next", !.scene = None]
     \/ Fault /\ UNCHANGED library /\ apply' = [apply EXCEPT !.pc = "next", !.scene = None]
  /\ UNCHANGED <<media, rows, scan, retrieve, clearing>>

SearchAndDownload ==
  /\ apply.pc = "search"
  /\ library' \in {library, [library EXCEPT !.wanted = @ \cup {apply.scene}]}
  /\ apply' = [apply EXCEPT !.pc = "next", !.scene = None]
  /\ UNCHANGED <<media, rows, scan, retrieve, clearing, missingUsed>>

ApplyEnds ==
  /\ apply.pc = "next" /\ apply.todo = {} /\ apply' = NoRun
  /\ UNCHANGED <<media, rows, library, scan, retrieve, clearing, missingUsed>>

\* The runs are gone with the process; the rows stay as they were.
MissingRestart ==
  /\ scan.running \/ retrieve.running \/ apply.running \/ clearing
  /\ Fault /\ scan' = NoScan /\ retrieve' = NoRun /\ apply' = NoRun /\ clearing' = FALSE
  /\ UNCHANGED <<media, rows, library>>

-----------------------------------------------------------------------------
Selections == {S \in SUBSET DOMAIN rows : S # {}}

MissingNext ==
  \/ \E scene \in Videos : FileMoves(scene) \/ FileExists(scene) \/ RecordMissing(scene) \/ RecordFails(scene)
  \/ StartMissingScan \/ ScanFails \/ FetchCandidates \/ ReleasesByCanonicalVideoID \/ LinkMatch \/ Prune \/ ScanEnds
  \/ ClearChecks \/ ClearDeletes \/ MissingRestart
  \/ \E ids \in Selections : StartRetrieve(ids) \/ \E mode \in {"monitor_only", "monitor_download"} : StartApply(ids, mode)
  \/ (\E id \in retrieve.todo : RetrieveNext(id)) \/ Scrape \/ LinkRetrieved \/ RetrieveEnds
  \/ (\E id \in apply.todo : ApplyNext(id)) \/ Monitor \/ SearchAndDownload \/ ApplyEnds

MissingSpec == MissingInit /\ [][MissingNext]_missingVars

-----------------------------------------------------------------------------
(* Properties.                                                             *)

\* Whatever retrievals, applications, crashes and earlier scans did meanwhile,
\* the list a completed scan leaves has no scene but those it found missing,
\* each once; and it has all of them, linked if their release was known,
\* unless a statement failed or a clear that had looked before the scan
\* started deleted behind its back.
ScanIsExact ==
  scan.pc = "over" =>
    /\ \A id \in DOMAIN rows : rows[id].scene \in scan.seen /\ IdsOf(rows[id].scene) = {id}
    /\ scan.written => \A scene \in scan.seen : \E id \in IdsOf(scene) : scene \in scan.known => rows[id].rel # None
=============================================================================
