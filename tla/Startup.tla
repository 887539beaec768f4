------------------------------ MODULE Startup ------------------------------
(***************************************************************************)
(* internal/app (app.go, recovery.go, startup_progress.go), the migrations *)
(* of internal/store that run when a database is opened, the version       *)
(* tracking of internal/version and the first user of internal/auth: how   *)
(* the process comes up, on SQLite or on PostgreSQL, on a new database or  *)
(* on one an older version wrote.                                          *)
(*                                                                         *)
(* Atomicity.  A statement of a migration, or a migration that runs in one *)
(* transaction, is one action; the process may die, and an attempt to open *)
(* the database may fail, between any two.                                 *)
(* Data.  The database is what the migrations carry over: which of the     *)
(* rows of one release are marked, the download and the missing scene that *)
(* refer to them, the site's automatic mode, the notifications, the names  *)
(* of the cast in the old column and in the table that replaces it.        *)
(***************************************************************************)
EXTENDS Integers, Sequences, FiniteSets

CONSTANTS
  Twins,        \* rows of one release, from before identities were unique
  GigaRow,      \* a row of JavLibrary for a release of GIGA's own site
  MaxVersion,   \* bound: the versions of the program are 1..MaxVersion
  MaxEdits,     \* bound: what the user changes
  MaxDeaths,    \* bound: crashes, stops and failures to build the services
  MaxOutages    \* bound: times PostgreSQL goes away, and statements that fail

ASSUME StartupAssumption ==
  /\ Twins \subseteq Nat \ {0} /\ IsFiniteSet(Twins) /\ Twins # {}
  /\ GigaRow \in Nat \ {0} /\ GigaRow \notin Twins
  /\ \A b \in {MaxVersion, MaxEdits, MaxDeaths, MaxOutages} : b \in Nat

VARIABLES
  engine,   \* JAVBEACON_DB_ENGINE
  db,       \* what the database holds
  boot,     \* where the process is: pc, the next step of the migration,
            \* what it read, and who listens on the application's address
  retryNow, \* a place of the channel a click on "Retry now" fills
  reach,    \* PostgreSQL answers
  version,  \* the version of the program that is installed
  used,     \* the counters behind the bounds
  wish      \* history: what the user last asked for

bootVars == <<engine, db, boot, retryNow, reach, version, used, wish>>

Flags == {"redesign", "text", "identity", "normalized", "giga", "notes", "prefs"}
Pcs == {"down", "open", "failed", "recovery", "track", "seed", "key", "user", "listen", "running"}
Pages == {"none", "progress", "recovery", "app"}

\* The settings table has no row: what finishStartup takes for a first start.
NoSettings(d) == d.flags = {} /\ d.installed = 0 /\ ~d.key

BootTypeOK ==
  /\ engine \in {"sqlite", "postgres"} /\ version \in 1..MaxVersion /\ retryNow \in BOOLEAN /\ reach \in BOOLEAN
  /\ db.flags \subseteq Flags /\ db.rows \subseteq Twins \cup {GigaRow}
  /\ db.marks \cup db.oldMarks \cup db.local \cup db.scene \cup db.notes \cup db.people \cup db.legacy \subseteq db.rows
  /\ {db.owner, db.link} \subseteq db.rows \cup {0}
  /\ boot.pc \in Pcs /\ boot.page \in Pages /\ boot.at \in 1..16

-----------------------------------------------------------------------------
(* What an attempt to open the database does, a step at a time.            *)

SqliteSteps == <<"schema", "copy", "drop", "presets", "redesign", "text", "metadata", "identity", "columns", "normalized",
                 "giga", "notes", "repair", "prefs", "prefsFlag">>
PostgresSteps == <<"connect", "schema", "copy", "drop", "redesign", "text", "metadata", "identity", "columns", "normalized",
                   "giga", "notes", "repair", "prefs", "prefsFlag">>
Steps == IF engine = "sqlite" THEN SqliteSteps ELSE PostgresSteps

\* Tables and columns are created if they are not there.
AddSchema(d) == {[d EXCEPT !.schema = TRUE]}

\* removeReleasedStartDates, of SQLite alone.
Presets(d) == {[d EXCEPT !.anchored = FALSE]}

\* migrateWatchlistNaming copies the marks under their retired name, and only
\* then drops the columns and the table that held them.
CopyMarks(d) == IF d.retired THEN {[d EXCEPT !.marks = @ \cup d.oldMarks]} ELSE {d}
DropRetired(d) == {[d EXCEPT !.retired = FALSE, !.oldMarks = {}]}

\* Migrations that run once: what they change and the setting that says so
\* are committed together.
Once(flag, d, results) == IF flag \in d.flags THEN {d} ELSE {[e EXCEPT !.flags = @ \cup {flag}] : e \in results}

SiteMonitoringRedesign(d) ==
  Once("redesign", d, {[d EXCEPT !.auto = @ \/ d.future, !.future = FALSE]})

\* The names of the cast: cleaned once, copied to their table, and their old
\* column dropped if every row that has names there has them in the table.
CleanupText(d) == Once("text", d, {[d EXCEPT !.people = @ \cup d.legacy]})
ReleaseMetadata(d) == {[d EXCEPT !.people = @ \cup d.legacy]}
DropLegacyColumns(d) == IF d.legacy \subseteq d.people THEN {[d EXCEPT !.legacy = {}]} ELSE {}
NormalizedFlag(d) == {[d EXCEPT !.flags = @ \cup {"normalized"}]}

\* Of the rows of one release one is kept, with what the others knew.
Moved(S, keep) == (S \ Twins) \cup (IF S \cap Twins # {} THEN {keep} ELSE {})
Merged(d, keep) ==
  [d EXCEPT !.rows = Moved(@, keep), !.marks = Moved(@, keep), !.local = Moved(@, keep), !.scene = Moved(@, keep),
            !.notes = Moved(@, keep), !.people = Moved(@, keep), !.legacy = @ \ (Twins \ {keep}), !.owner = IF @ \in Twins THEN keep ELSE @]
ReleaseIdentity(d) ==
  Once("identity", d, IF d.rows \cap Twins = {} THEN {d} ELSE {Merged(d, keep) : keep \in d.rows \cap Twins})

RemoveGigaReleases(d) ==
  LET gone == {GigaRow} IN
  Once("giga", d, {[d EXCEPT !.link = IF @ \in gone THEN 0 ELSE @, !.owner = IF @ \in gone THEN 0 ELSE @,
                             !.rows = @ \ gone, !.marks = @ \ gone, !.local = @ \ gone, !.scene = @ \ gone, !.notes = @ \ gone,
                             !.people = @ \ gone]})

\* Mutant. The notifications are added by every start.
NotificationsEachStart(d) == {[d EXCEPT !.notes = @ \cup d.local, !.flags = @ \cup {"notes"}]}

LocalAvailableNotifications(d) == Once("notes", d, {[d EXCEPT !.notes = @ \cup d.local]})

RepairLocal(d) == {[d EXCEPT !.local = @ \cap d.scene]}

\* initializeReleasePreferences: the updates, then the setting.
MaterializePreferences(d) == IF "prefs" \in d.flags THEN {d} ELSE {[d EXCEPT !.hidden = d.ignored]}
PreferencesFlag(d) == {[d EXCEPT !.flags = @ \cup {"prefs"}]}

After(step, d) ==
  CASE step = "schema" -> AddSchema(d)
    [] step = "presets" -> Presets(d)
    [] step = "copy" -> CopyMarks(d)
    [] step = "drop" -> DropRetired(d)
    [] step = "redesign" -> SiteMonitoringRedesign(d)
    [] step = "text" -> CleanupText(d)
    [] step = "metadata" -> ReleaseMetadata(d)
    [] step = "columns" -> DropLegacyColumns(d)
    [] step = "normalized" -> NormalizedFlag(d)
    [] step = "identity" -> ReleaseIdentity(d)
    [] step = "giga" -> RemoveGigaReleases(d)
    [] step = "notes" -> LocalAvailableNotifications(d)
    [] step = "repair" -> RepairLocal(d)
    [] step = "prefs" -> MaterializePreferences(d)
    [] step = "prefsFlag" -> PreferencesFlag(d)
    [] OTHER -> {d}   \* connect

-----------------------------------------------------------------------------
NewDb == [schema |-> FALSE, anchored |-> FALSE, legacy |-> {}, people |-> {}, flags |-> {}, retired |-> FALSE, oldMarks |-> {}, marks |-> {}, rows |-> {}, owner |-> 0, link |-> 0,
          local |-> {}, scene |-> {}, notes |-> {}, future |-> FALSE, auto |-> FALSE, ignored |-> FALSE,
          hidden |-> FALSE, seeded |-> FALSE, setting |-> "none", installed |-> 0, pending |-> <<0, 0>>, key |-> FALSE, user |-> "none"]

\* A database from before the one-off migrations, and one from after all but
\* the last of them.
FirstDb(old) ==
  [NewDb EXCEPT !.retired = TRUE, !.rows = Twins, !.oldMarks = old.marked, !.local = old.local, !.scene = old.local,
                !.owner = old.owner, !.future = old.future, !.anchored = TRUE, !.legacy = Twins, !.user = "own", !.seeded = TRUE]
FirstDbs == {FirstDb(old) : old \in [marked : {{}} \cup {{r} : r \in Twins}, local : {{}, Twins}, owner : Twins, future : BOOLEAN]}
LaterDbs == {[NewDb EXCEPT !.schema = TRUE, !.flags = Flags \ {"giga"}, !.people = {r, GigaRow}, !.rows = {r, GigaRow}, !.marks = {r}, !.owner = r,
                           !.link = GigaRow, !.key = TRUE, !.user = "own", !.seeded = TRUE]
               : r \in Twins}

Down == [pc |-> "down", at |-> 1, fresh |-> FALSE, empty |-> FALSE, page |-> "none", saving |-> FALSE, shown |-> <<0, 0>>]

BootInit ==
  /\ engine \in {"sqlite", "postgres"}
  /\ db \in {NewDb} \cup FirstDbs \cup LaterDbs
  /\ boot = Down /\ retryNow = FALSE /\ reach \in BOOLEAN /\ version = 1
  /\ used = [edits |-> 0, deaths |-> 0, outages |-> 0]
  /\ wish = [mark |-> db.marks \cup db.oldMarks # {},
             auto |-> db.auto \/ db.future, people |-> db.legacy \cup db.people # {}, setting |-> FALSE, cleared |-> FALSE, owned |-> db.owner # 0]

-----------------------------------------------------------------------------
(* The environment: PostgreSQL, the operator and the supervisor.           *)

Outage ==
  /\ engine = "postgres" /\ reach /\ used.outages < MaxOutages
  /\ reach' = FALSE /\ used' = [used EXCEPT !.outages = @ + 1]
  /\ UNCHANGED <<engine, db, boot, retryNow, version, wish>>

Answers ==
  /\ ~reach /\ reach' = TRUE
  /\ UNCHANGED <<engine, db, boot, retryNow, version, used, wish>>

Start ==
  /\ boot.pc = "down"
  /\ boot' = [Down EXCEPT !.pc = "open", !.page = "progress"]   \* serveStartupMigrationProgress
  /\ UNCHANGED <<engine, db, retryNow, reach, version, used, wish>>

\* A crash, a stop, or covers.New, screenshots.New or the address failing.
Dies ==
  /\ boot.pc # "down" /\ used.deaths < MaxDeaths
  /\ boot' = Down /\ retryNow' = FALSE /\ used' = [used EXCEPT !.deaths = @ + 1]
  /\ UNCHANGED <<engine, db, reach, version, wish>>

\* Another version of the program is installed: an upgrade or a downgrade.
Install(v) ==
  /\ boot.pc = "down" /\ v # version /\ used.edits < MaxEdits
  /\ version' = v /\ used' = [used EXCEPT !.edits = @ + 1]
  /\ UNCHANGED <<engine, db, boot, retryNow, reach, wish>>

-----------------------------------------------------------------------------
(* Opening the database: New, then awaitRecovery.                          *)

MigrationStep ==
  /\ boot.pc = "open" /\ boot.at <= Len(Steps)
  /\ engine = "sqlite" \/ reach
  /\ db' \in After(Steps[boot.at], db)
  /\ boot' = [boot EXCEPT !.at = @ + 1]
  /\ UNCHANGED <<engine, retryNow, reach, version, used, wish>>

\* The statement fails and what it did, or its transaction, is undone.
StepFails ==
  /\ boot.pc = "open" /\ boot.at <= Len(Steps)
  /\ \/ engine = "postgres" /\ ~reach /\ UNCHANGED used
     \/ After(Steps[boot.at], db) = {} /\ UNCHANGED used
     \/ used.outages < MaxOutages /\ used' = [used EXCEPT !.outages = @ + 1]
  /\ boot' = IF engine = "sqlite" THEN Down ELSE [boot EXCEPT !.pc = "failed"]
  /\ UNCHANGED <<engine, db, retryNow, reach, version, wish>>

Opened ==
  /\ boot.pc = "open" /\ boot.at > Len(Steps)
  /\ boot' = [boot EXCEPT !.pc = "track", !.at = 1]
  /\ UNCHANGED <<engine, db, retryNow, reach, version, used, wish>>

\* openStoreWithGrace tries again while its window lasts.
GraceRetry ==
  /\ boot.pc = "failed" /\ boot.page = "progress"
  /\ boot' = [boot EXCEPT !.pc = "open", !.at = 1]
  /\ UNCHANGED <<engine, db, retryNow, reach, version, used, wish>>

\* The window is over: New returns an App with no store and Run waits in
\* awaitRecovery.  An attempt that failed there goes back to waiting.
EnterRecovery ==
  /\ boot.pc = "failed"
  /\ boot' = [boot EXCEPT !.pc = "recovery", !.at = 1, !.page = "recovery"]
  /\ UNCHANGED <<engine, db, retryNow, reach, version, used, wish>>

RequestRetry ==
  /\ boot.page = "recovery" /\ ~retryNow /\ retryNow' = TRUE
  /\ UNCHANGED <<engine, db, boot, reach, version, used, wish>>

\* The loop's select: the ticker's ten seconds, or a click that waits.
Ticked == UNCHANGED retryNow
Clicked == retryNow /\ retryNow' = FALSE
\* Mutant. Recovery waits for a click.
ClickOnly == Clicked

RecoveryWakes == Ticked \/ Clicked
RecoveryAttempt ==
  /\ boot.pc = "recovery"
  /\ boot' = [boot EXCEPT !.pc = "open", !.at = 1]
  /\ RecoveryWakes
  /\ UNCHANGED <<engine, db, reach, version, used, wish>>

-----------------------------------------------------------------------------
(* finishStartup.                                                          *)

\* Mutant. A transition that ends nowhere leaves the one before it.
TrackedKeeping(d, fresh) ==
  IF d.installed = version THEN d
  ELSE [d EXCEPT !.installed = version,
                 !.pending = IF d.installed # 0 /\ d.installed < version THEN <<d.installed, version>> ELSE @]

\* InitializeTracking of the version that runs: the baseline of a new
\* installation, or the transition whose notes the user has yet to see.
Tracked(d, fresh) ==
  IF d.installed = version THEN d
  ELSE LET from == IF d.installed = 0 THEN version - 1 ELSE d.installed
           to == IF from < version /\ from > 0 THEN <<from, version>> ELSE <<0, 0>>
       IN [d EXCEPT !.installed = version,
                    !.pending = IF d.installed = 0 /\ (fresh \/ from = 0) THEN @ ELSE to]

\* The settings are read, and the user looked for, before the version is saved.
Track ==
  /\ boot.pc = "track"
  /\ LET fresh == db.user = "none" IN
     /\ boot' = [boot EXCEPT !.pc = "seed", !.fresh = fresh, !.empty = NoSettings(db)]
     /\ db' = Tracked(db, fresh)
  /\ UNCHANGED <<engine, retryNow, reach, version, used, wish>>

\* The defaults of a first start, and those of the settings without a value,
\* which every start completes.
SeedSettings ==
  /\ boot.pc = "seed"
  /\ db' = [db EXCEPT !.seeded = @ \/ boot.empty, !.setting = IF @ = "none" THEN "default" ELSE @]
  /\ boot' = [boot EXCEPT !.pc = "key"]
  /\ UNCHANGED <<engine, retryNow, reach, version, used, wish>>

ResolveApiKey ==
  /\ boot.pc = "key"
  /\ db' = [db EXCEPT !.key = TRUE]
  /\ boot' = [boot EXCEPT !.pc = "user"]
  /\ UNCHANGED <<engine, retryNow, reach, version, used, wish>>

\* EnsureUser, to which a user it could not read is a user that is not there;
\* then New, or awaitRecovery, returns and its page is shut down.
EnsureUser ==
  /\ boot.pc = "user"
  /\ \/ db.user # "none" /\ UNCHANGED <<db, used>>
     \/ db.user = "none" /\ db' = [db EXCEPT !.user = "initial"] /\ UNCHANGED used
     \/ used.outages < MaxOutages /\ db' = [db EXCEPT !.user = "initial"] /\ used' = [used EXCEPT !.outages = @ + 1]
  /\ boot' = [boot EXCEPT !.pc = "listen", !.page = "none"]
  /\ UNCHANGED <<engine, retryNow, reach, version, wish>>

\* Run: the schedules and the server start.
Listen ==
  /\ boot.pc = "listen"
  /\ boot' = [boot EXCEPT !.pc = "running", !.page = "app"]
  /\ retryNow' = FALSE
  /\ UNCHANGED <<engine, db, reach, version, used, wish>>

-----------------------------------------------------------------------------
(* The running application: what a user changes that a start could undo.   *)

Edit(d, w) ==
  /\ boot.pc = "running" /\ ~boot.saving /\ used.edits < MaxEdits
  /\ engine = "sqlite" \/ reach
  /\ db' = d /\ wish' = w /\ used' = [used EXCEPT !.edits = @ + 1]
  /\ UNCHANGED <<engine, boot, retryNow, reach, version>>

ToggleMark == \E r \in db.rows : Edit([db EXCEPT !.marks = (@ \ {r}) \cup ({r} \ @)], [wish EXCEPT !.mark = r \notin db.marks])
ToggleAuto == Edit([db EXCEPT !.auto = ~@], [wish EXCEPT !.auto = ~db.auto])
ChangeSetting == db.setting # "own" /\ Edit([db EXCEPT !.setting = "own"], [wish EXCEPT !.setting = TRUE])
ClearNotifications == db.notes # {} /\ Edit([db EXCEPT !.notes = {}], [wish EXCEPT !.cleared = TRUE])
ChangeCredentials == db.user = "initial" /\ Edit([db EXCEPT !.user = "own"], wish)

\* SaveSettings of the ignore lists commits them, and then refreshes what the
\* releases say of them.
SaveIgnoreLists ==
  /\ boot.pc = "running" /\ ~boot.saving /\ used.edits < MaxEdits
  /\ engine = "sqlite" \/ reach
  /\ db' = [db EXCEPT !.ignored = ~@] /\ used' = [used EXCEPT !.edits = @ + 1]
  /\ boot' = [boot EXCEPT !.saving = TRUE]
  /\ UNCHANGED <<engine, retryNow, reach, version, wish>>
RefreshPreferences ==
  /\ boot.saving
  /\ db' = IF engine = "sqlite" \/ reach THEN [db EXCEPT !.hidden = db.ignored] ELSE db
  /\ boot' = [boot EXCEPT !.saving = FALSE]
  /\ UNCHANGED <<engine, retryNow, reach, version, used, wish>>

\* The page shows the notes of a transition, and later acknowledges it: only
\* that one is cleared.
ShowChangelog ==
  /\ boot.pc = "running" /\ db.pending # <<0, 0>> /\ boot.shown # db.pending
  /\ boot' = [boot EXCEPT !.shown = db.pending]
  /\ UNCHANGED <<engine, db, retryNow, reach, version, used, wish>>
AcknowledgeChange ==
  /\ boot.pc = "running" /\ boot.shown # <<0, 0>>
  /\ engine = "sqlite" \/ reach
  /\ db' = IF db.pending = boot.shown THEN [db EXCEPT !.pending = <<0, 0>>] ELSE db
  /\ boot' = [boot EXCEPT !.shown = <<0, 0>>]
  /\ UNCHANGED <<engine, retryNow, reach, version, used, wish>>

-----------------------------------------------------------------------------
Opening == MigrationStep \/ StepFails \/ Opened \/ EnterRecovery \/ RecoveryAttempt
Finishing == Track \/ SeedSettings \/ ResolveApiKey \/ EnsureUser \/ Listen

BootNext ==
  \/ Outage \/ Answers \/ Start \/ Dies \/ \E v \in 1..MaxVersion : Install(v)
  \/ Opening \/ GraceRetry \/ RequestRetry
  \/ Finishing
  \/ ToggleMark \/ ToggleAuto \/ ChangeSetting \/ ClearNotifications \/ ChangeCredentials
  \/ SaveIgnoreLists \/ RefreshPreferences \/ ShowChangelog \/ AcknowledgeChange

\* The goroutine that starts the process goes on; the window of openStore-
\* WithGrace ends, and the ticker of awaitRecovery fires.
BootFairness == WF_bootVars(Opening) /\ WF_bootVars(EnterRecovery) /\ WF_bootVars(Finishing)

BootSpec == BootInit /\ [][BootNext]_bootVars /\ BootFairness

-----------------------------------------------------------------------------
(* Properties.                                                             *)

\* Whatever dies or fails between two statements of the migrations, and
\* however often the program is started again, a running application shows
\* what the user last asked for: the mark, under its old name or its new one;
\* the site's automatic monitoring; a setting; the cast; no notification that was cleared; and the
\* download and the missing scene refer to rows that exist.
EditsSurvive ==
  boot.pc = "running" =>
    /\ (db.marks # {}) = wish.mark
    /\ db.auto = wish.auto
    /\ wish.setting => db.setting = "own"
    /\ wish.people => db.people # {}
    /\ wish.cleared => db.notes = {}
    /\ wish.owned => db.owner \in db.rows
    /\ db.link \in db.rows \cup {0}

\* The release notes that wait to be shown end at the version that is
\* installed, whatever upgrades and downgrades the starts saw.
PendingIsCurrent ==
  db.pending # <<0, 0>> => db.pending[1] < db.pending[2] /\ db.pending[2] = db.installed

\* Once PostgreSQL answers for good, a process that waits for it does not
\* wait for ever, whether or not anyone clicks "Retry now".
Recovers == <>[]reach => []<>(boot.pc \in {"running", "down"})

=============================================================================
