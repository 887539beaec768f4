---------------------------- MODULE DbMigration ----------------------------
(***************************************************************************)
(* internal/web/migration.go and migration_transfer.go: the workflow that  *)
(* copies the SQLite database into PostgreSQL.  Its steps are requests on  *)
(* one shared state, s.migration; the transfer is a goroutine over a copy  *)
(* of the source taken when it starts.                                     *)
(*                                                                         *)
(* Atomicity.  A critical section of migrationMu, the commit of a batch    *)
(* and a query of the validation are one action each.  A request that      *)
(* reads the state, works and then writes it is two actions: others come   *)
(* between.                                                                *)
(* Data.  A row is a number; the row n of a table refers to the row n of   *)
(* the table before it, as the foreign keys do between the tables that     *)
(* migrationTables lists; the values of rows are left out.                 *)
(***************************************************************************)
EXTENDS Integers, FiniteSets, FiniteSetsExt

CONSTANTS
  Paths,             \* the SQLite files that may be selected
  Targets,           \* the PostgreSQL databases that may be named in a request
  Rows0,             \* [Paths -> [Tables -> SUBSET RowIds]]: what the files hold first
  NTables,           \* how many tables migrationTables lists, parents first
  RowIds,
  BatchSize,         \* migrationBatchSize
  Migrates,          \* the requests to migrate, each with the goroutine it starts
  MaxSourceEdits,    \* bound: rows the running application adds or deletes
  MaxTransferErrors, \* bound: reads and writes that fail
  MaxSelections      \* bound: selections and validations of a source

Tables == 1..NTables

ASSUME DbMigrationAssumption ==
  /\ IsFiniteSet(Paths) /\ IsFiniteSet(Targets) /\ IsFiniteSet(Migrates)
  /\ NTables \in Nat \ {0} /\ RowIds \subseteq Nat /\ IsFiniteSet(RowIds) /\ BatchSize \in Nat \ {0}
  /\ Rows0 \in [Paths -> [Tables -> SUBSET RowIds]]
  /\ \A b \in {MaxSourceEdits, MaxTransferErrors, MaxSelections} : b \in Nat

VARIABLES
  sqlite,    \* sqlite[p]: the rows of the SQLite file p
  target,    \* target[d]: the rows of the PostgreSQL database d
  sequence,  \* sequence[d][t]: the last number its sequence gave out
  migration, \* s.migration
  check,     \* the validation of a source that is under way, or {}
  mig,       \* mig[m]: where the request m and its transfer are
  effort,    \* the counters behind the bounds
  overlap,   \* history: the transfers that ran beside another
  lost       \* history: rows deleted from a file after a copy was taken

dbVars == <<sqlite, target, sequence>>
migVars == <<dbVars, migration, check, mig, effort, overlap, lost>>

Empty == [t \in Tables |-> {}]
NoWorkflow == [path |-> {}, validated |-> FALSE, prepared |-> FALSE, running |-> FALSE,
               completed |-> FALSE, activated |-> FALSE]
NoMig == [pc |-> "idle", path |-> {}, to |-> {}, copy |-> Empty, table |-> 0, left |-> {}, ok |-> TRUE]
Busy == {"copy", "connect", "tables", "counts", "orphans", "sequences", "settings", "finish"}

MigTypeOK ==
  /\ sqlite \in [Paths -> [Tables -> SUBSET RowIds]] /\ target \in [Targets -> [Tables -> SUBSET RowIds]]
  /\ sequence \in [Targets -> [Tables -> Nat]]
  /\ migration \in [path : SUBSET Paths, validated : BOOLEAN, prepared : BOOLEAN, running : BOOLEAN,
                    completed : BOOLEAN, activated : BOOLEAN]
  /\ check \subseteq Paths
  /\ mig \in [Migrates -> [pc : Busy \cup {"idle", "checked", "refused", "failed", "erred", "done"},
                           path : SUBSET Paths, to : SUBSET Targets, copy : [Tables -> SUBSET RowIds],
                           table : 0..NTables + 1, left : SUBSET RowIds, ok : BOOLEAN]]
  /\ effort \in [edits : 0..MaxSourceEdits, errors : 0..MaxTransferErrors, selections : 0..MaxSelections]
  /\ overlap \subseteq Migrates /\ lost \in BOOLEAN

MigInit ==
  /\ sqlite = Rows0
  /\ target = [d \in Targets |-> Empty]
  /\ sequence = [d \in Targets |-> [t \in Tables |-> 0]]
  /\ migration = NoWorkflow /\ check = {}
  /\ mig = [m \in Migrates |-> NoMig]
  /\ effort = [edits |-> 0, errors |-> 0, selections |-> 0]
  /\ overlap = {} /\ lost = FALSE

-----------------------------------------------------------------------------
(* The application that goes on running over the file it was started with. *)

\* A row is added under a parent, or deleted when nothing refers to it.
SourceEdited(p, t, n) ==
  /\ effort.edits < MaxSourceEdits
  /\ effort' = [effort EXCEPT !.edits = @ + 1]
  /\ \/ /\ n \notin sqlite[p][t] /\ (t > 1 => n \in sqlite[p][t - 1])
        /\ sqlite' = [sqlite EXCEPT ![p][t] = @ \cup {n}] /\ UNCHANGED lost
     \/ /\ n \in sqlite[p][t] /\ (t < NTables => n \notin sqlite[p][t + 1])
        /\ sqlite' = [sqlite EXCEPT ![p][t] = @ \ {n}] /\ lost' = TRUE
  /\ UNCHANGED <<target, sequence, migration, check, mig, overlap>>

-----------------------------------------------------------------------------
(* The requests before the transfer *)

requestRest == <<dbVars, mig, overlap, lost>>

\* setupMigrationSource: a new selection forgets the whole state.
SelectSource(p) ==
  /\ effort.selections < MaxSelections
  /\ effort' = [effort EXCEPT !.selections = @ + 1]
  /\ migration' = [NoWorkflow EXCEPT !.path = {p}]
  /\ UNCHANGED <<requestRest, check>>

\* setupMigrationValidateSource reads the path, opens a copy and then notes
\* the outcome in whatever state there is by then.
ValidateReads ==
  /\ check = {} /\ migration.path # {} /\ effort.selections < MaxSelections
  /\ effort' = [effort EXCEPT !.selections = @ + 1]
  /\ check' = migration.path
  /\ UNCHANGED <<requestRest, migration>>

ValidateEnds ==
  /\ check # {} /\ check' = {}
  /\ \E valid \in BOOLEAN : migration' = [migration EXCEPT !.validated = valid]
  /\ UNCHANGED <<requestRest, effort>>

\* setupMigrationPostgres: a target that answers forgets the preparation.
ConnectTarget ==
  /\ migration' = [migration EXCEPT !.prepared = FALSE]
  /\ UNCHANGED <<requestRest, check, effort>>

\* setupMigrationPrepareTarget.
PrepareTarget ==
  /\ migration' = [migration EXCEPT !.prepared = TRUE]
  /\ UNCHANGED <<requestRest, check, effort>>

\* setupMigrationActivate: the state is read, any target named in the request
\* answers the startup queries, the verdict is noted.
Activate ==
  /\ migration.completed
  /\ migration' = [migration EXCEPT !.activated = TRUE]
  /\ UNCHANGED <<requestRest, check, effort>>

-----------------------------------------------------------------------------
(* setupMigrationMigrate: the state is read under the mutex and tested     *)
(* without it, then the transfer is marked as running and started.         *)

others == <<sqlite, check, lost>>
To(m, pc) == mig' = [mig EXCEPT ![m].pc = pc]
Live == {m \in Migrates : mig[m].pc \in Busy}

MigrateChecks(m) ==
  /\ mig[m].pc = "idle"
  /\ To(m, IF migration.validated /\ migration.prepared /\ ~migration.running
           THEN "checked" ELSE "refused")
  /\ UNCHANGED <<others, target, sequence, migration, effort, overlap>>

MigrateStarts(m) ==
  /\ mig[m].pc = "checked"
  /\ \E d \in Targets :
       mig' = [mig EXCEPT ![m].pc = "copy", ![m].path = migration.path, ![m].to = {d}]
  /\ migration' = [migration EXCEPT !.running = TRUE, !.completed = FALSE]
  /\ overlap' = IF Live = {} THEN overlap ELSE overlap \cup Live \cup {m}
  /\ UNCHANGED <<others, target, sequence, effort>>

-----------------------------------------------------------------------------
(* runMigrationTransfer *)

Dest(m) == CHOOSE d \in mig[m].to : TRUE
quiet == <<others, target, sequence, migration, effort, overlap>>

\* failTransfer.
FailsAs(m, pc) ==
  /\ To(m, pc)
  /\ migration' = [migration EXCEPT !.running = FALSE]
Fails(m) == FailsAs(m, "failed")

\* A read or a write of any stage fails.
TransferError(m) ==
  /\ mig[m].pc \in Busy \ {"finish"}
  /\ effort.errors < MaxTransferErrors
  /\ effort' = [effort EXCEPT !.errors = @ + 1]
  /\ FailsAs(m, "erred")
  /\ UNCHANGED <<others, target, sequence, overlap>>

\* stageMigrationSourceCopy: a selection that was reset leaves no path to read.
StageCopy(m) ==
  /\ mig[m].pc = "copy"
  /\ IF mig[m].path = {} THEN Fails(m)
     ELSE /\ \E p \in mig[m].path : mig' = [mig EXCEPT ![m].pc = "connect", ![m].copy = sqlite[p]]
          /\ UNCHANGED migration
  /\ UNCHANGED <<others, target, sequence, effort, overlap>>

\* Faulty variant: the tables are not copied parents first.
OpenTargetAtLast(m) ==
  /\ mig[m].pc = "connect"
  /\ mig' = [mig EXCEPT ![m].pc = "tables", ![m].table = NTables, ![m].left = mig[m].copy[NTables]]
  /\ UNCHANGED quiet

\* OpenPostgres and OpenPostgresStore, then the first of migrationTables.
OpenTarget(m) ==
  /\ mig[m].pc = "connect"
  /\ mig' = [mig EXCEPT ![m].pc = "tables", ![m].table = 1, ![m].left = mig[m].copy[1]]
  /\ UNCHANGED quiet

\* The upsert of a row leaves a row that is there in its place.
Upserted(rows, batch) == rows \cup batch

\* copyMigrationTable commits a batch; a row whose parent is missing is refused.
CopyBatch(m) ==
  /\ mig[m].pc = "tables" /\ mig[m].left # {}
  /\ \E batch \in kSubset(IF Cardinality(mig[m].left) < BatchSize
                          THEN Cardinality(mig[m].left) ELSE BatchSize, mig[m].left) :
       LET d == Dest(m)
           t == mig[m].table
       IN IF t > 1 /\ ~(batch \subseteq target[d][t - 1])
          THEN Fails(m) /\ UNCHANGED target
          ELSE /\ target' = [target EXCEPT ![d][t] = Upserted(@, batch)]
               /\ mig' = [mig EXCEPT ![m].left = @ \ batch]
               /\ UNCHANGED migration
  /\ UNCHANGED <<others, sequence, effort, overlap>>

TableDone(m) ==
  /\ mig[m].pc = "tables" /\ mig[m].left = {}
  /\ mig' = IF mig[m].table = NTables THEN [mig EXCEPT ![m].pc = "counts"]
            ELSE [mig EXCEPT ![m].table = @ + 1, ![m].left = mig[m].copy[mig[m].table + 1]]
  /\ UNCHANGED quiet

\* validateMigrationCounts.
SameCounts(copy, rows) == \A t \in Tables : Cardinality(copy[t]) = Cardinality(rows[t])
CheckCounts(m) ==
  /\ mig[m].pc = "counts"
  /\ mig' = [mig EXCEPT ![m].pc = "orphans", ![m].ok = SameCounts(mig[m].copy, target[Dest(m)])]
  /\ UNCHANGED quiet

\* validateMigrationOrphans.
NoOrphans(rows) == \A t \in Tables \ {1} : rows[t] \subseteq rows[t - 1]
CheckOrphans(m) ==
  /\ mig[m].pc = "orphans"
  /\ mig' = [mig EXCEPT ![m].pc = "sequences", ![m].ok = @ /\ NoOrphans(target[Dest(m)])]
  /\ UNCHANGED quiet

\* Faulty variant: the sequences are left as a new schema has them.
ForgetResync(m) ==
  /\ mig[m].pc = "sequences" /\ To(m, "settings")
  /\ UNCHANGED <<others, target, sequence, migration, effort, overlap>>

\* resyncPostgresSequence, for every table at once.
Highest(rows) == IF rows = {} THEN 0 ELSE Max(rows)
Resync(m) ==
  /\ mig[m].pc = "sequences"
  /\ sequence' = [sequence EXCEPT ![Dest(m)] = [t \in Tables |-> Highest(target[Dest(m)][t])]]
  /\ To(m, "settings")
  /\ UNCHANGED <<others, target, migration, effort, overlap>>

\* validateMigrationSettings: key by key.
CheckSettings(m) ==
  /\ mig[m].pc = "settings"
  /\ mig' = [mig EXCEPT ![m].pc = "finish", ![m].ok = @ /\ mig[m].copy[1] \subseteq target[Dest(m)][1]]
  /\ UNCHANGED quiet

Finish(m) ==
  /\ mig[m].pc = "finish"
  /\ IF mig[m].ok
     THEN To(m, "done") /\ migration' = [migration EXCEPT !.running = FALSE, !.completed = TRUE]
     ELSE Fails(m)
  /\ UNCHANGED <<others, target, sequence, effort, overlap>>

Transfer(m) ==
  \/ StageCopy(m) \/ OpenTarget(m) \/ CopyBatch(m) \/ TableDone(m) \/ CheckCounts(m)
  \/ CheckOrphans(m) \/ Resync(m) \/ CheckSettings(m) \/ Finish(m)

MigNext ==
  \/ \E p \in Paths, t \in Tables, n \in RowIds : SourceEdited(p, t, n)
  \/ \E p \in Paths : SelectSource(p)
  \/ ValidateReads \/ ValidateEnds \/ ConnectTarget \/ PrepareTarget \/ Activate
  \/ \E m \in Migrates : MigrateChecks(m) \/ MigrateStarts(m) \/ Transfer(m) \/ TransferError(m)

MigSpec == MigInit /\ [][MigNext]_migVars

-----------------------------------------------------------------------------
(* Properties *)

\* "A second call would race its own state updates, which is why
\* setupMigrationMigrate rejects a request while TransferRunning is true":
\* two transfers never run together.
OneTransfer == Cardinality(Live) <= 1

\* A transfer that ran alone and is reported as completed left in its target
\* every row of the copy it read, every row under its parent, and no sequence
\* behind the rows, however often earlier transfers failed half-way.
CompletedMeansCopied ==
  [][\A m \in Migrates \ overlap' :
       mig[m].pc = "finish" /\ mig'[m].pc = "done" =>
         LET d == Dest(m)
         IN /\ \A t \in Tables : /\ mig[m].copy[t] \subseteq target[d][t]
                                 /\ \A n \in target[d][t] : n <= sequence[d][t]
            /\ NoOrphans(target[d])]_migVars

\* A transfer converges: one that ran alone and met no error fails only when
\* the target holds what its source does not: rows deleted since an earlier
\* transfer, rows of another file, or no file selected any more.
RetryConverges ==
  \A m \in Migrates \ overlap :
    mig[m].pc = "failed" =>
      \/ lost \/ mig[m].path = {}
      \/ \E o \in Migrates \ {m} : mig[o].to = mig[m].to /\ mig[o].path # mig[m].path
=============================================================================
