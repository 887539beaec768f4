---------------------------- MODULE MCServices -----------------------------
(* Instances for TLC of parts that share no state, one of which a          *)
(* behaviour runs: the synchronisation with StashApp, the migration of the *)
(* database, the archive of play history, the list of missing files, and   *)
(* the two sides of Discoveries: its index of scores and its enrichment.   *)
EXTENDS StashSync, DbMigration, PlayHistory, MissingFiles, DiscoveryIndex, Enrichment

CONSTANTS s1, t1, file, db, m1, m2

VARIABLE part   \* the part that runs in this behaviour

\* StashSync: one scene and one request that toggles its mark.
OneScene == {s1}
OneToggle == {t1}

\* DbMigration: two tables of two rows, and two requests to migrate.
OneFile == {file}
OneDatabase == {db}
TwoMigrates == {m1, m2}
ThreeRowIds == 1..3
TwoRowsEach == [p \in OneFile |-> [t \in Tables |-> {1, 2}]]

\* PlayHistory: two ids; the release of the first moves to the second, or comes
\* back beside another.
TwoIds == 1..2
TwoCodes == 1..2
OneSceneFirst == {<<1, 0>>}
ThenMoved == {<<2, 1>>, <<0, 1>>}

\* MissingFiles: a scene that can be scraped by its address, and one without.
TwoVideos == {"a", "b"}
OneAddressed == {"b"}

\* DiscoveryIndex: three releases, and pages of two rows.
ThreeReleases == {"a", "b", "c"}

\* Enrichment: two releases, a page and two sweeps.
TwoReleases == {"x", "y"}
OnePage == {"p"}
TwoSweeps == {"w1", "w2"}
FirstOnly == {{"x"}}

-----------------------------------------------------------------------------
ServicesInit ==
  /\ part \in {"stash", "migration", "history", "missing", "discovery", "enrichment"}
  /\ SyncInit /\ MigInit /\ HistoryInit /\ MissingInit /\ DiscoveryInit /\ EnrichInit
  /\ part # "missing" => library.known = {}
  /\ part # "discovery" => indexCursor = 0
  /\ part # "enrichment" => aiConfig.primary = "openai"

StashPart ==
  /\ part = "stash" /\ SyncNext
  /\ UNCHANGED <<part, migVars, historyVars, missingVars, discoveryVars, enrichVars>>
MigrationPart ==
  /\ part = "migration" /\ MigNext
  /\ UNCHANGED <<part, syncVars, historyVars, missingVars, discoveryVars, enrichVars>>
HistoryPart ==
  /\ part = "history" /\ HistoryNext
  /\ UNCHANGED <<part, syncVars, migVars, missingVars, discoveryVars, enrichVars>>
MissingPart ==
  /\ part = "missing" /\ MissingNext
  /\ UNCHANGED <<part, syncVars, migVars, historyVars, discoveryVars, enrichVars>>
DiscoveryPart ==
  /\ part = "discovery" /\ DiscoveryNext
  /\ UNCHANGED <<part, syncVars, migVars, historyVars, missingVars, enrichVars>>
EnrichmentPart ==
  /\ part = "enrichment" /\ EnrichNext
  /\ UNCHANGED <<part, syncVars, migVars, historyVars, missingVars, discoveryVars>>

ServicesNext ==
  \/ StashPart
  \/ MigrationPart
  \/ HistoryPart
  \/ MissingPart
  \/ DiscoveryPart
  \/ EnrichmentPart

servicesVars ==
  <<part, syncVars, migVars, historyVars, missingVars, discoveryVars, enrichVars>>
ServicesSpec == ServicesInit /\ [][ServicesNext]_servicesVars
=============================================================================
