---------------------------- MODULE PlayHistory ----------------------------
(***************************************************************************)
(* internal/stash/history.go and internal/store/stash_history.go: the      *)
(* archive of what StashApp recorded as played, which outlives StashApp's  *)
(* database, and its write-back to StashApp: a review of what is missing   *)
(* there, applied later by its token or at once by the schedule.           *)
(*                                                                         *)
(* An event is its time and kind; no two events of the world share both.   *)
(* A scene is known by its id, which a rebuilt StashApp gives out anew, and*)
(* by its code, here the release it shows.  The ways a scene is matched -  *)
(* URL, code, file name, id and title, studio and date - all end in the    *)
(* scene of the same code if there is one, and in one of several, or none, *)
(* if there are more.                                                      *)
(***************************************************************************)
EXTENDS Integers, FiniteSets, FiniteSetsExt

CONSTANTS
  SceneIds,      \* ids StashApp gives to scenes
  Codes,         \* releases, by their codes
  FirstCodes,    \* the scenes StashApp may start with: the code of every id, 0 for none
  LaterCodes,    \* and those it may have after a rebuild
  MaxEvents,     \* bound: plays and orgasms in the world
  MaxRebuilds,   \* bound: times StashApp's database is rebuilt or edited
  MaxReviews,    \* bound: reviews
  MaxFaults      \* bound: requests to StashApp that fail, and crashes

ASSUME HistoryAssumption ==
  /\ IsFiniteSet(SceneIds) /\ 0 \notin SceneIds /\ 0 \notin Codes
  /\ FirstCodes \cup LaterCodes \subseteq [SceneIds -> Codes \cup {0}]
  /\ \A b \in {MaxEvents, MaxRebuilds, MaxReviews, MaxFaults} : b \in Nat

VARIABLES
  scenes,      \* StashApp: the code, events and play seconds of every id
  archive,     \* stash_history_scenes with their stash_history_events
  synced,      \* the sync: what it fetched and the ids it has yet to archive
  review,      \* s.historyReviews, which holds the last review
  tokens,      \* of the reviews a request or the schedule has yet to apply
  applier,     \* the application of a review that runs
  historyUsed  \* the counters behind the bounds

historyVars == <<scenes, archive, synced, review, tokens, applier, historyUsed>>

Plays(S) == {e \in S : e[2] = "play"}

NoScene == [code |-> 0, has |-> {}, twice |-> {}, secs |-> 0]
NoRow == [code |-> 0, rel |-> 0, events |-> {}, secs |-> 0]
NoReview == [token |-> 0, items |-> {}]
NotApplying == [pc |-> "idle", items |-> {}, sets |-> [id \in SceneIds |-> {}], secs |-> [id \in SceneIds |-> 0],
         target |-> 0, add |-> {}, want |-> 0]

\* sceneAddPlay and sceneAddO add what they are given, there or not.
WithEvents(scene, S) == [scene EXCEPT !.twice = @ \cup (scene.has \cap S), !.has = @ \cup S]

HistoryInit ==
  /\ \E codes \in FirstCodes : scenes = [id \in SceneIds |-> [NoScene EXCEPT !.code = codes[id]]]
  /\ archive = [id \in SceneIds |-> NoRow]
  /\ synced = [fetched |-> [id \in SceneIds |-> NoScene], todo |-> {}]
  /\ review = NoReview /\ tokens = {} /\ applier = NotApplying
  /\ historyUsed = [events |-> 0, rebuilds |-> 0, reviews |-> 0, faults |-> 0]

Counted(field) == historyUsed' = [historyUsed EXCEPT ![field] = @ + 1]

-----------------------------------------------------------------------------
(* StashApp.                                                               *)

Watched(id, kind) ==
  /\ scenes[id].code # 0 /\ historyUsed.events < MaxEvents
  /\ scenes' = [scenes EXCEPT ![id].has = @ \cup {<<historyUsed.events + 1, kind>>},
                              ![id].secs = IF kind = "play" THEN @ + 1 ELSE @]
  /\ Counted("events") /\ UNCHANGED <<archive, synced, review, tokens, applier>>

\* The database is rebuilt: ids are given out anew, what was played is gone.
Rebuilt ==
  /\ historyUsed.rebuilds < MaxRebuilds
  /\ \E codes \in LaterCodes :
       scenes' = [id \in SceneIds |-> [NoScene EXCEPT !.code = codes[id]]]
  /\ Counted("rebuilds") /\ UNCHANGED <<archive, synced, review, tokens, applier>>

HistoryDeleted(id) ==
  /\ scenes[id].has # {} /\ historyUsed.rebuilds < MaxRebuilds
  /\ \E e \in scenes[id].has : scenes' = [scenes EXCEPT ![id].has = @ \ {e}, ![id].twice = @ \ {e}]
  /\ Counted("rebuilds") /\ UNCHANGED <<archive, synced, review, tokens, applier>>

-----------------------------------------------------------------------------
(* The archive.                                                            *)

SyncFetch ==
  /\ synced.todo = {}
  /\ synced' = [fetched |-> scenes, todo |-> {id \in SceneIds : scenes[id].code # 0}]
  /\ UNCHANGED <<scenes, archive, review, tokens, applier, historyUsed>>

\* UpsertStashHistory of a scene that is linked to the release rel, or to none
\* (0): rows of the same release under other ids are taken over.
Replaced(id, rel) == IF rel = 0 THEN {} ELSE {o \in SceneIds \ {id} : archive[o].rel = rel}
KeptSeconds(scene, old) ==
  IF \E o \in old : archive[o].events \cap Plays(scene.has) # {}
  THEN Max({scene.secs} \cup {archive[o].secs : o \in old})
  ELSE scene.secs + MapThenSumSet(LAMBDA o : archive[o].secs, old)
\* Mutant. The events of the rows that are taken over are not copied.
KeptEventsOfIdOnly(id, scene, old) == scene.has \cup archive[id].events

KeptEvents(id, scene, old) == scene.has \cup archive[id].events \cup UNION {archive[o].events : o \in old}
Archived(id, scene, rel) ==
  LET old == Replaced(id, rel)
      row == [code |-> scene.code, rel |-> rel, events |-> KeptEvents(id, scene, old), secs |-> KeptSeconds(scene, old)]
  IN [o \in SceneIds |-> IF o = id THEN row ELSE IF o \in old THEN NoRow ELSE archive[o]]

\* A scene the sync could not match to a release is archived without one.
SyncScene(id) ==
  /\ id \in synced.todo
  /\ \E rel \in {0, synced.fetched[id].code} : archive' = Archived(id, synced.fetched[id], rel)
  /\ synced' = [fetched |-> [synced.fetched EXCEPT ![id] = NoScene], todo |-> synced.todo \ {id}]
  /\ UNCHANGED <<scenes, review, tokens, applier, historyUsed>>

-----------------------------------------------------------------------------
(* ReviewHistoryWriteback.                                                 *)

Candidates(id) == {t \in SceneIds : scenes[t].code # 0 /\ scenes[t].code = archive[id].code}
WriteTargets(id) == IF Cardinality(Candidates(id)) = 1 THEN Candidates(id) ELSE Candidates(id) \cup {0}

ReviewItem(id, t) == [source |-> id, target |-> t, events |-> archive[id].events \ scenes[t].has, secs |-> archive[id].secs]
Changes(item) == item.events # {} \/ item.secs > scenes[item.target].secs
Review(target) == {x \in {ReviewItem(id, target[id]) : id \in {i \in SceneIds : target[i] # 0}} : Changes(x)}

MakeReview ==
  /\ historyUsed.reviews < MaxReviews
  /\ \E target \in [SceneIds -> SceneIds \cup {0}] :
       /\ \A id \in SceneIds : target[id] \in WriteTargets(id)
       /\ Review(target) # {}
       /\ review' = [token |-> historyUsed.reviews + 1, items |-> Review(target)]
  /\ tokens' = tokens \cup {historyUsed.reviews + 1}
  /\ Counted("reviews") /\ UNCHANGED <<scenes, archive, synced, applier>>

-----------------------------------------------------------------------------
(* ApplyHistoryWriteback.  One application runs at a time: that is a bound,*)
(* nothing in the code keeps a request and the schedule from applying two  *)
(* reviews at once.                                                        *)

\* The review is used up; one whose token was replaced has expired.
TakeReview(token) ==
  /\ applier.pc = "idle" /\ tokens' = tokens \ {token}
  /\ IF token = review.token
     THEN /\ review' = NoReview
          /\ \E chosen \in SUBSET review.items : applier' = [NotApplying EXCEPT !.pc = "fetch", !.items = chosen]
     ELSE UNCHANGED <<review, applier>>
  /\ UNCHANGED <<scenes, archive, synced, historyUsed>>

FetchBefore ==
  /\ applier.pc = "fetch"
  /\ applier' = [applier EXCEPT !.pc = "next", !.sets = [id \in SceneIds |-> scenes[id].has],
                                !.secs = [id \in SceneIds |-> scenes[id].secs]]
  /\ UNCHANGED <<scenes, archive, synced, review, tokens, historyUsed>>

\* Mutant. What an item adds is not noted for the items after it.
NotNoted(sets, item) == sets

\* What an item adds is what its target still lacks, as far as the fetch and
\* the items before it tell; both kinds are noted before either is sent.
Noted(sets, item) == [sets EXCEPT ![item.target] = @ \cup item.events]
NextItem ==
  /\ applier.pc = "next"
  /\ IF applier.items = {} THEN applier' = NotApplying
     ELSE \E item \in applier.items :
            applier' = 
              [applier EXCEPT !.pc = "plays", !.items = @ \ {item}, !.target = item.target,
                        !.add = item.events \ applier.sets[item.target],
                        !.want = item.secs, !.sets = Noted(@, item)]
  /\ UNCHANGED <<scenes, archive, synced, review, tokens, historyUsed>>

\* A scene that is gone, and a request that fails, carried out or not, end the
\* item.
Mutation(at, done, next) ==
  /\ applier.pc = at
  /\ LET t == applier.target IN
     \/ /\ scenes[t].code # 0 \/ done = scenes[t]
        /\ scenes' = [scenes EXCEPT ![t] = done] /\ UNCHANGED historyUsed
        /\ applier' = next
     \/ /\ scenes[t].code = 0 \/ historyUsed.faults < MaxFaults
        /\ done # scenes[t]
        /\ applier' = [applier EXCEPT !.pc = "next"]
        /\ IF scenes[t].code = 0 THEN UNCHANGED <<scenes, historyUsed>>
           ELSE Counted("faults") /\ scenes' \in {scenes, [scenes EXCEPT ![t] = done]}
  /\ UNCHANGED <<archive, synced, review, tokens>>

AddPlays ==
  Mutation("plays", WithEvents(scenes[applier.target], Plays(applier.add)), [applier EXCEPT !.pc = "orgasms"])
AddOrgasms ==
  Mutation("orgasms", WithEvents(scenes[applier.target], applier.add \ Plays(applier.add)),
           [applier EXCEPT !.pc = "duration"])
SaveActivity ==
  LET t == applier.target
      delta == Max({0, applier.want - applier.secs[t]})
  IN Mutation("duration", [scenes[t] EXCEPT !.secs = @ + delta], [applier EXCEPT !.pc = "next", !.secs[t] = @ + delta])

\* The process restarts: reviews and applications are gone, the archive stays.
HistoryRestart ==
  /\ historyUsed.faults < MaxFaults
  /\ \/ review # NoReview \/ synced.todo # {} \/ tokens # {} \/ applier # NotApplying
  /\ review' = NoReview /\ tokens' = {} /\ applier' = NotApplying /\ synced' = [fetched |-> [id \in SceneIds |-> NoScene], todo |-> {}]
  /\ Counted("faults") /\ UNCHANGED <<scenes, archive>>

-----------------------------------------------------------------------------
HistoryNext ==
  \/ \E id \in SceneIds : (\E kind \in {"play", "o"} : Watched(id, kind)) \/ HistoryDeleted(id) \/ SyncScene(id)
  \/ Rebuilt \/ SyncFetch \/ HistoryRestart
  \/ MakeReview \/ \E token \in tokens : TakeReview(token)
  \/ FetchBefore \/ NextItem \/ AddPlays \/ AddOrgasms \/ SaveActivity

HistorySpec == HistoryInit /\ [][HistoryNext]_historyVars

-----------------------------------------------------------------------------
(* Properties.                                                             *)

ArchivedEvents == UNION {archive[id].events : id \in SceneIds}

\* JAVBeacon's archive is authoritative: an event once archived stays there,
\* though StashApp forgets it, is rebuilt and gives its ids to other scenes,
\* and though syncs take over the rows of one release from each other.
ArchiveKeepsEvents == [][ArchivedEvents \subseteq ArchivedEvents']_historyVars

\* The write-back adds nothing StashApp has: not by two rows of the archive
\* with one target, by a review older than a sync or another review, nor after
\* requests that failed half-way.
AddedOnce == \A id \in SceneIds : scenes[id].twice = {}

=============================================================================
