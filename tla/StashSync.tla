----------------------------- MODULE StashSync -----------------------------
(***************************************************************************)
(* internal/stash/realtime.go and service.go: how a change of a scene in   *)
(* StashApp reaches the release it belongs to, and how a mark on the       *)
(* Watchlist reaches the tag of the scene.                                 *)
(*                                                                         *)
(* Four actors write: the realtime worker (one goroutine, fed by the       *)
(* plugin's hooks through a map and a channel of one place), the full sync *)
(* (single flight), the handler of a toggle and the scheduled Watchlist    *)
(* sync (the last two under watchlistMu).  Each works on copies it read    *)
(* before: of the scene, and of the release's row.                         *)
(* Atomicity.  A statement on the database or a request to StashApp is one *)
(* action; the statements that store what no other actor compares (paths,  *)
(* dates, history) are folded into the one beside them.                    *)
(* A release and its scene have one name; the content of a scene that is   *)
(* not its tag is a version.                                               *)
(***************************************************************************)
EXTENDS Integers, FiniteSets, SequencesExt

CONSTANTS
  Scenes,
  Toggles,            \* the requests that set or clear a Watchlist mark
  RetryAttempts,      \* stash_realtime_retry_attempts
  MaxSceneChanges,    \* bound: changes made to scenes by the user of StashApp
  MaxHooks,           \* bound: hooks of one scene on their way
  MaxFailures,        \* bound: requests or reads that fail
  MaxSyncs            \* bound: full syncs and scheduled Watchlist syncs

ASSUME StashSyncAssumption ==
  /\ IsFiniteSet(Scenes) /\ IsFiniteSet(Toggles) /\ RetryAttempts \in Nat \ {0}
  /\ \A b \in {MaxSceneChanges, MaxHooks, MaxFailures, MaxSyncs} : b \in Nat
  /\ MaxHooks > 0
  /\ Toggles \cap {"none", "worker", "full", "daily"} = {}

VARIABLES
  scene,    \* scene[s]: StashApp's side
  linked,   \* linked[s]: the release's row and its line in watchlist_sync
  hooks,    \* hooks[s]: how many hooks of s are on their way
  pending,  \* realtimePending, oldest first
  wake,     \* realtimeWake holds a token
  realtime,   \* realtimeWorker
  full,     \* Service.run
  toggle,   \* toggle[t]: the handler of a toggle
  daily,    \* SyncWatchlist
  mutex,    \* who holds watchlistMu
  push,     \* push[a]: where actor a is in setWatchlistTag
  tally,    \* the counters behind the bounds
  unseen,   \* history: scenes whose event was taken and not read yet
  raced,    \* history: scenes that changed under the last full sync
  stalled   \* history: the worker left its loop on an error

sides == <<scene, linked, hooks>>
inbox == <<pending, wake, unseen>>
syncVars == <<sides, inbox, realtime, full, toggle, daily, mutex, push, tally, raced, stalled>>

Absent == [there |-> FALSE, coded |-> FALSE, tag |-> FALSE, ver |-> 0]
Snapshots == [there : BOOLEAN, coded : BOOLEAN, tag : BOOLEAN, ver : 0..MaxSceneChanges]
Links == [local : BOOLEAN, watchlist : BOOLEAN, synced : BOOLEAN, data : 0..MaxSceneChanges]
Unlinked == [local |-> FALSE, watchlist |-> FALSE, synced |-> FALSE, data |-> 0]
Actors == {"worker", "full", "daily"} \cup Toggles
NoPush == [pc |-> "no", on |-> FALSE]
Asleep == [pc |-> "asleep", scene |-> {}, snap |-> Absent, marked |-> FALSE, left |-> 0]
NoSync == [pc |-> "off", todo |-> {}, scene |-> {}, snap |-> [s \in Scenes |-> Absent],
           rows |-> [s \in Scenes |-> Unlinked]]
NoDaily == [pc |-> "off", todo |-> {}, local |-> {}]

SyncTypeOK ==
  /\ scene \in [Scenes -> Snapshots] /\ linked \in [Scenes -> Links]
  /\ hooks \in [Scenes -> 0..MaxHooks]
  /\ pending \in Seq(Scenes) /\ IsInjective(pending) /\ wake \in BOOLEAN
  /\ realtime \in [pc : {"asleep", "loop", "pick", "fetch", "match", "link", "ask", "patch",
                       "push", "store"},
                 scene : SUBSET Scenes, snap : Snapshots, marked : BOOLEAN, left : 0..RetryAttempts]
  /\ full \in [pc : {"off", "fetch", "list", "each", "link", "ask", "patch", "push", "store"},
               todo : SUBSET Scenes, scene : SUBSET Scenes, snap : [Scenes -> Snapshots],
               rows : [Scenes -> Links]]
  /\ toggle \in [Toggles -> [pc : {"idle", "lock", "read", "push", "done"}, scene : SUBSET Scenes]]
  /\ daily \in [pc : {"off", "list", "each", "push"}, todo : SUBSET Scenes, local : SUBSET Scenes]
  /\ mutex \in {"none", "daily"} \cup Toggles
  /\ push \in [Actors -> [pc : {"no", "read", "update", "record"}, on : BOOLEAN]]
  /\ tally \in [changes : 0..MaxSceneChanges, failures : 0..MaxFailures,
                syncs : 0..MaxSyncs]
  /\ unseen \subseteq Scenes /\ raced \subseteq Scenes /\ stalled \in BOOLEAN

SyncInit ==
  /\ scene = [s \in Scenes |-> Absent] /\ linked = [s \in Scenes |-> Unlinked]
  /\ hooks = [s \in Scenes |-> 0] /\ pending = <<>> /\ wake = FALSE
  /\ realtime = Asleep /\ full = NoSync /\ daily = NoDaily
  /\ toggle = [t \in Toggles |-> [pc |-> "idle", scene |-> {}]]
  /\ mutex = "none" /\ push = [a \in Actors |-> NoPush]
  /\ tally = [changes |-> 0, failures |-> 0, syncs |-> 0]
  /\ unseen = {} /\ raced = {} /\ stalled = FALSE

Hook(s) == hooks' = [hooks EXCEPT ![s] = IF @ < MaxHooks THEN @ + 1 ELSE @]
Race(s) == raced' = IF full.pc \notin {"off", "fetch"} THEN raced \cup {s} ELSE raced
RaceMark(s) == raced' = IF full.pc \notin {"off", "fetch"} \/ realtime.scene = {s}
                        THEN raced \cup {s} ELSE raced

\* One request or read fails; the bound keeps the failures finite.
Failure ==
  /\ tally.failures < MaxFailures
  /\ tally' = [tally EXCEPT !.failures = @ + 1]

-----------------------------------------------------------------------------
(* StashApp, outside src/: its user creates, edits, tags and destroys      *)
(* scenes, and its plugin calls back after each change.                    *)

Change(s, to) ==
  /\ tally.changes < MaxSceneChanges
  /\ tally' = [tally EXCEPT !.changes = @ + 1]
  /\ scene' = [scene EXCEPT ![s] = to]
  /\ Hook(s) /\ Race(s)
  /\ UNCHANGED <<linked, inbox, realtime, full, toggle, daily, mutex, push, stalled>>

CreateScene(s) ==
  /\ ~scene[s].there
  /\ \E coded \in BOOLEAN :
       Change(s, [there |-> TRUE, coded |-> coded, tag |-> FALSE, ver |-> tally.changes + 1])

EditScene(s) ==
  /\ scene[s].there
  /\ \E tag \in BOOLEAN :
       Change(s, [there |-> TRUE, coded |-> TRUE, tag |-> tag, ver |-> tally.changes + 1])

DestroyScene(s) == scene[s].there /\ Change(s, Absent)

-----------------------------------------------------------------------------
(* enqueueRealtimeScene: the newest time of a scene replaces the older.    *)

\* Faulty variant: a scene that is being synchronised is not noted again.
EnqueuedUnlessBusy(s) == IF realtime.scene = {s} THEN pending ELSE Append(RemoveFirst(pending, s), s)

Enqueued(s) == Append(RemoveFirst(pending, s), s)

HookArrives(s) ==
  /\ hooks[s] > 0
  /\ hooks' = [hooks EXCEPT ![s] = @ - 1]
  /\ pending' = Enqueued(s) /\ wake' = TRUE
  /\ unseen' = unseen \cup {s}
  /\ UNCHANGED <<scene, linked, realtime, full, toggle, daily, mutex, push, tally, raced, stalled>>

-----------------------------------------------------------------------------
(* setWatchlistTag, for whichever actor calls it: read the tags of the     *)
(* scene, send the whole list back, note what was done.                    *)

PushEnds(a) == push' = [push EXCEPT ![a] = NoPush]
PushTo(a, pc) == push' = [push EXCEPT ![a].pc = pc]
StartPush(a, on) == push' = [push EXCEPT ![a] = [pc |-> "read", on |-> on]]
Note(s, on) == linked' = [linked EXCEPT ![s].synced = on]

\* The tag is read; where it already is as wanted, only the note is made.
PushReads(a, s) ==
  /\ push[a].pc = "read"
  /\ \/ ~scene[s].there /\ PushEnds(a) /\ UNCHANGED linked
     \/ scene[s].there /\ scene[s].tag = push[a].on /\ PushEnds(a) /\ Note(s, push[a].on)
     \/ scene[s].there /\ scene[s].tag # push[a].on /\ PushTo(a, "update") /\ UNCHANGED linked
  /\ UNCHANGED <<scene, hooks, raced>>

\* sceneUpdate; for a scene destroyed meanwhile the answer carries errors
\* that graphql does not look at.
PushUpdates(a, s) ==
  /\ push[a].pc = "update"
  /\ PushTo(a, "record")
  /\ IF scene[s].there
     THEN scene' = [scene EXCEPT ![s].tag = push[a].on] /\ Hook(s) /\ Race(s)
     ELSE UNCHANGED <<scene, hooks, raced>>
  /\ UNCHANGED linked

PushRecords(a, s) ==
  /\ push[a].pc = "record"
  /\ PushEnds(a) /\ Note(s, push[a].on)
  /\ UNCHANGED <<scene, hooks, raced>>

SetWatchlistTag(a, s) == PushReads(a, s) \/ PushUpdates(a, s) \/ PushRecords(a, s)

\* A request fails: the caller gets the error.
PushFails(a) == push[a].pc \in {"read", "update"} /\ Failure /\ PushEnds(a)

-----------------------------------------------------------------------------
(* realtimeWorker *)

workerRest == <<full, toggle, daily, mutex>>
Step(pc) == realtime' = [realtime EXCEPT !.pc = pc]
TheScene == CHOOSE s \in realtime.scene : TRUE
Leave == realtime' = [Asleep EXCEPT !.pc = "loop"]

WorkerWakes ==
  /\ realtime.pc = "asleep" /\ wake
  /\ wake' = FALSE /\ stalled' = FALSE /\ Step("loop")
  /\ UNCHANGED <<sides, pending, unseen, workerRest, push, tally, raced>>

WorkerLoads ==
  /\ realtime.pc = "loop"
  /\ \/ Step("pick") /\ UNCHANGED <<stalled, tally>>
     \/ Failure /\ Step("asleep") /\ stalled' = TRUE
  /\ UNCHANGED <<sides, inbox, workerRest, push, raced>>

\* The oldest scene whose debounce is over; none is left: sleep.
WorkerPicks ==
  /\ realtime.pc = "pick"
  /\ \/ pending = <<>> /\ Step("asleep") /\ UNCHANGED pending
     \/ /\ pending # <<>>
        /\ realtime' = [Asleep EXCEPT !.pc = "fetch", !.scene = {Head(pending)}, !.left = RetryAttempts]
        /\ pending' = Tail(pending)
  /\ UNCHANGED <<sides, wake, unseen, workerRest, push, tally, raced, stalled>>

\* An attempt fails: another one, or the error is shown and the scene left.
AttemptFails ==
  IF realtime.left > 1 THEN realtime' = [realtime EXCEPT !.pc = "fetch", !.left = @ - 1]
                     ELSE Leave
Abandon == unseen' = IF realtime.left > 1 THEN unseen ELSE unseen \ realtime.scene

WorkerFetches ==
  /\ realtime.pc = "fetch"
  /\ \/ /\ realtime' = [realtime EXCEPT !.pc = "match", !.snap = scene[TheScene]]
        /\ unseen' = unseen \ realtime.scene /\ UNCHANGED tally
        /\ raced' = IF full.pc \in {"off", "fetch"} THEN raced \ realtime.scene ELSE raced
     \/ Failure /\ AttemptFails /\ Abandon /\ UNCHANGED raced
  /\ UNCHANGED <<sides, pending, wake, workerRest, push, stalled>>

\* matchRealtimeRelease: by the stored link, then by the code.
WorkerMatches ==
  /\ realtime.pc = "match"
  /\ LET s == TheScene
         row == linked[s]
     IN \/ /\ row.local \/ realtime.snap.coded
           /\ realtime' = [realtime EXCEPT !.pc = "link", !.marked = row.watchlist]
        \/ ~row.local /\ ~realtime.snap.there /\ Leave
        \/ ~row.local /\ realtime.snap.there /\ ~realtime.snap.coded /\ AttemptFails
  /\ UNCHANGED <<sides, inbox, workerRest, push, tally, raced, stalled>>

\* Faulty variant: a tag that was set in StashApp is not taken over.
VerdictPushOnly(tagged, marked) == IF ~tagged /\ marked THEN "ask" ELSE "store"

\* What the tag of the scene and the mark of the release call for.
Verdict(tagged, marked) ==
  CASE tagged = marked -> "store"
    [] ~tagged /\ marked -> "ask"
    [] OTHER -> "patch"

\* SetStashState and SetStashFilePath, then the choice on the copies.
WorkerLinks ==
  /\ realtime.pc = "link"
  /\ linked' = [linked EXCEPT ![TheScene].local = realtime.snap.there]
  /\ IF realtime.snap.there THEN Step(Verdict(realtime.snap.tag, realtime.marked))
     ELSE IF realtime.marked THEN Step("patch") ELSE Leave
  /\ UNCHANGED <<scene, hooks, inbox, workerRest, push, tally, raced, stalled>>

\* WatchlistSynced: a tag that was there once was taken away on purpose.
WorkerAsks ==
  /\ realtime.pc = "ask"
  /\ IF linked[TheScene].synced THEN Step("patch") /\ UNCHANGED push
                                ELSE Step("push") /\ StartPush("worker", TRUE)
  /\ UNCHANGED <<sides, inbox, workerRest, tally, raced, stalled>>

WorkerPatches ==
  /\ realtime.pc = "patch"
  /\ linked' = [linked EXCEPT ![TheScene].watchlist = realtime.snap.there /\ realtime.snap.tag]
  /\ IF realtime.snap.there THEN Step("store") ELSE Leave
  /\ UNCHANGED <<scene, hooks, inbox, workerRest, push, tally, raced, stalled>>

WorkerPushes ==
  /\ realtime.pc = "push"
  /\ SetWatchlistTag("worker", TheScene)
  /\ IF push'["worker"] = NoPush THEN Step("store") ELSE UNCHANGED realtime
  /\ UNCHANGED <<inbox, workerRest, tally, stalled>>

WorkerPushFails ==
  /\ realtime.pc = "push"
  /\ PushFails("worker") /\ AttemptFails
  /\ UNCHANGED <<sides, inbox, workerRest, raced, stalled>>

\* SetStashReleaseDate, SetStashCreatedAt, SetStashPlaybackStats and
\* UpsertStashHistory.
WorkerStores ==
  /\ realtime.pc = "store"
  /\ linked' = [linked EXCEPT ![TheScene].data = realtime.snap.ver]
  /\ Leave
  /\ UNCHANGED <<scene, hooks, inbox, workerRest, push, tally, raced, stalled>>

Worker ==
  \/ WorkerWakes \/ WorkerLoads \/ WorkerPicks \/ WorkerFetches \/ WorkerMatches \/ WorkerLinks
  \/ WorkerAsks \/ WorkerPatches \/ WorkerPushes \/ WorkerPushFails \/ WorkerStores

-----------------------------------------------------------------------------
(* The toggle of a mark: PatchRelease, then SyncWatchlistRelease under     *)
(* watchlistMu, which pushes what the row says by then.                    *)

toggleRest == <<inbox, realtime, full, daily, stalled>>
ToggleTo(t, pc) == toggle' = [toggle EXCEPT ![t].pc = pc]
SceneOf(t) == CHOOSE s \in toggle[t].scene : TRUE
Unlock(t) == mutex' = "none" /\ toggle' = [toggle EXCEPT ![t] = [pc |-> "done", scene |-> {}]]

TogglePatches(t) ==
  /\ toggle[t].pc = "idle"
  /\ \E s \in Scenes :
       /\ linked' = [linked EXCEPT ![s].watchlist = ~@]
       /\ toggle' = [toggle EXCEPT ![t] = [pc |-> "lock", scene |-> {s}]]
       /\ RaceMark(s)
  /\ UNCHANGED <<scene, hooks, toggleRest, mutex, push, tally>>

ToggleLocks(t) ==
  /\ toggle[t].pc = "lock" /\ mutex = "none"
  /\ mutex' = t /\ ToggleTo(t, "read")
  /\ UNCHANGED <<sides, toggleRest, push, tally, raced>>

ToggleReads(t) ==
  /\ toggle[t].pc = "read"
  /\ LET row == linked[SceneOf(t)]
     IN \/ ~row.local /\ Unlock(t) /\ UNCHANGED <<push, tally>>
        \/ row.local /\ ToggleTo(t, "push") /\ StartPush(t, row.watchlist) /\ UNCHANGED <<mutex, tally>>
        \/ row.local /\ Failure /\ Unlock(t) /\ UNCHANGED push
  /\ UNCHANGED <<sides, toggleRest, raced>>

TogglePushes(t) ==
  /\ toggle[t].pc = "push"
  /\ SetWatchlistTag(t, SceneOf(t))
  /\ IF push'[t] = NoPush THEN Unlock(t) ELSE UNCHANGED <<toggle, mutex>>
  /\ UNCHANGED <<toggleRest, tally>>

TogglePushFails(t) ==
  /\ toggle[t].pc = "push"
  /\ PushFails(t) /\ Unlock(t)
  /\ UNCHANGED <<sides, toggleRest, raced>>

Toggle(t) ==
  \/ TogglePatches(t) \/ ToggleLocks(t) \/ ToggleReads(t) \/ TogglePushes(t) \/ TogglePushFails(t)

-----------------------------------------------------------------------------
(* SyncWatchlist: tag the scene of every marked release not noted yet.     *)

dailyRest == <<inbox, realtime, full, toggle, stalled>>

DailyStarts ==
  /\ daily.pc = "off" /\ mutex = "none" /\ tally.syncs < MaxSyncs
  /\ tally' = [tally EXCEPT !.syncs = @ + 1]
  /\ mutex' = "daily" /\ daily' = [NoDaily EXCEPT !.pc = "list"]
  /\ UNCHANGED <<sides, dailyRest, push, raced>>

DailyLists ==
  /\ daily.pc = "list"
  /\ daily' = [pc |-> "each", todo |-> {s \in Scenes : linked[s].watchlist},
               local |-> {s \in Scenes : linked[s].local}]
  /\ UNCHANGED <<sides, dailyRest, mutex, push, tally, raced>>

\* syncWatchlistRelease, up to its call of setWatchlistTag.
DailyNext ==
  /\ daily.pc = "each" /\ daily.todo # {}
  /\ LET s == CHOOSE x \in daily.todo : TRUE
     IN IF s \in daily.local /\ ~linked[s].synced
        THEN daily' = [daily EXCEPT !.pc = "push"] /\ StartPush("daily", TRUE)
        ELSE daily' = [daily EXCEPT !.todo = @ \ {s}] /\ UNCHANGED push
  /\ UNCHANGED <<sides, dailyRest, mutex, tally, raced>>

DailyPushes ==
  /\ daily.pc = "push"
  /\ LET s == CHOOSE x \in daily.todo : TRUE
     IN /\ SetWatchlistTag("daily", s)
        /\ daily' = IF push'["daily"] = NoPush THEN [daily EXCEPT !.pc = "each", !.todo = @ \ {s}]
                                               ELSE daily
  /\ UNCHANGED <<dailyRest, mutex, tally>>

\* The list is done, or an error ends the sync.
DailyEnds ==
  /\ \/ daily.pc = "each" /\ daily.todo = {} /\ UNCHANGED <<push, tally>>
     \/ daily.pc = "push" /\ PushFails("daily")
  /\ mutex' = "none" /\ daily' = NoDaily
  /\ UNCHANGED <<sides, dailyRest, raced>>

Daily == DailyStarts \/ DailyLists \/ DailyNext \/ DailyPushes \/ DailyEnds

-----------------------------------------------------------------------------
(* run: the full sync, over a list of the scenes and a list of the rows.   *)

fullRest == <<inbox, realtime, toggle, daily, mutex, stalled>>
FullTo(pc) == full' = [full EXCEPT !.pc = pc]
FullScene == CHOOSE s \in full.scene : TRUE
FullNext == full' = [full EXCEPT !.pc = "each", !.scene = {}]

FullStarts ==
  /\ full.pc = "off" /\ tally.syncs < MaxSyncs
  /\ tally' = [tally EXCEPT !.syncs = @ + 1]
  /\ FullTo("fetch")
  /\ UNCHANGED <<sides, fullRest, push, raced>>

FullFetches ==
  /\ full.pc = "fetch"
  /\ \/ /\ full' = [full EXCEPT !.pc = "list", !.snap = scene]
        /\ raced' = raced \cap realtime.scene /\ UNCHANGED tally
     \/ Failure /\ full' = NoSync /\ UNCHANGED raced
  /\ UNCHANGED <<sides, fullRest, push>>

FullLists ==
  /\ full.pc = "list"
  /\ full' = [full EXCEPT !.pc = "each", !.todo = Scenes, !.rows = linked]
  /\ UNCHANGED <<sides, fullRest, push, tally, raced>>

InStash(s) == full.snap[s].there /\ full.snap[s].coded

FullTakes ==
  /\ full.pc = "each"
  /\ \/ \E s \in full.todo :
          full' = [full EXCEPT !.pc = "link", !.scene = {s}, !.todo = @ \ {s}]
     \/ full.todo = {} /\ full' = NoSync
  /\ UNCHANGED <<sides, fullRest, push, tally, raced>>

\* SetStashState, where the list says it differs, then the choice.
FullLinks ==
  /\ full.pc = "link"
  /\ LET s == FullScene
     IN /\ linked' = IF InStash(s) # full.rows[s].local THEN [linked EXCEPT ![s].local = InStash(s)]
                                                         ELSE linked
        /\ IF InStash(s) THEN FullTo(Verdict(full.snap[s].tag, full.rows[s].watchlist)) ELSE FullNext
  /\ UNCHANGED <<scene, hooks, fullRest, push, tally, raced>>

FullAsks ==
  /\ full.pc = "ask"
  /\ IF linked[FullScene].synced THEN FullTo("patch") /\ UNCHANGED push
                               ELSE FullTo("push") /\ StartPush("full", TRUE)
  /\ UNCHANGED <<sides, fullRest, tally, raced>>

FullPatches ==
  /\ full.pc = "patch"
  /\ linked' = [linked EXCEPT ![FullScene].watchlist = full.snap[FullScene].tag]
  /\ FullTo("store")
  /\ UNCHANGED <<scene, hooks, fullRest, push, tally, raced>>

\* A push that fails is logged and the release goes on.
FullPushes ==
  /\ full.pc = "push"
  /\ SetWatchlistTag("full", FullScene)
  /\ IF push'["full"] = NoPush THEN FullTo("store") ELSE UNCHANGED full
  /\ UNCHANGED <<fullRest, tally>>

FullPushFails ==
  /\ full.pc = "push" /\ PushFails("full") /\ FullTo("store")
  /\ UNCHANGED <<sides, fullRest, raced>>

\* Dates, playback counts and history, where the list says they differ.
FullStores ==
  /\ full.pc = "store"
  /\ LET s == FullScene
     IN linked' = IF full.snap[s].ver # full.rows[s].data
                  THEN [linked EXCEPT ![s].data = full.snap[s].ver] ELSE linked
  /\ FullNext
  /\ UNCHANGED <<scene, hooks, fullRest, push, tally, raced>>

FullSync ==
  \/ FullStarts \/ FullFetches \/ FullLists \/ FullTakes \/ FullLinks \/ FullAsks
  \/ FullPatches \/ FullPushes \/ FullPushFails \/ FullStores

-----------------------------------------------------------------------------

Stash == \E s \in Scenes : CreateScene(s) \/ EditScene(s) \/ DestroyScene(s)
SyncNext ==
  \/ Stash
  \/ \E s \in Scenes : HookArrives(s)
  \/ Worker
  \/ \E t \in Toggles : Toggle(t)
  \/ Daily
  \/ FullSync

SyncSpec == SyncInit /\ [][SyncNext]_syncVars

-----------------------------------------------------------------------------
(* Properties *)

Attempting(s) == realtime.scene = {s}

\* An event that was accepted is not lost: until the scene has been read
\* after it (or every attempt has failed), the scene waits in the map or the
\* worker is at it, and a map that is not empty has a worker awake, a token
\* in the channel, or a settings error that stopped the worker.
NoEventLost ==
  /\ \A s \in unseen : ToSet(pending) \cap {s} # {} \/ Attempting(s)
  /\ pending # <<>> => wake \/ stalled \/ realtime.pc # "asleep"

Quiet ==
  /\ \A s \in Scenes : hooks[s] = 0
  /\ pending = <<>> /\ realtime.pc = "asleep" /\ full.pc = "off" /\ daily.pc = "off"
  /\ \A t \in Toggles : toggle[t].pc \in {"idle", "done"}

\* When nothing is under way and no request has failed, a release agrees with
\* its scene in presence, Watchlist mark and content, unless the scene or the
\* mark changed between the reads and the writes of the last full sync.
AgreeWhenQuiet ==
  Quiet /\ tally.failures = 0 =>
    \A s \in Scenes \ raced :
      /\ scene[s].coded => /\ linked[s].local
                           /\ linked[s].watchlist = scene[s].tag
                           /\ linked[s].data = scene[s].ver
      /\ ~scene[s].there => ~linked[s].local
=============================================================================
