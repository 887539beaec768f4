--------------------------- MODULE ServicesProofs ---------------------------
(***************************************************************************)
(* Theorems about the background services: the synchronisation with Stash, *)
(* the scores of Discoveries, the play history, the scans for missing      *)
(* files, and the AI enrichment.                                           *)
(***************************************************************************)
EXTENDS StashSync, DiscoveryIndex, PlayHistory, MissingFiles, Enrichment,
        PriorityQueueTheorems, FiniteSetTheorems, FunctionTheorems

-----------------------------------------------------------------------------
(***************************************************************************)
(* The hooks of Stash (StashSync): a scene that changed is waiting, or was *)
(* fetched after it changed, for any scenes, failures and restarts of the  *)
(* connection.                                                             *)
(*                                                                         *)
(* Who fetches a scene takes it from the map first. A change after the     *)
(* read puts its scene there again (WaitsOrFetched), and a map that is not *)
(* empty has a timer or a worker (Awake).                                  *)
(***************************************************************************)

(* The map of waiting scenes, as a sequence without duplicates.            *)

(* A hook adds its scene and drops no other, wherever it stood before.     *)
LEMMA EnqueuedScenes ==
  ASSUME pending \in Seq(Scenes), NoDuplicates(pending), NEW s \in Scenes
  PROVE  /\ Enqueued(s) \in Seq(Scenes) /\ Enqueued(s) # <<>> /\ NoDuplicates(Enqueued(s))
         /\ ToSet(Enqueued(s)) = ToSet(pending) \cup {s}
<1> DEFINE q == RemoveFirst(pending, s)
<1>1. q \in Seq(Scenes)
  BY RemoveFirstIsSeq
<1>2. NoDuplicates(q) /\ ToSet(q) = ToSet(pending) \ {s}
  BY RemoveFirstDropsOne
<1>3. s \notin ToSet(q) /\ ToSet(q) \cup {s} = ToSet(pending) \cup {s}
  BY <1>2
<1> HIDE DEF q
<1>4. /\ Append(q, s) \in Seq(Scenes) /\ Append(q, s) # <<>>
      /\ NoDuplicates(Append(q, s)) /\ ToSet(Append(q, s)) = ToSet(q) \cup {s}
  BY <1>1, <1>2, <1>3, AppendNewElement
<1> QED  BY <1>3, <1>4 DEF Enqueued, q

-----------------------------------------------------------------------------
(* The invariant.                                                          *)

InboxTypes ==
  /\ pending \in Seq(Scenes) /\ NoDuplicates(pending) /\ unseen \subseteq Scenes
  /\ DOMAIN realtime = {"pc", "scene", "snap", "marked", "left"}

(* Between two scenes the worker holds none.                               *)
HandsEmpty == realtime.pc \in {"asleep", "loop", "pick"} => realtime.scene = {}

(* An event whose scene does not wait is that of the scene the worker has  *)
(* taken and has not read yet: what comes once it has read waits again.    *)
WaitsOrFetched ==
  \A s \in unseen : s \in ToSet(pending) \/ (realtime.pc = "fetch" /\ realtime.scene = {s})

Awake == pending # <<>> => wake \/ stalled \/ realtime.pc # "asleep"

InboxInv == InboxTypes /\ HandsEmpty /\ WaitsOrFetched /\ Awake

inboxVars == <<pending, wake, unseen, realtime, stalled>>

LEMMA InboxStays ==
  ASSUME InboxInv, UNCHANGED inboxVars
  PROVE  InboxInv'
BY DEF InboxInv, InboxTypes, HandsEmpty, WaitsOrFetched, Awake, inboxVars

(* What the worker does once it has read its scene, or before it takes one.*)
LEMMA WorkerGoesOn ==
  ASSUME InboxInv, UNCHANGED <<pending, wake, unseen, stalled>>,
         realtime.pc \notin {"asleep", "loop", "pick", "fetch"},
         \/ \E pc : Step(pc) /\ pc \notin {"asleep", "loop", "pick"}
         \/ Leave
         \/ AttemptFails
         \/ UNCHANGED realtime
         \/ realtime' = [realtime EXCEPT !.pc = "link", !.marked = linked[TheScene].watchlist]
  PROVE  InboxInv'
<1>1. DOMAIN realtime = {"pc", "scene", "snap", "marked", "left"}
  BY DEF InboxInv, InboxTypes
<1>2. /\ DOMAIN realtime' = {"pc", "scene", "snap", "marked", "left"}
      /\ realtime'.pc # "asleep"
      /\ realtime'.pc \in {"loop", "pick"} => realtime'.scene = {}
  BY <1>1 DEF Step, Leave, AttemptFails, Asleep
<1>3. \A s \in unseen : s \in ToSet(pending)
  BY DEF InboxInv, WaitsOrFetched
<1> QED  BY <1>2, <1>3 DEF InboxInv, InboxTypes, HandsEmpty, WaitsOrFetched, Awake

LEMMA InboxInit == SyncInit => InboxInv
<1> SUFFICES ASSUME SyncInit  PROVE InboxInv
  OBVIOUS
<1>1. pending = <<>> /\ unseen = {} /\ realtime = Asleep
  BY DEF SyncInit
<1>2. NoDuplicates(pending) /\ pending \in Seq(Scenes)
  BY <1>1 DEF NoDuplicates
<1> QED  BY <1>1, <1>2 DEF InboxInv, InboxTypes, HandsEmpty, WaitsOrFetched, Awake, Asleep

LEMMA WorkerKeepsInbox ==
  ASSUME InboxInv, Worker
  PROVE  InboxInv'
<1> USE DEF InboxInv
<1>0. DOMAIN realtime = {"pc", "scene", "snap", "marked", "left"}
  BY DEF InboxTypes
<1>1. CASE WorkerWakes
  <2>1. DOMAIN realtime' = DOMAIN realtime /\ realtime'.pc = "loop" /\ realtime'.scene = realtime.scene
    BY <1>0, <1>1 DEF WorkerWakes, Step
  <2> QED  BY <1>1, <2>1 DEF WorkerWakes, InboxTypes, HandsEmpty, WaitsOrFetched, Awake
<1>2. CASE WorkerLoads
  <2>1. /\ DOMAIN realtime' = DOMAIN realtime /\ realtime'.scene = realtime.scene
        /\ realtime'.pc = "pick" \/ (realtime'.pc = "asleep" /\ stalled')
        /\ stalled \/ stalled' => stalled' /\ realtime.pc = "loop"
        /\ UNCHANGED <<pending, wake, unseen>>
    BY <1>0, <1>2 DEF WorkerLoads, Step, inbox
  <2> QED  BY <1>2, <2>1 DEF WorkerLoads, InboxTypes, HandsEmpty, WaitsOrFetched, Awake
<1>3. CASE WorkerPicks
  <2>1. CASE pending = <<>> /\ Step("asleep") /\ UNCHANGED pending
    <3>1. DOMAIN realtime' = DOMAIN realtime /\ realtime'.scene = realtime.scene
      BY <1>0, <2>1 DEF Step
    <3> QED  BY <1>3, <2>1, <3>1 DEF WorkerPicks, InboxTypes, HandsEmpty, WaitsOrFetched, Awake
  <2>2. CASE /\ pending # <<>> /\ pending' = Tail(pending)
             /\ realtime' = [Asleep EXCEPT !.pc = "fetch", !.scene = {Head(pending)},
                                           !.left = RetryAttempts]
    <3>1. /\ DOMAIN realtime' = {"pc", "scene", "snap", "marked", "left"}
          /\ realtime'.pc = "fetch" /\ realtime'.scene = {Head(pending)}
      BY <2>2 DEF Asleep
    <3>2. /\ Tail(pending) \in Seq(Scenes) /\ NoDuplicates(Tail(pending))
          /\ ToSet(Tail(pending)) = ToSet(pending) \ {Head(pending)}
      BY <2>2, TailDropsHead DEF InboxTypes
    <3>3. realtime.pc = "pick" /\ UNCHANGED <<wake, unseen, stalled>>
      BY <1>3 DEF WorkerPicks
    <3> QED  BY <2>2, <3>1, <3>2, <3>3 DEF InboxTypes, HandsEmpty, WaitsOrFetched, Awake
  <2> QED  BY <1>3, <2>1, <2>2 DEF WorkerPicks
<1>4. CASE WorkerFetches
  <2>1. UNCHANGED <<pending, wake, stalled>> /\ realtime.pc = "fetch"
    BY <1>4 DEF WorkerFetches
  <2>2. CASE /\ realtime' = [realtime EXCEPT !.pc = "match", !.snap = scene[TheScene]]
             /\ unseen' = unseen \ realtime.scene
    <3>1. DOMAIN realtime' = DOMAIN realtime /\ realtime'.pc = "match"
      BY <1>0, <2>2
    <3> QED  BY <2>1, <2>2, <3>1 DEF InboxTypes, HandsEmpty, WaitsOrFetched, Awake
  <2>3. CASE realtime.left > 1 /\ AttemptFails /\ Abandon
    <3>1. /\ DOMAIN realtime' = DOMAIN realtime /\ realtime'.pc = "fetch"
          /\ realtime'.scene = realtime.scene /\ unseen' = unseen
      BY <1>0, <2>3 DEF AttemptFails, Abandon
    <3> QED  BY <2>1, <3>1 DEF InboxTypes, HandsEmpty, WaitsOrFetched, Awake
  <2>4. CASE ~(realtime.left > 1) /\ AttemptFails /\ Abandon
    <3>1. /\ DOMAIN realtime' = DOMAIN realtime /\ realtime'.pc = "loop"
          /\ realtime'.scene = {} /\ unseen' = unseen \ realtime.scene
      BY <1>0, <2>4 DEF AttemptFails, Abandon, Leave, Asleep
    <3> QED  BY <2>1, <3>1 DEF InboxTypes, HandsEmpty, WaitsOrFetched, Awake
  <2> QED  BY <1>4, <2>2, <2>3, <2>4 DEF WorkerFetches
<1>5. CASE WorkerMatches
  BY <1>5, WorkerGoesOn DEF WorkerMatches, inbox
<1>6. CASE WorkerLinks
  <2>1. Verdict(realtime.snap.tag, realtime.marked) \notin {"asleep", "loop", "pick"}
    BY DEF Verdict
  <2> QED  BY <1>6, <2>1, WorkerGoesOn DEF WorkerLinks, inbox
<1>7. CASE WorkerAsks
  <2>1. Step("patch") \/ Step("push")
    BY <1>7 DEF WorkerAsks
  <2>2. /\ UNCHANGED <<pending, wake, unseen, stalled>>
        /\ realtime.pc = "ask"
    BY <1>7 DEF WorkerAsks, inbox
  <2> QED  BY <2>1, <2>2, WorkerGoesOn
<1>8. CASE WorkerPatches
  BY <1>8, WorkerGoesOn DEF WorkerPatches, inbox
<1>9. CASE WorkerPushes
  BY <1>9, WorkerGoesOn DEF WorkerPushes, inbox
<1>10. CASE WorkerPushFails
  BY <1>10, WorkerGoesOn DEF WorkerPushFails, inbox
<1>11. CASE WorkerStores
  BY <1>11, WorkerGoesOn DEF WorkerStores, inbox
<1> QED  BY <1>1, <1>2, <1>3, <1>4, <1>5, <1>6, <1>7, <1>8, <1>9, <1>10, <1>11 DEF Worker

LEMMA InboxNext == InboxInv /\ [SyncNext]_syncVars => InboxInv'
<1> SUFFICES ASSUME InboxInv, [SyncNext]_syncVars  PROVE InboxInv'
  OBVIOUS
<1>1. CASE Stash
  BY <1>1, InboxStays DEF Stash, CreateScene, EditScene, DestroyScene, Change, inboxVars, inbox
<1>2. ASSUME NEW s \in Scenes, HookArrives(s)  PROVE InboxInv'
  <2>1. /\ Enqueued(s) \in Seq(Scenes) /\ Enqueued(s) # <<>> /\ NoDuplicates(Enqueued(s))
        /\ ToSet(Enqueued(s)) = ToSet(pending) \cup {s}
    BY EnqueuedScenes DEF InboxInv, InboxTypes
  <2>2. /\ pending' = Enqueued(s) /\ wake' /\ unseen' = unseen \cup {s}
        /\ UNCHANGED <<realtime, stalled>>
    BY <1>2 DEF HookArrives
  <2> HIDE DEF Enqueued
  <2> QED  BY <2>1, <2>2 DEF InboxInv, InboxTypes, HandsEmpty, WaitsOrFetched, Awake
<1>3. CASE Worker
  BY <1>3, WorkerKeepsInbox
<1>4. ASSUME NEW t \in Toggles, Toggle(t)  PROVE InboxInv'
  BY <1>4, InboxStays DEF Toggle, TogglePatches, ToggleLocks, ToggleReads, TogglePushes,
     TogglePushFails, toggleRest, inboxVars, inbox
<1>5. CASE Daily
  BY <1>5, InboxStays DEF Daily, DailyStarts, DailyLists, DailyNext, DailyPushes, DailyEnds,
     dailyRest, inboxVars, inbox
<1>6. CASE FullSync
  BY <1>6, InboxStays DEF FullSync, FullStarts, FullFetches, FullLists, FullTakes, FullLinks,
     FullAsks, FullPatches, FullPushes, FullPushFails, FullStores, fullRest, inboxVars, inbox
<1>7. CASE UNCHANGED syncVars
  BY <1>7, InboxStays DEF syncVars, inboxVars, inbox
<1> QED  BY <1>1, <1>2, <1>3, <1>4, <1>5, <1>6, <1>7 DEF SyncNext

(* An accepted event is not lost, and the worker does not sleep through it,*)
(* whatever the hooks, the syncs, the toggles and the failures are.        *)
THEOREM EventsAreNotLost == SyncSpec => []NoEventLost
<1>1. InboxInv => NoEventLost
  BY DEF InboxInv, WaitsOrFetched, Awake, NoEventLost, Attempting
<1> QED  BY <1>1, InboxInit, InboxNext, PTL DEF SyncSpec

-----------------------------------------------------------------------------
(***************************************************************************)
(* The two sides of a release (StashSync): when nothing is under way, a    *)
(* release that did not change under the last full sync agrees with its    *)
(* scene.                                                                  *)
(*                                                                         *)
(* Each actor works on copies, and what it writes is right only as long as *)
(* its copy is. A copy that is out of date has a hook, or a waiting scene, *)
(* that makes the worker read again (WorkerFits), or its scene is in raced *)
(* (FullFits). While no read is due, a release that disagrees with its     *)
(* scene has an actor whose next steps make it agree (AgreesOrWill): the   *)
(* worker or the full sync, by where it is and what its copies say, or a   *)
(* toggle that still has the tag to push. A push by a copy finds the tag   *)
(* as the copy says or somebody is to read again, so that it never ends    *)
(* without writing.                                                        *)
(***************************************************************************)

SceneState == [there : BOOLEAN, coded : BOOLEAN, tag : BOOLEAN, ver : Nat]
LinkState == [local : BOOLEAN, watchlist : BOOLEAN, synced : BOOLEAN, data : Nat]
PushState == [pc : {"no", "read", "update", "record"}, on : BOOLEAN]
FullState == [pc : {"off", "fetch", "list", "each", "link", "ask", "patch", "push", "store"},
              todo : SUBSET Scenes, scene : SUBSET Scenes,
              snap : [Scenes -> SceneState], rows : [Scenes -> LinkState]]
WorkerState == [pc : {"asleep", "loop", "pick", "fetch", "match", "link", "ask", "patch", "push", "store"},
                scene : SUBSET Scenes, snap : SceneState, marked : BOOLEAN, left : Int]
ToggleState == [pc : {"idle", "lock", "read", "push", "done"}, scene : SUBSET Scenes]
DailyState == [pc : {"off", "list", "each", "push"}, todo : SUBSET Scenes, local : SUBSET Scenes]

SidesShapes ==
  /\ scene \in [Scenes -> SceneState] /\ linked \in [Scenes -> LinkState]
  /\ hooks \in [Scenes -> Nat] /\ push \in [Actors -> PushState]
  /\ \A s \in Scenes : ~scene[s].there => scene[s] = Absent

ActorShapes ==
  /\ realtime \in WorkerState /\ full \in FullState /\ daily \in DailyState
  /\ toggle \in [Toggles -> ToggleState]
  /\ tally \in [changes : Nat, failures : Nat, syncs : Nat]

(* Each actor has one scene in hand while it works on it.                  *)
HandsHoldOne ==
  /\ realtime.pc \in {"asleep", "loop", "pick"} => realtime.scene = {}
  /\ realtime.pc \notin {"asleep", "loop", "pick"} => \E s \in Scenes : realtime.scene = {s}
  /\ realtime.pc = "push" => push["worker"].on
  /\ full.pc \in {"off", "fetch", "list"} => full.todo = {}
  /\ full.pc \in {"off", "fetch", "list", "each"} => full.scene = {}
  /\ full.pc \in {"link", "ask", "patch", "push", "store"} =>
       \E s \in Scenes : full.scene = {s} /\ s \notin full.todo
  /\ full.pc = "push" => push["full"].on
  /\ daily.pc = "push" => daily.todo # {}
  /\ \A t \in Toggles : toggle[t].pc \in {"lock", "read", "push"} =>
       \E s \in Scenes : toggle[t].scene = {s}

(* The worker has yet to read s, or is at s and has read it; the full sync *)
(* has read all scenes, or is to link s.                                   *)
ReadIsDue(s) == hooks[s] > 0 \/ s \in ToSet(pending) \/ (realtime.pc = "fetch" /\ realtime.scene = {s})
HasRead(s) == realtime.scene = {s} /\ realtime.pc # "fetch"
FullHasRead == full.pc \notin {"off", "fetch"}
WillLink(s) == s \in full.todo \/ (full.scene = {s} /\ full.pc = "link")

(* What the worker, and the full sync, read of a scene is what it is, or   *)
(* the scene is read again; and what their choices say of the copies.      *)
WorkerFits(s) ==
  /\ ~ReadIsDue(s) /\ HasRead(s) => realtime.snap = scene[s]
  /\ HasRead(s) /\ realtime.pc \in {"ask", "push"} => realtime.snap.there /\ ~realtime.snap.tag
  /\ HasRead(s) /\ realtime.pc = "store" => realtime.snap.there
  /\ HasRead(s) /\ realtime.pc = "push" /\ push["worker"].pc = "record" => ReadIsDue(s)
FullFits(s) ==
  /\ s \notin raced /\ FullHasRead => full.snap[s] = scene[s]
  /\ full.scene = {s} /\ full.pc \in {"ask", "patch", "push", "store"} => InStash(s)
  /\ full.scene = {s} /\ full.pc \in {"ask", "push"} => ~full.snap[s].tag
  /\ full.scene = {s} /\ full.pc = "push" /\ push["full"].pc = "record" => s \in raced

(* Who will set the mark, or the tag, of a release that disagree.          *)
WorkerWillMark(s) ==
  /\ HasRead(s)
  /\ \/ realtime.pc \in {"match", "ask", "patch"}
     \/ realtime.pc = "link" /\ realtime.marked # scene[s].tag
     \/ realtime.pc = "push" /\ push["worker"].pc \in {"read", "update"}
FullWillMark(s) ==
  \/ full.pc = "list"
  \/ WillLink(s) /\ full.rows[s].watchlist # scene[s].tag
  \/ full.scene = {s} /\ full.pc \in {"ask", "patch"}
  \/ full.scene = {s} /\ full.pc = "push" /\ push["full"].pc \in {"read", "update"}
ToggleWillMark(t, s) ==
  /\ toggle[t].scene = {s}
  /\ \/ toggle[t].pc \in {"lock", "read"}
     \/ /\ toggle[t].pc = "push"
        /\ push[t].pc = "update" \/ (push[t].pc = "read" /\ push[t].on = linked[s].watchlist)

PresenceSettles(s) ==
  \/ (scene[s].coded => linked[s].local) /\ (~scene[s].there => ~linked[s].local)
  \/ HasRead(s) /\ realtime.pc \in {"match", "link"}
  \/ full.pc = "list" \/ (WillLink(s) /\ full.rows[s].local # InStash(s))
MarkSettles(s) ==
  scene[s].coded =>
    \/ linked[s].watchlist = scene[s].tag
    \/ WorkerWillMark(s) \/ FullWillMark(s)
    \/ realtime.scene # {s} /\ ~FullHasRead /\ \E t \in Toggles : ToggleWillMark(t, s)
DataSettles(s) ==
  scene[s].coded =>
    \/ linked[s].data = scene[s].ver
    \/ HasRead(s)
    \/ full.pc = "list"
    \/ (s \in full.todo \/ full.scene = {s}) /\ full.rows[s].data # scene[s].ver

(* A release agrees with its scene, or somebody is to make it agree.       *)
AgreesOrWill(s) ==
  s \notin raced /\ ~ReadIsDue(s) => PresenceSettles(s) /\ MarkSettles(s) /\ DataSettles(s)
Settles(s) == WorkerFits(s) /\ FullFits(s) /\ AgreesOrWill(s)

SyncShapes == SidesShapes /\ ActorShapes /\ HandsHoldOne
AgreeInv == SyncShapes /\ (tally.failures = 0 => \A s \in Scenes : Settles(s))

-----------------------------------------------------------------------------
(* What a push does to the two sides: it changes a tag only with a hook.   *)
SidesMove ==
  /\ \A q \in Scenes : /\ linked'[q].local = linked[q].local
                       /\ linked'[q].watchlist = linked[q].watchlist
                       /\ linked'[q].data = linked[q].data
                       /\ hooks[q] > 0 => hooks'[q] > 0
                       /\ scene'[q] = scene[q] \/ (hooks'[q] > 0 /\ (FullHasRead => q \in raced'))
  /\ raced \subseteq raced'

LEMMA HookCounts ==
  ASSUME SidesShapes, NEW s \in Scenes, Hook(s)
  PROVE  hooks' \in [Scenes -> Nat] /\ hooks'[s] > 0 /\ \A q \in Scenes : hooks[q] > 0 => hooks'[q] > 0
BY StashSyncAssumption DEF SidesShapes, Hook

LEMMA RaceGrows ==
  ASSUME NEW s, Race(s) \/ RaceMark(s)
  PROVE  raced \subseteq raced' /\ (FullHasRead => s \in raced')
BY DEF Race, RaceMark, FullHasRead

LEMMA NoteMoves ==
  ASSUME SidesShapes, NEW s \in Scenes, NEW on \in BOOLEAN, Note(s, on)
  PROVE  /\ linked' \in [Scenes -> LinkState]
         /\ \A q \in Scenes : /\ linked'[q].local = linked[q].local
                              /\ linked'[q].watchlist = linked[q].watchlist
                              /\ linked'[q].data = linked[q].data
<1>1. linked \in [Scenes -> LinkState]
  BY DEF SidesShapes
<1>2. linked' = [linked EXCEPT ![s] = [linked[s] EXCEPT !.synced = on]]
  BY <1>1 DEF Note, LinkState
<1>3. [linked[s] EXCEPT !.synced = on] \in LinkState
  BY <1>1 DEF LinkState
<1> QED  BY <1>1, <1>2, <1>3 DEF LinkState

LEMMA PushEffects ==
  ASSUME SidesShapes, NEW a \in Actors, NEW s \in Scenes, SetWatchlistTag(a, s)
  PROVE  /\ SidesMove /\ SidesShapes'
         /\ \A b \in Actors \ {a} : push'[b] = push[b]
         /\ push'[a] = NoPush \/ push'[a].on = push[a].on
         /\ push[a].pc = "read" =>
              \/ push'[a] = NoPush /\ scene' = scene /\ (scene[s].there => scene[s].tag = push[a].on)
              \/ push'[a].pc = "update" /\ scene' = scene
         /\ push[a].pc = "update" =>
              push'[a].pc = "record" /\ (scene[s].there => hooks'[s] > 0 /\ (FullHasRead => s \in raced'))
         /\ push[a].pc = "record" => push'[a] = NoPush
         /\ push[a].pc # "no"
<1>1. /\ scene \in [Scenes -> SceneState] /\ linked \in [Scenes -> LinkState]
      /\ hooks \in [Scenes -> Nat] /\ push \in [Actors -> PushState] /\ NoPush \in PushState
  BY DEF SidesShapes, NoPush, PushState
<1>2. ASSUME PushEnds(a)  PROVE /\ push' \in [Actors -> PushState] /\ push'[a] = NoPush
                               /\ \A b \in Actors \ {a} : push'[b] = push[b]
  BY <1>1, <1>2 DEF PushEnds
<1>3. ASSUME NEW pc \in {"read", "update", "record"}, PushTo(a, pc)
      PROVE  /\ push' \in [Actors -> PushState] /\ push'[a].pc = pc /\ push'[a].on = push[a].on
             /\ \A b \in Actors \ {a} : push'[b] = push[b]
  <2>1. push' = [push EXCEPT ![a] = [push[a] EXCEPT !.pc = pc]]
    BY <1>1, <1>3 DEF PushTo, PushState
  <2>2. [push[a] EXCEPT !.pc = pc] \in PushState
    BY <1>1 DEF PushState
  <2> QED  BY <1>1, <2>1, <2>2 DEF PushState
<1>4. push[a].on \in BOOLEAN
  BY <1>1 DEF PushState
<1>5. CASE PushReads(a, s)
  <2>1. UNCHANGED <<scene, hooks, raced>> /\ push[a].pc = "read"
    BY <1>5 DEF PushReads
  <2>2. CASE PushEnds(a) /\ UNCHANGED linked /\ ~scene[s].there
    BY <1>1, <1>2, <2>1, <2>2 DEF SidesMove, SidesShapes
  <2>3. CASE PushEnds(a) /\ Note(s, push[a].on) /\ scene[s].tag = push[a].on
    BY <1>1, <1>2, <1>4, <2>1, <2>3, NoteMoves DEF SidesMove, SidesShapes
  <2>4. CASE PushTo(a, "update") /\ UNCHANGED linked
    BY <1>1, <1>3, <2>1, <2>4 DEF SidesMove, SidesShapes
  <2> QED  BY <1>5, <2>2, <2>3, <2>4 DEF PushReads
<1>6. CASE PushUpdates(a, s)
  <2>1. push[a].pc = "update" /\ PushTo(a, "record") /\ UNCHANGED linked
    BY <1>6 DEF PushUpdates
  <2>2. CASE scene[s].there
    <3>1. scene' = [scene EXCEPT ![s].tag = push[a].on] /\ Hook(s) /\ Race(s)
      BY <1>6, <2>2 DEF PushUpdates
    <3>2. [scene[s] EXCEPT !.tag = push[a].on] \in SceneState /\ [scene[s] EXCEPT !.tag = push[a].on].there
      BY <1>1, <1>4, <2>2 DEF SceneState
    <3>3. scene' = [scene EXCEPT ![s] = [scene[s] EXCEPT !.tag = push[a].on]]
      BY <1>1, <3>1 DEF SceneState
    <3>4. scene' \in [Scenes -> SceneState] /\ \A q \in Scenes : ~scene'[q].there => scene'[q] = Absent
      BY <1>1, <3>2, <3>3 DEF SidesShapes
    <3>5. SidesMove /\ hooks'[s] > 0 /\ (FullHasRead => s \in raced')
      BY <1>1, <2>1, <3>1, <3>3, HookCounts, RaceGrows DEF SidesMove
    <3>6. hooks' \in [Scenes -> Nat]
      BY <3>1, HookCounts
    <3> QED  BY <1>1, <1>3, <2>1, <3>4, <3>5, <3>6 DEF SidesShapes
  <2>3. CASE ~scene[s].there
    BY <1>1, <1>3, <1>6, <2>1, <2>3 DEF PushUpdates, SidesMove, SidesShapes
  <2> QED  BY <2>2, <2>3
<1>7. CASE PushRecords(a, s)
  BY <1>1, <1>2, <1>4, <1>7, NoteMoves DEF PushRecords, SidesMove, SidesShapes
<1> QED  BY <1>5, <1>6, <1>7 DEF SetWatchlistTag

-----------------------------------------------------------------------------
(* The types, step by step.                                                *)
LEMMA SyncConstants ==
  /\ Absent \in SceneState /\ Unlinked \in LinkState /\ NoPush \in PushState
  /\ Asleep \in WorkerState /\ NoSync \in FullState
  /\ Toggles \subseteq Actors /\ {"worker", "full", "daily"} \subseteq Actors
  /\ \A t \in Toggles : t # "worker" /\ t # "full" /\ t # "daily" /\ t # "none"
BY StashSyncAssumption
   DEF Absent, SceneState, Unlinked, LinkState, NoPush, PushState, Asleep, WorkerState, NoSync, FullState,
       Actors

LEMMA FailureCounts ==
  ASSUME ActorShapes, Failure
  PROVE  tally' \in [changes : Nat, failures : Nat, syncs : Nat] /\ tally'.failures # 0
BY DEF ActorShapes, Failure

LEMMA PushStarts ==
  ASSUME SidesShapes, NEW a \in Actors, NEW on \in BOOLEAN, StartPush(a, on)
  PROVE  /\ push' \in [Actors -> PushState] /\ push'[a].pc = "read" /\ push'[a].on = on
         /\ \A b \in Actors \ {a} : push'[b] = push[b]
BY DEF SidesShapes, StartPush, PushState

LEMMA PushStops ==
  ASSUME SidesShapes, NEW a \in Actors, PushFails(a)
  PROVE  /\ push' \in [Actors -> PushState] /\ push'[a] = NoPush
         /\ \A b \in Actors \ {a} : push'[b] = push[b]
BY SyncConstants DEF SidesShapes, PushFails, PushEnds

(* What the worker's moves do to its state.                                *)
LEMMA WorkerStep ==
  ASSUME realtime \in WorkerState,
         NEW pc \in {"asleep", "loop", "pick", "fetch", "match", "link", "ask", "patch", "push", "store"},
         Step(pc)
  PROVE  /\ realtime' \in WorkerState /\ realtime'.pc = pc /\ realtime'.scene = realtime.scene
         /\ realtime'.snap = realtime.snap /\ realtime'.marked = realtime.marked
BY DEF WorkerState, Step

LEMMA WorkerLeaves ==
  ASSUME Leave
  PROVE  realtime' \in WorkerState /\ realtime'.pc = "loop" /\ realtime'.scene = {}
BY SyncConstants DEF WorkerState, Leave, Asleep

LEMMA AttemptEnds ==
  ASSUME realtime \in WorkerState, AttemptFails
  PROVE  /\ realtime' \in WorkerState
         /\ \/ realtime'.pc = "fetch" /\ realtime'.scene = realtime.scene
            \/ realtime'.pc = "loop" /\ realtime'.scene = {}
<1>1. CASE realtime.left > 1
  <2>1. realtime' = [realtime EXCEPT !.pc = "fetch", !.left = realtime.left - 1]
    BY <1>1 DEF AttemptFails
  <2>2. realtime.left - 1 \in Int
    BY DEF WorkerState
  <2> QED  BY <2>1, <2>2 DEF WorkerState
<1>2. CASE ~(realtime.left > 1)
  BY <1>2, WorkerLeaves DEF AttemptFails
<1> QED  BY <1>1, <1>2

(* The scene that the worker, or the full sync, is at.                     *)
LEMMA InHand ==
  ASSUME HandsHoldOne
  PROVE  /\ realtime.pc \notin {"asleep", "loop", "pick"} => realtime.scene = {TheScene} /\ TheScene \in Scenes
         /\ full.pc \in {"link", "ask", "patch", "push", "store"} =>
              full.scene = {FullScene} /\ FullScene \in Scenes /\ FullScene \notin full.todo
         /\ \A t \in Toggles : toggle[t].pc \in {"lock", "read", "push"} =>
              toggle[t].scene = {SceneOf(t)} /\ SceneOf(t) \in Scenes
BY DEF HandsHoldOne, TheScene, FullScene, SceneOf

(* A write to one release.                                                 *)
LEMMA OneLink ==
  ASSUME linked \in [Scenes -> LinkState], NEW s \in Scenes, NEW b \in BOOLEAN, NEW n \in Nat
  PROVE  /\ [linked EXCEPT ![s].local = b] \in [Scenes -> LinkState]
         /\ [linked EXCEPT ![s].watchlist = b] \in [Scenes -> LinkState]
         /\ [linked EXCEPT ![s].data = n] \in [Scenes -> LinkState]
<1>1. /\ [linked[s] EXCEPT !.local = b] \in LinkState
      /\ [linked[s] EXCEPT !.watchlist = b] \in LinkState
      /\ [linked[s] EXCEPT !.data = n] \in LinkState
  BY DEF LinkState
<1>2. /\ [linked EXCEPT ![s].local = b] = [linked EXCEPT ![s] = [linked[s] EXCEPT !.local = b]]
      /\ [linked EXCEPT ![s].watchlist = b] = [linked EXCEPT ![s] = [linked[s] EXCEPT !.watchlist = b]]
      /\ [linked EXCEPT ![s].data = n] = [linked EXCEPT ![s] = [linked[s] EXCEPT !.data = n]]
  BY DEF LinkState
<1> QED  BY <1>1, <1>2

LEMMA WorkerKeepsShapes ==
  ASSUME SyncShapes, InboxInv, Worker
  PROVE  SyncShapes'
<1>0. /\ SidesShapes /\ ActorShapes /\ HandsHoldOne /\ realtime \in WorkerState
      /\ realtime.snap \in SceneState /\ linked \in [Scenes -> LinkState]
      /\ "worker" \in Actors /\ "full" \in Actors /\ "worker" # "full"
  BY SyncConstants DEF SyncShapes, ActorShapes, WorkerState, SidesShapes
<1>1. ASSUME UNCHANGED <<scene, linked, hooks, push, full, toggle, daily>>,
             realtime' \in WorkerState, tally' \in [changes : Nat, failures : Nat, syncs : Nat],
             realtime'.pc \in {"asleep", "loop", "pick"} => realtime'.scene = {},
             realtime'.pc \notin {"asleep", "loop", "pick"} => \E s \in Scenes : realtime'.scene = {s},
             realtime'.pc # "push"
      PROVE  SyncShapes'
  BY <1>0, <1>1 DEF SyncShapes, SidesShapes, ActorShapes, HandsHoldOne
<1>2. ASSUME NEW pc \in {"link", "ask", "patch", "push", "store"}, Step(pc), SidesShapes',
             UNCHANGED <<full, toggle, daily, tally>>, push'["full"] = push["full"],
             realtime.pc \notin {"asleep", "loop", "pick"}, pc = "push" => push'["worker"].on
      PROVE  SyncShapes'
  BY <1>0, <1>2, WorkerStep DEF SyncShapes, ActorShapes, HandsHoldOne
<1>3. ASSUME Leave, SidesShapes', UNCHANGED <<full, toggle, daily, tally, push>>
      PROVE  SyncShapes'
  BY <1>0, <1>3, WorkerLeaves DEF SyncShapes, ActorShapes, HandsHoldOne
<1>4. realtime.pc \notin {"asleep", "loop", "pick"} => realtime.scene = {TheScene} /\ TheScene \in Scenes
  BY <1>0, InHand
<1>5. CASE WorkerWakes \/ WorkerLoads
  BY <1>0, <1>1, <1>5, WorkerStep, FailureCounts
     DEF WorkerWakes, WorkerLoads, sides, inbox, workerRest, ActorShapes, HandsHoldOne
<1>6. CASE WorkerPicks
  <2>1. CASE pending # <<>> /\ realtime' = [Asleep EXCEPT !.pc = "fetch", !.scene = {Head(pending)},
                                                           !.left = RetryAttempts]
    <3>1. Head(pending) \in Scenes
      BY <2>1 DEF InboxInv, InboxTypes
    <3>2. realtime' = [pc |-> "fetch", scene |-> {Head(pending)}, snap |-> Absent, marked |-> FALSE,
                       left |-> RetryAttempts]
      BY <2>1 DEF Asleep
    <3>3. realtime' \in WorkerState /\ realtime'.pc = "fetch" /\ realtime'.scene = {Head(pending)}
      BY <3>1, <3>2, StashSyncAssumption, SyncConstants DEF WorkerState
    <3> QED  BY <1>0, <1>1, <1>6, <3>1, <3>3 DEF WorkerPicks, sides, workerRest, ActorShapes
  <2>2. CASE Step("asleep")
    BY <1>0, <1>1, <1>6, <2>2, WorkerStep
       DEF WorkerPicks, sides, workerRest, ActorShapes, HandsHoldOne
  <2> QED  BY <1>6, <2>1, <2>2 DEF WorkerPicks
<1>7. CASE WorkerFetches
  <2>1. CASE realtime' = [realtime EXCEPT !.pc = "match", !.snap = scene[TheScene]] /\ UNCHANGED tally
    <3>1. scene[TheScene] \in SceneState
      BY <1>0, <1>4, <1>7 DEF WorkerFetches, SidesShapes
    <3>2. realtime' \in WorkerState /\ realtime'.pc = "match" /\ realtime'.scene = realtime.scene
      BY <1>0, <2>1, <3>1 DEF WorkerState
    <3> QED  BY <1>0, <1>1, <1>4, <1>7, <2>1, <3>2
                DEF WorkerFetches, sides, workerRest, ActorShapes
  <2>2. CASE Failure /\ AttemptFails
    BY <1>0, <1>1, <1>4, <1>7, <2>2, AttemptEnds, FailureCounts
       DEF WorkerFetches, sides, workerRest
  <2> QED  BY <1>7, <2>1, <2>2 DEF WorkerFetches
<1>8. CASE WorkerMatches
  <2>1. CASE realtime' = [realtime EXCEPT !.pc = "link", !.marked = linked[TheScene].watchlist]
    <3>1. linked[TheScene].watchlist \in BOOLEAN
      BY <1>0, <1>4, <1>8 DEF WorkerMatches, LinkState
    <3>2. realtime' \in WorkerState /\ realtime'.pc = "link" /\ realtime'.scene = realtime.scene
      BY <1>0, <2>1, <3>1 DEF WorkerState
    <3> QED  BY <1>0, <1>1, <1>4, <1>8, <2>1, <3>2
                DEF WorkerMatches, sides, workerRest, ActorShapes
  <2>2. CASE Leave \/ AttemptFails
    BY <1>0, <1>1, <1>4, <1>8, <2>2, AttemptEnds, WorkerLeaves
       DEF WorkerMatches, sides, workerRest, ActorShapes
  <2> QED  BY <1>8, <2>1, <2>2 DEF WorkerMatches
<1>9. CASE WorkerLinks
  <2>1. linked' \in [Scenes -> LinkState]
    BY <1>0, <1>4, <1>9, OneLink DEF WorkerLinks, SceneState
  <2>2. SidesShapes'
    BY <1>0, <1>9, <2>1 DEF WorkerLinks, SidesShapes
  <2> QED  BY <1>0, <1>2, <1>3, <1>9, <2>2 DEF WorkerLinks, Verdict, workerRest
<1>10. CASE WorkerAsks
  <2>1. CASE Step("patch") /\ UNCHANGED push
    BY <1>0, <1>2, <1>10, <2>1 DEF WorkerAsks, workerRest, sides, SidesShapes
  <2>2. CASE Step("push") /\ StartPush("worker", TRUE)
    BY <1>0, <1>2, <1>10, <2>2, PushStarts DEF WorkerAsks, workerRest, sides, SidesShapes
  <2> QED  BY <1>10, <2>1, <2>2 DEF WorkerAsks
<1>11. CASE WorkerPatches
  <2>1. linked' \in [Scenes -> LinkState]
    BY <1>0, <1>4, <1>11, OneLink DEF WorkerPatches, SceneState
  <2>2. SidesShapes'
    BY <1>0, <1>11, <2>1 DEF WorkerPatches, SidesShapes
  <2> QED  BY <1>0, <1>2, <1>3, <1>11, <2>2 DEF WorkerPatches, workerRest
<1>12. CASE WorkerPushes
  <2>1. SetWatchlistTag("worker", TheScene) /\ TheScene \in Scenes /\ realtime.pc = "push"
    BY <1>4, <1>12 DEF WorkerPushes
  <2>2. /\ SidesShapes' /\ push'["full"] = push["full"]
        /\ push'["worker"] = NoPush \/ push'["worker"].on = push["worker"].on
    BY <1>0, <2>1, PushEffects
  <2>3. CASE push'["worker"] = NoPush
    BY <1>0, <1>2, <1>12, <2>1, <2>2, <2>3 DEF WorkerPushes, workerRest
  <2>4. CASE push'["worker"] # NoPush
    BY <1>0, <1>12, <2>1, <2>2, <2>4
       DEF WorkerPushes, workerRest, SyncShapes, ActorShapes, HandsHoldOne
  <2> QED  BY <2>3, <2>4
<1>13. CASE WorkerPushFails
  <2>1. SidesShapes' /\ push'["full"] = push["full"]
    BY <1>0, <1>13, PushStops DEF WorkerPushFails, sides, SidesShapes
  <2>2. realtime' \in WorkerState /\ tally' \in [changes : Nat, failures : Nat, syncs : Nat]
    BY <1>0, <1>13, AttemptEnds, FailureCounts DEF WorkerPushFails, PushFails
  <2> QED  BY <1>0, <1>13, <2>1, <2>2, AttemptEnds
           DEF WorkerPushFails, workerRest, SyncShapes, ActorShapes, HandsHoldOne
<1>14. CASE WorkerStores
  <2>1. linked' \in [Scenes -> LinkState]
    BY <1>0, <1>4, <1>14, OneLink DEF WorkerStores, SceneState
  <2>2. SidesShapes'
    BY <1>0, <1>14, <2>1 DEF WorkerStores, SidesShapes
  <2> QED  BY <1>0, <1>3, <1>14, <2>2 DEF WorkerStores, workerRest
<1> QED
  BY <1>5, <1>6, <1>7, <1>8, <1>9, <1>10, <1>11, <1>12, <1>13, <1>14 DEF Worker

LEMMA StashKeepsShapes ==
  ASSUME SyncShapes, Stash
  PROVE  SyncShapes'
<1>0. /\ SidesShapes /\ ActorShapes /\ HandsHoldOne /\ scene \in [Scenes -> SceneState]
      /\ tally \in [changes : Nat, failures : Nat, syncs : Nat]
  BY DEF SyncShapes, SidesShapes, ActorShapes
<1>1. PICK s \in Scenes, to \in SceneState : Change(s, to) /\ (~to.there => to = Absent)
  <2>1. tally.changes + 1 \in Nat
    BY <1>0
  <2>2. \A coded, tag \in BOOLEAN :
          LET to == [there |-> TRUE, coded |-> coded, tag |-> tag, ver |-> tally.changes + 1]
          IN to \in SceneState /\ to.there
    BY <2>1 DEF SceneState
  <2>3. Absent \in SceneState
    BY SyncConstants
  <2> QED  BY <2>2, <2>3 DEF Stash, CreateScene, EditScene, DestroyScene
<1>2. hooks' \in [Scenes -> Nat]
  BY <1>0, <1>1, HookCounts DEF Change
<1>3. scene' \in [Scenes -> SceneState] /\ \A q \in Scenes : ~scene'[q].there => scene'[q] = Absent
  BY <1>0, <1>1 DEF Change, SidesShapes
<1>4. tally' \in [changes : Nat, failures : Nat, syncs : Nat]
  BY <1>0, <1>1 DEF Change
<1> QED  BY <1>0, <1>1, <1>2, <1>3, <1>4
            DEF Change, SyncShapes, SidesShapes, ActorShapes, HandsHoldOne

LEMMA ToggleKeepsShapes ==
  ASSUME SyncShapes, NEW t \in Toggles, Toggle(t)
  PROVE  SyncShapes'
<1>0. /\ SidesShapes /\ ActorShapes /\ HandsHoldOne /\ linked \in [Scenes -> LinkState]
      /\ t \in Actors /\ t # "worker" /\ t # "full" /\ toggle \in [Toggles -> ToggleState]
      /\ "worker" \in Actors /\ "full" \in Actors
  BY SyncConstants DEF SyncShapes, ActorShapes, SidesShapes
<1>1. ASSUME NEW new \in ToggleState, toggle' = [toggle EXCEPT ![t] = new], SidesShapes',
             new.pc \in {"lock", "read", "push"} => \E s \in Scenes : new.scene = {s},
             UNCHANGED <<realtime, full, daily>>, tally' \in [changes : Nat, failures : Nat, syncs : Nat],
             push'["worker"] = push["worker"], push'["full"] = push["full"]
      PROVE  SyncShapes'
  BY <1>0, <1>1 DEF SyncShapes, ActorShapes, HandsHoldOne
<1>2. toggle[t].pc \in {"lock", "read", "push"} => toggle[t].scene = {SceneOf(t)} /\ SceneOf(t) \in Scenes
  BY <1>0, InHand
<1>3. ASSUME NEW pc \in {"lock", "read", "push"}, ToggleTo(t, pc), toggle[t].pc \in {"lock", "read", "push"}
      PROVE  \E new \in ToggleState : /\ toggle' = [toggle EXCEPT ![t] = new]
                                      /\ \E s \in Scenes : new.scene = {s}
  <2>1. toggle' = [toggle EXCEPT ![t] = [toggle[t] EXCEPT !.pc = pc]]
    BY <1>0, <1>3 DEF ToggleTo, ToggleState
  <2>2. [toggle[t] EXCEPT !.pc = pc] \in ToggleState /\ [toggle[t] EXCEPT !.pc = pc].scene = toggle[t].scene
    BY <1>0, <1>3 DEF ToggleState
  <2> QED  BY <1>2, <1>3, <2>1, <2>2
<1>4. ASSUME Unlock(t)
      PROVE  \E new \in ToggleState : toggle' = [toggle EXCEPT ![t] = new] /\ new.pc = "done"
  <2>1. [pc |-> "done", scene |-> {}] \in ToggleState
    BY DEF ToggleState
  <2> QED  BY <1>4, <2>1 DEF Unlock
<1>5. CASE TogglePatches(t)
  <2>1. PICK s \in Scenes :
          /\ linked' = [linked EXCEPT ![s].watchlist = ~linked[s].watchlist]
          /\ toggle' = [toggle EXCEPT ![t] = [pc |-> "lock", scene |-> {s}]]
    BY <1>0, <1>5 DEF TogglePatches, LinkState
  <2>2. linked' \in [Scenes -> LinkState]
    BY <1>0, <2>1, OneLink
  <2>3. SidesShapes'
    BY <1>0, <1>5, <2>2 DEF TogglePatches, SidesShapes
  <2>4. [pc |-> "lock", scene |-> {s}] \in ToggleState
    BY DEF ToggleState
  <2> QED  BY <1>0, <1>1, <1>5, <2>1, <2>3, <2>4 DEF TogglePatches, toggleRest, ActorShapes
<1>6. CASE ToggleLocks(t)
  BY <1>0, <1>1, <1>3, <1>6 DEF ToggleLocks, toggleRest, sides, ActorShapes, SidesShapes
<1>7. CASE ToggleReads(t)
  <2>1. CASE Unlock(t) /\ UNCHANGED push /\ (UNCHANGED tally \/ Failure)
    BY <1>0, <1>1, <1>4, <1>7, <2>1, FailureCounts
       DEF ToggleReads, toggleRest, sides, ActorShapes, SidesShapes
  <2>2. CASE ToggleTo(t, "push") /\ StartPush(t, linked[SceneOf(t)].watchlist) /\ UNCHANGED tally
    <3>1. linked[SceneOf(t)].watchlist \in BOOLEAN
      BY <1>0, <1>2, <1>7 DEF ToggleReads, LinkState
    <3>2. /\ push' \in [Actors -> PushState]
          /\ push'["worker"] = push["worker"] /\ push'["full"] = push["full"]
      BY <1>0, <2>2, <3>1, PushStarts
    <3> QED  BY <1>0, <1>1, <1>3, <1>7, <2>2, <3>2
                DEF ToggleReads, toggleRest, sides, ActorShapes, SidesShapes
  <2> QED  BY <1>7, <2>1, <2>2 DEF ToggleReads
<1>8. CASE TogglePushes(t)
  <2>1. /\ SidesShapes' /\ push'["worker"] = push["worker"] /\ push'["full"] = push["full"]
    BY <1>0, <1>2, <1>8, PushEffects DEF TogglePushes
  <2>2. CASE Unlock(t)
    BY <1>0, <1>1, <1>4, <1>8, <2>1, <2>2 DEF TogglePushes, toggleRest, ActorShapes
  <2>3. CASE UNCHANGED toggle
    BY <1>0, <1>8, <2>1, <2>3
       DEF TogglePushes, toggleRest, SyncShapes, ActorShapes, HandsHoldOne
  <2> QED  BY <1>8, <2>2, <2>3 DEF TogglePushes
<1>9. CASE TogglePushFails(t)
  <2>1. SidesShapes' /\ push'["worker"] = push["worker"] /\ push'["full"] = push["full"]
    BY <1>0, <1>9, PushStops DEF TogglePushFails, sides, SidesShapes
  <2> QED  BY <1>0, <1>1, <1>4, <1>9, <2>1, FailureCounts
              DEF TogglePushFails, PushFails, toggleRest
<1> QED  BY <1>5, <1>6, <1>7, <1>8, <1>9 DEF Toggle

LEMMA DailyScene ==
  ASSUME SyncShapes, DailyPushes
  PROVE  (CHOOSE x \in daily.todo : TRUE) \in Scenes
BY DEF DailyPushes, SyncShapes, HandsHoldOne, ActorShapes, DailyState

LEMMA DailyKeepsShapes ==
  ASSUME SyncShapes, Daily
  PROVE  SyncShapes'
<1>0. /\ SidesShapes /\ ActorShapes /\ HandsHoldOne /\ daily \in DailyState
      /\ "daily" \in Actors /\ "worker" \in Actors /\ "full" \in Actors
  BY SyncConstants DEF SyncShapes, ActorShapes
<1>1. ASSUME SidesShapes', UNCHANGED <<realtime, full, toggle>>,
             tally' \in [changes : Nat, failures : Nat, syncs : Nat],
             daily' \in DailyState, daily'.pc = "push" => daily'.todo # {},
             push'["worker"] = push["worker"], push'["full"] = push["full"]
      PROVE  SyncShapes'
  BY <1>0, <1>1 DEF SyncShapes, ActorShapes, HandsHoldOne
<1>2. CASE DailyStarts \/ DailyLists
  <2>1. tally' \in [changes : Nat, failures : Nat, syncs : Nat]
    BY <1>0, <1>2 DEF DailyStarts, DailyLists, ActorShapes
  <2>2. daily' \in DailyState /\ daily'.pc # "push"
    BY <1>0, <1>2 DEF DailyStarts, DailyLists, NoDaily, DailyState
  <2> QED  BY <1>0, <1>1, <1>2, <2>1, <2>2
              DEF DailyStarts, DailyLists, dailyRest, sides, SidesShapes
<1>3. CASE DailyNext
  <2>1. /\ push' \in [Actors -> PushState]
        /\ push'["worker"] = push["worker"] /\ push'["full"] = push["full"]
    BY <1>0, <1>3, PushStarts DEF DailyNext, SidesShapes
  <2>2. daily' \in DailyState /\ (daily'.pc = "push" => daily'.todo # {})
    BY <1>0, <1>3 DEF DailyNext, DailyState
  <2> QED  BY <1>0, <1>1, <1>3, <2>1, <2>2
              DEF DailyNext, dailyRest, sides, SidesShapes, ActorShapes
<1>4. CASE DailyPushes
  <2>1. \E s \in Scenes : SetWatchlistTag("daily", s)
    BY <1>4, DailyScene DEF DailyPushes
  <2>2. /\ SidesShapes' /\ push'["worker"] = push["worker"] /\ push'["full"] = push["full"]
    BY <1>0, <2>1, PushEffects
  <2>3. daily' \in DailyState /\ (daily'.pc = "push" => daily'.todo # {})
    BY <1>0, <1>4 DEF DailyPushes, DailyState, HandsHoldOne
  <2> QED  BY <1>0, <1>1, <1>4, <2>2, <2>3 DEF DailyPushes, dailyRest, ActorShapes
<1>5. CASE DailyEnds
  <2>1. /\ push' \in [Actors -> PushState]
        /\ push'["worker"] = push["worker"] /\ push'["full"] = push["full"]
        /\ tally' \in [changes : Nat, failures : Nat, syncs : Nat]
    BY <1>0, <1>5, PushStops, FailureCounts DEF DailyEnds, PushFails, SidesShapes, ActorShapes
  <2>2. daily' \in DailyState /\ daily'.pc # "push"
    BY <1>5 DEF DailyEnds, NoDaily, DailyState
  <2> QED  BY <1>0, <1>1, <1>5, <2>1, <2>2 DEF DailyEnds, dailyRest, sides, SidesShapes
<1> QED  BY <1>2, <1>3, <1>4, <1>5 DEF Daily

(* What the full sync's moves do to its state.                             *)
LEMMA FullStep ==
  ASSUME full \in FullState,
         NEW pc \in {"off", "fetch", "list", "each", "link", "ask", "patch", "push", "store"}, FullTo(pc)
  PROVE  /\ full' \in FullState /\ full'.pc = pc /\ full'.scene = full.scene /\ full'.todo = full.todo
         /\ full'.snap = full.snap /\ full'.rows = full.rows
BY DEF FullState, FullTo

LEMMA FullGoesOn ==
  ASSUME full \in FullState, FullNext
  PROVE  /\ full' \in FullState /\ full'.pc = "each" /\ full'.scene = {} /\ full'.todo = full.todo
         /\ full'.snap = full.snap /\ full'.rows = full.rows
BY DEF FullState, FullNext

LEMMA FullKeepsShapes ==
  ASSUME SyncShapes, FullSync
  PROVE  SyncShapes'
<1>0. /\ SidesShapes /\ ActorShapes /\ HandsHoldOne /\ full \in FullState
      /\ scene \in [Scenes -> SceneState] /\ linked \in [Scenes -> LinkState]
      /\ "worker" \in Actors /\ "full" \in Actors /\ "worker" # "full"
  BY SyncConstants DEF SyncShapes, ActorShapes, SidesShapes
<1>1. ASSUME SidesShapes', UNCHANGED <<realtime, toggle, daily>>, full' \in FullState,
             tally' \in [changes : Nat, failures : Nat, syncs : Nat],
             push'["worker"] = push["worker"],
             full'.pc \in {"off", "fetch", "list"} => full'.todo = {},
             full'.pc \in {"off", "fetch", "list", "each"} => full'.scene = {},
             full'.pc \in {"link", "ask", "patch", "push", "store"} =>
               \E s \in Scenes : full'.scene = {s} /\ s \notin full'.todo,
             full'.pc = "push" => push'["full"].on
      PROVE  SyncShapes'
  BY <1>0, <1>1 DEF SyncShapes, ActorShapes, HandsHoldOne
<1>2. full.pc \in {"link", "ask", "patch", "push", "store"} =>
        full.scene = {FullScene} /\ FullScene \in Scenes /\ FullScene \notin full.todo
  BY <1>0, InHand
<1>3. ASSUME NEW pc \in {"link", "ask", "patch", "push", "store"}, FullTo(pc), SidesShapes',
             UNCHANGED <<realtime, toggle, daily, tally>>, push'["worker"] = push["worker"],
             full.pc \in {"link", "ask", "patch", "push", "store"}, pc = "push" => push'["full"].on
      PROVE  SyncShapes'
  BY <1>0, <1>1, <1>2, <1>3, FullStep DEF ActorShapes
<1>4. ASSUME FullNext, SidesShapes', UNCHANGED <<realtime, toggle, daily, tally, push>>
      PROVE  SyncShapes'
  BY <1>0, <1>1, <1>4, FullGoesOn DEF ActorShapes
<1>5. CASE FullStarts
  <2>1. tally' \in [changes : Nat, failures : Nat, syncs : Nat]
    BY <1>0, <1>5 DEF FullStarts, ActorShapes
  <2> QED  BY <1>0, <1>1, <1>5, <2>1, FullStep
              DEF FullStarts, sides, fullRest, SidesShapes, HandsHoldOne
<1>6. CASE FullFetches
  <2>1. CASE full' = [full EXCEPT !.pc = "list", !.snap = scene] /\ UNCHANGED tally
    <3>1. full' \in FullState /\ full'.pc = "list" /\ full'.todo = full.todo /\ full'.scene = full.scene
      BY <1>0, <2>1 DEF FullState
    <3> QED  BY <1>0, <1>1, <1>6, <2>1, <3>1
             DEF FullFetches, sides, fullRest, SidesShapes, HandsHoldOne, ActorShapes
  <2>2. CASE Failure /\ full' = NoSync
    <3>1. full' \in FullState /\ full'.pc = "off" /\ full'.todo = {} /\ full'.scene = {}
      BY <2>2, SyncConstants DEF NoSync
    <3> QED  BY <1>0, <1>1, <1>6, <2>2, <3>1, FailureCounts
                DEF FullFetches, sides, fullRest, SidesShapes
  <2> QED  BY <1>6, <2>1, <2>2 DEF FullFetches
<1>7. CASE FullLists
  <2>1. full' \in FullState /\ full'.pc = "each" /\ full'.scene = full.scene
    BY <1>0, <1>7 DEF FullLists, FullState
  <2> QED  BY <1>0, <1>1, <1>7, <2>1
              DEF FullLists, sides, fullRest, SidesShapes, HandsHoldOne, ActorShapes
<1>8. CASE FullTakes
  <2>1. CASE full' = NoSync
    <3>1. full' \in FullState /\ full'.pc = "off" /\ full'.todo = {} /\ full'.scene = {}
      BY <2>1, SyncConstants DEF NoSync
    <3> QED  BY <1>0, <1>1, <1>8, <3>1 DEF FullTakes, sides, fullRest, SidesShapes, ActorShapes
  <2>2. ASSUME NEW s \in full.todo,
               full' = [full EXCEPT !.pc = "link", !.scene = {s}, !.todo = full.todo \ {s}]
        PROVE  SyncShapes'
    <3>1. s \in Scenes
      BY <1>0 DEF FullState
    <3>2. full' \in FullState /\ full'.pc = "link" /\ full'.scene = {s} /\ s \notin full'.todo
      BY <1>0, <2>2, <3>1 DEF FullState
    <3> QED  BY <1>0, <1>1, <1>8, <3>1, <3>2
                DEF FullTakes, sides, fullRest, SidesShapes, ActorShapes
  <2> QED  BY <1>8, <2>1, <2>2 DEF FullTakes
<1>9. CASE FullLinks
  <2>1. InStash(FullScene) \in BOOLEAN
    BY DEF InStash
  <2>2. linked' \in [Scenes -> LinkState]
    BY <1>0, <1>2, <1>9, <2>1, OneLink DEF FullLinks
  <2>3. SidesShapes'
    BY <1>0, <1>9, <2>2 DEF FullLinks, SidesShapes
  <2> QED  BY <1>3, <1>4, <1>9, <2>3 DEF FullLinks, Verdict, fullRest
<1>10. CASE FullAsks
  <2>1. CASE FullTo("patch") /\ UNCHANGED push
    BY <1>0, <1>3, <1>10, <2>1 DEF FullAsks, sides, fullRest, SidesShapes
  <2>2. CASE FullTo("push") /\ StartPush("full", TRUE)
    BY <1>0, <1>3, <1>10, <2>2, PushStarts DEF FullAsks, sides, fullRest, SidesShapes
  <2> QED  BY <1>10, <2>1, <2>2 DEF FullAsks
<1>11. CASE FullPatches
  <2>1. full.snap[FullScene].tag \in BOOLEAN
    BY <1>0, <1>2, <1>11 DEF FullPatches, FullState, SceneState
  <2>2. linked' \in [Scenes -> LinkState]
    BY <1>0, <1>2, <1>11, <2>1, OneLink DEF FullPatches
  <2>3. SidesShapes'
    BY <1>0, <1>11, <2>2 DEF FullPatches, SidesShapes
  <2> QED  BY <1>3, <1>11, <2>3 DEF FullPatches, fullRest
<1>12. CASE FullPushes
  <2>1. SetWatchlistTag("full", FullScene) /\ FullScene \in Scenes /\ full.pc = "push"
    BY <1>2, <1>12 DEF FullPushes
  <2>2. /\ SidesShapes' /\ push'["worker"] = push["worker"]
        /\ push'["full"] = NoPush \/ push'["full"].on = push["full"].on
    BY <1>0, <2>1, PushEffects
  <2>3. CASE push'["full"] = NoPush
    BY <1>0, <1>3, <1>12, <2>1, <2>2, <2>3 DEF FullPushes, fullRest
  <2>4. CASE push'["full"] # NoPush
    BY <1>0, <1>12, <2>1, <2>2, <2>4
       DEF FullPushes, fullRest, SyncShapes, ActorShapes, HandsHoldOne
  <2> QED  BY <2>3, <2>4
<1>13. CASE FullPushFails
  <2>1. SidesShapes' /\ push'["worker"] = push["worker"]
    BY <1>0, <1>13, PushStops DEF FullPushFails, sides, SidesShapes
  <2>2. tally' \in [changes : Nat, failures : Nat, syncs : Nat]
    BY <1>0, <1>13, FailureCounts DEF FullPushFails, PushFails
  <2> QED  BY <1>0, <1>1, <1>2, <1>13, <2>1, <2>2, FullStep DEF FullPushFails, fullRest
<1>14. CASE FullStores
  <2>1. full.snap[FullScene].ver \in Nat
    BY <1>0, <1>2, <1>14 DEF FullStores, FullState, SceneState
  <2>2. linked' \in [Scenes -> LinkState]
    BY <1>0, <1>2, <1>14, <2>1, OneLink DEF FullStores
  <2>3. SidesShapes'
    BY <1>0, <1>14, <2>2 DEF FullStores, SidesShapes
  <2> QED  BY <1>4, <1>14, <2>3 DEF FullStores, fullRest
<1> QED
  BY <1>5, <1>6, <1>7, <1>8, <1>9, <1>10, <1>11, <1>12, <1>13, <1>14 DEF FullSync

LEMMA SyncShapesStep ==
  ASSUME SyncShapes, InboxInv, [SyncNext]_syncVars
  PROVE  SyncShapes'
<1>1. ASSUME NEW s \in Scenes, HookArrives(s)  PROVE SyncShapes'
  <2>1. hooks' \in [Scenes -> Nat]
    BY <1>1 DEF HookArrives, SyncShapes, SidesShapes
  <2> QED  BY <1>1, <2>1 DEF HookArrives, SyncShapes, SidesShapes, ActorShapes, HandsHoldOne
<1>2. CASE UNCHANGED syncVars
  BY <1>2 DEF syncVars, sides, inbox, SyncShapes, SidesShapes, ActorShapes, HandsHoldOne
<1> QED
  BY <1>1, <1>2, StashKeepsShapes, WorkerKeepsShapes, ToggleKeepsShapes, DailyKeepsShapes,
     FullKeepsShapes
     DEF SyncNext

-----------------------------------------------------------------------------
(* A step that is not at scene s leaves it settled.                        *)
SceneStays(s) == scene'[s] = scene[s] \/ (ReadIsDue(s)' /\ (FullHasRead => s \in raced'))
LinkStays(s) ==
  /\ linked'[s].local = linked[s].local /\ linked'[s].watchlist = linked[s].watchlist
  /\ linked'[s].data = linked[s].data
StaysDue(s) == (ReadIsDue(s) => ReadIsDue(s)') /\ (s \in raced => s \in raced')
WorkerStays(s) ==
  \/ realtime' = realtime /\ push'["worker"] = push["worker"]
  \/ realtime.scene # {s} /\ realtime'.scene # {s}
FullStays(s) ==
  \/ full' = full /\ push'["full"] = push["full"]
  \/ /\ full.scene # {s} /\ full'.scene # {s} /\ full'.snap = full.snap /\ full'.rows = full.rows
     /\ (full'.pc = "list") = (full.pc = "list") /\ FullHasRead' = FullHasRead
     /\ (s \in full'.todo) = (s \in full.todo)
TogglesStay(s) ==
  scene[s].coded /\ s \notin raced /\ ~ReadIsDue(s)' /\ realtime.scene # {s} /\ ~FullHasRead =>
    \A t \in Toggles : ToggleWillMark(t, s) => ToggleWillMark(t, s)' \/ linked[s].watchlist = scene[s].tag

LEMMA WorkerFitsOn ==
  ASSUME NEW s \in Scenes, WorkerFits(s), SceneStays(s), StaysDue(s), WorkerStays(s)
  PROVE  WorkerFits(s)'
<1>1. CASE realtime' = realtime /\ push'["worker"] = push["worker"]
  BY <1>1 DEF WorkerFits, SceneStays, StaysDue, HasRead
<1>2. CASE realtime'.scene # {s}
  BY <1>2 DEF WorkerFits, HasRead
<1> QED  BY <1>1, <1>2 DEF WorkerStays

LEMMA FullFitsOn ==
  ASSUME NEW s \in Scenes, FullFits(s), SceneStays(s), StaysDue(s), FullStays(s)
  PROVE  FullFits(s)'
<1>1. CASE full' = full /\ push'["full"] = push["full"]
  BY <1>1 DEF FullFits, SceneStays, StaysDue, FullHasRead, InStash
<1>2. CASE full'.scene # {s} /\ full'.snap = full.snap /\ FullHasRead' = FullHasRead
  BY <1>2 DEF FullFits, SceneStays, StaysDue
<1> QED  BY <1>1, <1>2 DEF FullStays

LEMMA AgreesOn ==
  ASSUME NEW s \in Scenes, AgreesOrWill(s), SceneStays(s), LinkStays(s), StaysDue(s),
         WorkerStays(s), FullStays(s), TogglesStay(s)
  PROVE  AgreesOrWill(s)'
<1> SUFFICES ASSUME s \notin raced', ~ReadIsDue(s)'
             PROVE  (PresenceSettles(s) /\ MarkSettles(s) /\ DataSettles(s))'
  BY DEF AgreesOrWill
<1>1. /\ PresenceSettles(s) /\ MarkSettles(s) /\ DataSettles(s)
      /\ scene'[s] = scene[s] /\ s \notin raced
  BY DEF AgreesOrWill, StaysDue, SceneStays
<1>2. /\ HasRead(s)' = HasRead(s) /\ WorkerWillMark(s)' = WorkerWillMark(s)
      /\ HasRead(s) => realtime'.pc = realtime.pc
      /\ (realtime'.scene = {s}) = (realtime.scene = {s})
  BY <1>1 DEF WorkerStays, HasRead, WorkerWillMark
<1>3. /\ WillLink(s)' = WillLink(s) /\ FullWillMark(s)' = FullWillMark(s)
      /\ FullHasRead' = FullHasRead /\ (full'.pc = "list") = (full.pc = "list")
      /\ full'.rows = full.rows /\ InStash(s)' = InStash(s)
      /\ (s \in full'.todo \/ full'.scene = {s}) = (s \in full.todo \/ full.scene = {s})
  BY <1>1 DEF FullStays, WillLink, FullWillMark, FullHasRead, InStash
<1>4. PresenceSettles(s)' /\ DataSettles(s)'
  BY <1>1, <1>2, <1>3 DEF PresenceSettles, DataSettles, LinkStays
<1>5. MarkSettles(s)'
  BY <1>1, <1>2, <1>3 DEF MarkSettles, LinkStays, TogglesStay
<1> QED  BY <1>4, <1>5

LEMMA SettledOn ==
  ASSUME NEW s \in Scenes, Settles(s), SceneStays(s), LinkStays(s), StaysDue(s), WorkerStays(s), FullStays(s),
         TogglesStay(s)
  PROVE  Settles(s)'
BY WorkerFitsOn, FullFitsOn, AgreesOn DEF Settles

(* Most steps move no toggle.                                              *)
LEMMA TogglesRest ==
  ASSUME NEW s \in Scenes, LinkStays(s), \A t \in Toggles : toggle'[t] = toggle[t] /\ push'[t] = push[t]
  PROVE  TogglesStay(s)
BY DEF TogglesStay, ToggleWillMark, LinkStays

(* What a push moves, seen from a scene.                                   *)
LEMMA PushStays ==
  ASSUME SidesShapes, SidesMove, NEW s \in Scenes, UNCHANGED pending,
         (realtime.pc = "fetch" /\ realtime.scene = {s}) => (realtime'.pc = "fetch" /\ realtime'.scene = {s})
  PROVE  SceneStays(s) /\ LinkStays(s) /\ StaysDue(s)
BY DEF SidesMove, SceneStays, LinkStays, StaysDue, ReadIsDue

LEMMA StashSettles ==
  ASSUME SyncShapes, Stash, NEW s \in Scenes, Settles(s)
  PROVE  Settles(s)'
<1>1. PICK q \in Scenes : \E to : Change(q, to)
  BY DEF Stash, CreateScene, EditScene, DestroyScene
<1>2. /\ UNCHANGED <<linked, pending, realtime, full, toggle, push>>
      /\ Hook(q) /\ Race(q) /\ (s # q => scene'[s] = scene[s])
  BY <1>1 DEF Change, inbox, SyncShapes, SidesShapes
<1>3. hooks'[q] > 0 /\ (hooks[s] > 0 => hooks'[s] > 0)
  BY <1>2, HookCounts DEF SyncShapes
<1>4. (s \in raced => s \in raced') /\ (FullHasRead => q \in raced')
  BY <1>2, RaceGrows
<1>5. StaysDue(s) /\ SceneStays(s)
  BY <1>2, <1>3, <1>4 DEF StaysDue, SceneStays, ReadIsDue
<1>6. LinkStays(s) /\ WorkerStays(s) /\ FullStays(s) /\ TogglesStay(s)
  BY <1>2, TogglesRest DEF LinkStays, WorkerStays, FullStays
<1> QED  BY <1>5, <1>6, SettledOn

LEMMA HookSettles ==
  ASSUME SyncShapes, InboxInv, NEW q \in Scenes, HookArrives(q), NEW s \in Scenes, Settles(s)
  PROVE  Settles(s)'
<1>1. ToSet(pending') = ToSet(pending) \cup {q}
  BY EnqueuedScenes DEF HookArrives, InboxInv, InboxTypes
<1>2. /\ UNCHANGED <<scene, linked, realtime, full, toggle, push, raced>>
      /\ (s # q => hooks'[s] = hooks[s])
  BY DEF HookArrives, SyncShapes, SidesShapes
<1>3. StaysDue(s) /\ SceneStays(s)
  BY <1>1, <1>2 DEF StaysDue, SceneStays, ReadIsDue
<1>4. LinkStays(s) /\ WorkerStays(s) /\ FullStays(s) /\ TogglesStay(s)
  BY <1>2, TogglesRest DEF LinkStays, WorkerStays, FullStays
<1> QED  BY <1>3, <1>4, SettledOn

LEMMA DailySettles ==
  ASSUME SyncShapes, Daily, NEW s \in Scenes, Settles(s), tally'.failures = 0
  PROVE  Settles(s)'
<1>0. SidesShapes /\ ActorShapes /\ {"daily", "worker", "full"} \subseteq Actors /\ Toggles \subseteq Actors
      /\ \A t \in Toggles : t # "daily"
  BY SyncConstants DEF SyncShapes
<1>1. UNCHANGED <<pending, realtime, full, toggle>>
  BY DEF Daily, DailyStarts, DailyLists, DailyNext, DailyPushes, DailyEnds, dailyRest, inbox
<1>2. \A b \in Actors \ {"daily"} : push'[b] = push[b]
  <2>1. CASE DailyNext
    BY <1>0, <2>1, PushStarts DEF DailyNext
  <2>2. CASE DailyPushes
    BY <1>0, <2>2, PushEffects, DailyScene DEF DailyPushes, SyncShapes
  <2>3. CASE DailyEnds
    BY <1>0, <2>3, PushStops DEF DailyEnds
  <2> QED  BY <2>1, <2>2, <2>3 DEF Daily, DailyStarts, DailyLists
<1>3. SceneStays(s) /\ LinkStays(s) /\ StaysDue(s)
  <2>1. CASE DailyPushes
    BY <1>0, <1>1, <2>1, PushEffects, PushStays, DailyScene DEF DailyPushes, SyncShapes
  <2>2. CASE UNCHANGED <<scene, linked, hooks, raced>>
    BY <1>1, <2>2 DEF SceneStays, LinkStays, StaysDue, ReadIsDue
  <2> QED  BY <2>1, <2>2 DEF Daily, DailyStarts, DailyLists, DailyNext, DailyEnds, sides
<1>4. WorkerStays(s) /\ FullStays(s) /\ TogglesStay(s)
  BY <1>0, <1>1, <1>2, <1>3, TogglesRest DEF WorkerStays, FullStays
<1> QED  BY <1>3, <1>4, SettledOn

LEMMA ToggleSettles ==
  ASSUME SyncShapes, NEW t \in Toggles, Toggle(t), NEW s \in Scenes, Settles(s), tally'.failures = 0
  PROVE  Settles(s)'
<1>0. /\ SidesShapes /\ ActorShapes /\ HandsHoldOne /\ linked \in [Scenes -> LinkState]
      /\ t \in Actors /\ "worker" \in Actors \ {t} /\ "full" \in Actors \ {t}
      /\ toggle \in [Toggles -> ToggleState] /\ Toggles \subseteq Actors
      /\ ~scene[s].there => ~scene[s].coded
  BY SyncConstants DEF SyncShapes, ActorShapes, SidesShapes, Absent
<1>2. /\ toggle[t].pc \in {"lock", "read", "push"} => toggle[t].scene = {SceneOf(t)} /\ SceneOf(t) \in Scenes
  BY <1>0, InHand
<1>3. ~Failure
  BY <1>0, FailureCounts
<1>4. /\ UNCHANGED <<pending, realtime, full>>
      /\ \A u \in Toggles \ {t} : toggle'[u] = toggle[u]
  BY <1>0
     DEF Toggle, TogglePatches, ToggleLocks, ToggleReads, TogglePushes, TogglePushFails,
         toggleRest, inbox,
              ToggleTo, Unlock
<1>5. ASSUME \A b \in Actors \ {t} : push'[b] = push[b], SceneStays(s), LinkStays(s), StaysDue(s), TogglesStay(s)
      PROVE  Settles(s)'
  BY <1>0, <1>4, <1>5, SettledOn DEF WorkerStays, FullStays
<1>6. ASSUME \A b \in Actors \ {t} : push'[b] = push[b], LinkStays(s),
             ToggleWillMark(t, s) => ToggleWillMark(t, s)' \/ ~scene[s].coded \/ ReadIsDue(s)'
                                       \/ linked[s].watchlist = scene[s].tag
      PROVE  TogglesStay(s)
  BY <1>0, <1>4, <1>6 DEF TogglesStay, ToggleWillMark, LinkStays
<1>7. CASE TogglePatches(t)
  <2>1. PICK q \in Scenes :
          /\ linked' = [linked EXCEPT ![q].watchlist = ~linked[q].watchlist]
          /\ toggle' = [toggle EXCEPT ![t] = [pc |-> "lock", scene |-> {q}]]
          /\ RaceMark(q)
    BY <1>0, <1>7 DEF TogglePatches, LinkState
  <2>2. UNCHANGED <<scene, hooks, push>> /\ toggle[t].pc = "idle" /\ raced \subseteq raced'
    BY <1>7, <2>1, RaceGrows DEF TogglePatches
  <2>3. SceneStays(s) /\ StaysDue(s) /\ ReadIsDue(s)' = ReadIsDue(s)
    BY <1>4, <2>2 DEF SceneStays, StaysDue, ReadIsDue
  <2>4. CASE s # q
    <3>1. LinkStays(s)
      BY <1>0, <2>1, <2>4 DEF LinkStays
    <3>2. ~ToggleWillMark(t, s)
      BY <2>2 DEF ToggleWillMark
    <3> QED  BY <1>5, <1>6, <2>2, <2>3, <3>1, <3>2
  <2>5. CASE s = q
    <3>1. /\ linked'[s].local = linked[s].local /\ linked'[s].data = linked[s].data
          /\ s \notin raced' => s \notin raced /\ ~FullHasRead /\ realtime.scene # {s}
      BY <1>0, <2>1, <2>5 DEF RaceMark, LinkState, FullHasRead
    <3>2. ToggleWillMark(t, s)'
      BY <1>0, <2>1, <2>5 DEF ToggleWillMark
    <3>3. WorkerFits(s)' /\ FullFits(s)'
      BY <1>4, <2>2, <2>3, WorkerFitsOn, FullFitsOn DEF WorkerStays, FullStays, Settles
    <3>4. AgreesOrWill(s)'
      <4> SUFFICES ASSUME s \notin raced', ~ReadIsDue(s)'
                   PROVE  (PresenceSettles(s) /\ MarkSettles(s) /\ DataSettles(s))'
        BY DEF AgreesOrWill
      <4>1. PresenceSettles(s) /\ DataSettles(s) /\ ~FullHasRead' /\ realtime'.scene # {s}
        BY <1>4, <2>3, <3>1 DEF AgreesOrWill, Settles, FullHasRead
      <4>2. PresenceSettles(s)' /\ DataSettles(s)'
        BY <1>4, <2>2, <3>1, <4>1 DEF PresenceSettles, DataSettles, HasRead, WillLink, InStash
      <4>3. MarkSettles(s)'
        BY <3>2, <4>1 DEF MarkSettles
      <4> QED  BY <4>2, <4>3
    <3> QED  BY <3>3, <3>4 DEF Settles
  <2> QED  BY <2>4, <2>5
<1>8. CASE ToggleLocks(t)
  <2>1. UNCHANGED <<scene, linked, hooks, push, raced>> /\ ToggleTo(t, "read") /\ toggle[t].pc = "lock"
    BY <1>8 DEF ToggleLocks, sides
  <2>2. SceneStays(s) /\ LinkStays(s) /\ StaysDue(s)
    BY <1>4, <2>1 DEF SceneStays, LinkStays, StaysDue, ReadIsDue
  <2>3. toggle'[t].pc = "read" /\ toggle'[t].scene = toggle[t].scene
    BY <1>0, <2>1 DEF ToggleTo, ToggleState
  <2>4. ToggleWillMark(t, s) => ToggleWillMark(t, s)'
    BY <2>3 DEF ToggleWillMark
  <2> QED  BY <1>5, <1>6, <2>1, <2>2, <2>4
<1>9. CASE ToggleReads(t)
  <2>1. UNCHANGED <<scene, linked, hooks, raced>> /\ toggle[t].pc = "read"
    BY <1>9 DEF ToggleReads, sides
  <2>2. SceneStays(s) /\ LinkStays(s) /\ StaysDue(s) /\ ReadIsDue(s)' = ReadIsDue(s)
    BY <1>4, <2>1 DEF SceneStays, LinkStays, StaysDue, ReadIsDue
  <2>3. CASE ~linked[SceneOf(t)].local /\ Unlock(t) /\ UNCHANGED push
    <3>1. ASSUME s = SceneOf(t), s \notin raced, ~ReadIsDue(s), realtime.scene # {s}, ~FullHasRead
          PROVE  ~scene[s].coded
      <4>1. PresenceSettles(s) /\ full.todo = {} /\ full.scene = {} /\ full.pc # "list"
        BY <1>0, <3>1 DEF AgreesOrWill, Settles, HandsHoldOne, FullHasRead
      <4> QED  BY <2>3, <3>1, <4>1 DEF PresenceSettles, HasRead, WillLink
    <3>2. ToggleWillMark(t, s) => s = SceneOf(t)
      BY <1>2, <2>1 DEF ToggleWillMark
    <3>3. TogglesStay(s)
      BY <1>4, <2>1, <2>2, <2>3, <3>1, <3>2 DEF TogglesStay, ToggleWillMark
    <3> QED  BY <1>5, <2>2, <2>3, <3>3
  <2>4. CASE linked[SceneOf(t)].local /\ ToggleTo(t, "push") /\ StartPush(t, linked[SceneOf(t)].watchlist)
    <3>1. linked[SceneOf(t)].watchlist \in BOOLEAN
      BY <1>0, <1>2, <2>1 DEF LinkState
    <3>2. /\ push'[t].pc = "read" /\ push'[t].on = linked[SceneOf(t)].watchlist
          /\ \A b \in Actors \ {t} : push'[b] = push[b]
      BY <1>0, <2>4, <3>1, PushStarts
    <3>3. toggle'[t].pc = "push" /\ toggle'[t].scene = {SceneOf(t)}
      BY <1>0, <1>2, <2>1, <2>4 DEF ToggleTo, ToggleState
    <3>4. ToggleWillMark(t, s) => ToggleWillMark(t, s)'
      BY <1>2, <2>1, <3>2, <3>3 DEF ToggleWillMark
    <3> QED  BY <1>5, <1>6, <2>2, <3>2, <3>4
  <2> QED  BY <1>3, <1>9, <2>3, <2>4 DEF ToggleReads
<1>10. CASE TogglePushes(t)
  <2>1. /\ SetWatchlistTag(t, SceneOf(t)) /\ toggle[t].pc = "push" /\ SceneOf(t) \in Scenes
        /\ toggle[t].scene = {SceneOf(t)}
    BY <1>2, <1>10 DEF TogglePushes
  <2>2. SidesMove /\ \A b \in Actors \ {t} : push'[b] = push[b]
    BY <1>0, <2>1, PushEffects
  <2>3. SceneStays(s) /\ LinkStays(s) /\ StaysDue(s)
    BY <1>0, <1>4, <2>2, PushStays
  <2>4. ASSUME s = SceneOf(t), ToggleWillMark(t, s), scene[s].coded, ~ReadIsDue(s)',
               linked[s].watchlist # scene[s].tag
        PROVE  ToggleWillMark(t, s)'
    <3>1. scene[s].there /\ hooks'[s] = 0
      BY <1>0, <2>4, PushEffects, <2>1 DEF ReadIsDue, SidesShapes
    <3>2. push[t].pc = "read" /\ push[t].on = linked[s].watchlist
      BY <1>0, <2>1, <2>4, <3>1, PushEffects DEF ToggleWillMark
    <3>3. push'[t].pc = "update"
      BY <1>0, <2>1, <2>4, <3>1, <3>2, PushEffects
    <3>4. UNCHANGED toggle
      BY <1>10, <3>3 DEF TogglePushes, NoPush
    <3> QED  BY <2>1, <2>4, <3>3, <3>4 DEF ToggleWillMark
  <2>5. ToggleWillMark(t, s) => s = SceneOf(t)
    BY <2>1 DEF ToggleWillMark
  <2> QED  BY <1>5, <1>6, <2>2, <2>3, <2>4, <2>5
<1>11. ~TogglePushFails(t)
  BY <1>3 DEF TogglePushFails, PushFails
<1> QED  BY <1>7, <1>8, <1>9, <1>10, <1>11 DEF Toggle

(* A worker's step on a scene that moves nothing else.                     *)
LEMMA WorkerTurn ==
  ASSUME NEW s \in Scenes, Settles(s), WorkerFits(s)', UNCHANGED <<full, toggle, scene, raced>>,
         push'["full"] = push["full"], ReadIsDue(s) => ReadIsDue(s)',
         s \notin raced /\ ~ReadIsDue(s) /\ ~ReadIsDue(s)' =>
           (PresenceSettles(s) /\ MarkSettles(s) /\ DataSettles(s))'
  PROVE  Settles(s)'
<1>1. FullFits(s)'
  BY FullFitsOn DEF Settles, SceneStays, StaysDue, FullStays
<1> QED  BY <1>1 DEF Settles, AgreesOrWill

LEMMA WorkerSettlesOthers ==
  ASSUME SyncShapes, InboxInv, Worker, NEW s \in Scenes, Settles(s), realtime.scene # {s}, realtime'.scene # {s}
  PROVE  Settles(s)'
<1>0. /\ SidesShapes /\ ActorShapes /\ HandsHoldOne
      /\ "worker" \in Actors /\ Toggles \subseteq Actors \ {"worker"} /\ "full" \in Actors \ {"worker"}
  BY SyncConstants DEF SyncShapes
<1>1. UNCHANGED <<full, toggle>>
  BY DEF Worker, WorkerWakes, WorkerLoads, WorkerPicks, WorkerFetches, WorkerMatches,
         WorkerLinks, WorkerAsks,
         WorkerPatches, WorkerPushes, WorkerPushFails, WorkerStores, workerRest
<1>2. realtime.pc \notin {"asleep", "loop", "pick"} => realtime.scene = {TheScene} /\ TheScene \in Scenes /\ TheScene # s
  BY <1>0, InHand
<1>3. \A b \in Actors \ {"worker"} : push'[b] = push[b]
  <2>1. CASE WorkerAsks
    BY <1>0, <2>1, PushStarts DEF WorkerAsks
  <2>2. CASE WorkerPushes
    BY <1>0, <1>2, <2>2, PushEffects DEF WorkerPushes
  <2>3. CASE WorkerPushFails
    BY <1>0, <2>3, PushStops DEF WorkerPushFails
  <2> QED
    BY <2>1, <2>2, <2>3
       DEF Worker, WorkerWakes, WorkerLoads, WorkerPicks, WorkerFetches, WorkerMatches, WorkerLinks,
           WorkerPatches, WorkerStores
<1>4. s \in ToSet(pending) => s \in ToSet(pending')
  <2>1. CASE WorkerPicks /\ pending # <<>>
    <3>1. s # Head(pending)
      BY <2>1 DEF WorkerPicks, Asleep
    <3> QED  BY <2>1, <3>1, TailDropsHead DEF WorkerPicks, InboxInv, InboxTypes
  <2> QED
    BY <2>1
       DEF Worker, WorkerWakes, WorkerLoads, WorkerPicks, WorkerFetches, WorkerMatches,
           WorkerLinks, WorkerAsks,
                WorkerPatches, WorkerPushes, WorkerPushFails, WorkerStores, inbox
<1>5. SceneStays(s) /\ LinkStays(s) /\ StaysDue(s)
  <2>1. CASE WorkerPushes
    BY <1>0, <1>2, <2>1, PushEffects, PushStays DEF WorkerPushes, inbox
  <2>2. CASE UNCHANGED <<scene, hooks>> /\ linked'[s] = linked[s] /\ (s \in raced => s \in raced')
    BY <1>4, <2>2 DEF SceneStays, LinkStays, StaysDue, ReadIsDue
  <2>3. CASE WorkerLinks \/ WorkerPatches \/ WorkerStores
    BY <1>0, <1>2, <2>2, <2>3 DEF WorkerLinks, WorkerPatches, WorkerStores, SidesShapes
  <2>4. CASE WorkerFetches
    BY <1>0, <1>2, <2>2, <2>4 DEF WorkerFetches, sides
  <2> QED
    BY <2>1, <2>2, <2>3, <2>4
       DEF Worker, WorkerWakes, WorkerLoads, WorkerPicks, WorkerMatches, WorkerAsks, WorkerPushFails, sides
<1>6. WorkerStays(s) /\ FullStays(s) /\ TogglesStay(s)
  BY <1>0, <1>1, <1>3, <1>5, TogglesRest DEF WorkerStays, FullStays
<1> QED  BY <1>5, <1>6, SettledOn

LEMMA WorkerSettlesOwn ==
  ASSUME SyncShapes, InboxInv, Worker, NEW s \in Scenes, Settles(s), tally'.failures = 0,
         realtime.scene = {s} \/ realtime'.scene = {s}
  PROVE  Settles(s)'
<1>0. /\ SidesShapes /\ ActorShapes /\ HandsHoldOne
      /\ realtime \in WorkerState /\ linked \in [Scenes -> LinkState] /\ linked[s] \in LinkState
      /\ "worker" \in Actors /\ Toggles \subseteq Actors \ {"worker"} /\ "full" \in Actors \ {"worker"}
      /\ ~scene[s].there => ~scene[s].coded
  BY SyncConstants DEF SyncShapes, ActorShapes, SidesShapes, Absent
<1>1. ~Failure
  BY <1>0, FailureCounts
<1>2. realtime.pc \notin {"asleep", "loop", "pick"} => TheScene \in Scenes /\ realtime.scene = {TheScene}
  BY <1>0, InHand
<1>3. realtime.scene = {s} => TheScene = s
  BY DEF TheScene
<1>4. /\ WorkerFits(s) /\ FullFits(s)
      /\ s \notin raced /\ ~ReadIsDue(s) => /\ PresenceSettles(s) /\ MarkSettles(s) /\ DataSettles(s)
                                            /\ HasRead(s) => realtime.snap = scene[s]
  BY DEF Settles, AgreesOrWill, WorkerFits
<1>5. realtime.pc \in {"asleep", "loop", "pick"} => realtime.scene = {}
  BY <1>0 DEF HandsHoldOne
<1>6. ~(WorkerWakes \/ WorkerLoads)
  BY <1>0, <1>5, WorkerStep DEF WorkerWakes, WorkerLoads
<1>7. ASSUME UNCHANGED <<scene, hooks, pending, full, toggle, raced>>, push'["full"] = push["full"],
             realtime.scene = {s}, realtime.pc # "fetch", realtime'.scene = {},
             s \notin raced /\ ~ReadIsDue(s) /\ realtime.snap = scene[s] =>
               (PresenceSettles(s) /\ MarkSettles(s) /\ DataSettles(s))'
      PROVE  Settles(s)'
  <2>1. ReadIsDue(s) => ReadIsDue(s)'
    BY <1>7 DEF ReadIsDue
  <2>2. WorkerFits(s)'
    BY <1>7 DEF WorkerFits, HasRead
  <2>3. ~ReadIsDue(s) => realtime.snap = scene[s]
    BY <1>4, <1>7 DEF WorkerFits, HasRead
  <2> QED  BY <1>7, <2>1, <2>2, <2>3, WorkerTurn
<1>8. ASSUME UNCHANGED <<scene, hooks, pending, full, toggle, raced>>, push'["full"] = push["full"],
             realtime.scene = {s}, realtime'.scene = {s}, realtime.pc # "fetch",
             realtime'.pc \notin {"fetch", "ask", "push", "store"} \/ realtime'.snap.there,
             realtime'.pc \in {"ask", "push"} => ~realtime'.snap.tag,
             realtime'.pc = "push" => push'["worker"].pc # "record",
             realtime'.snap = realtime.snap,
             s \notin raced /\ ~ReadIsDue(s) /\ realtime.snap = scene[s] =>
               (PresenceSettles(s) /\ MarkSettles(s) /\ DataSettles(s))'
      PROVE  Settles(s)'
  <2>1. ReadIsDue(s) => ReadIsDue(s)'
    BY <1>8 DEF ReadIsDue
  <2>2. ~ReadIsDue(s) => realtime.snap = scene[s]
    BY <1>4, <1>8 DEF WorkerFits, HasRead
  <2>3. WorkerFits(s)'
    BY <1>8, <2>1, <2>2 DEF WorkerFits, HasRead
  <2> QED  BY <1>8, <2>1, <2>2, <2>3, WorkerTurn
<1>9. CASE WorkerPicks
  <2>1. /\ UNCHANGED <<scene, linked, hooks, full, toggle, raced, push>> /\ realtime.scene # {s}
        /\ pending # <<>> /\ s = Head(pending) /\ pending' = Tail(pending)
        /\ realtime'.pc = "fetch" /\ realtime'.scene = {s}
    <3>1. realtime.scene = {}
      BY <1>5, <1>9 DEF WorkerPicks
    <3>2. ~Step("asleep")
      BY <1>0, <3>1, WorkerStep
    <3> QED  BY <1>9, <3>1, <3>2 DEF WorkerPicks, sides, workerRest, Asleep
  <2>2. ReadIsDue(s)' /\ WorkerFits(s)'
    BY <2>1 DEF ReadIsDue, WorkerFits, HasRead
  <2> QED  BY <2>1, <2>2, WorkerTurn
<1>10. CASE WorkerFetches
  <2>1. /\ UNCHANGED <<scene, linked, hooks, pending, full, toggle, push>> /\ TheScene = s
        /\ realtime' = [realtime EXCEPT !.pc = "match", !.snap = scene[s]]
        /\ raced' = IF full.pc \in {"off", "fetch"} THEN raced \ realtime.scene ELSE raced
        /\ realtime.scene = {s} /\ realtime.pc = "fetch"
    <3>1. realtime' = [realtime EXCEPT !.pc = "match", !.snap = scene[TheScene]]
      BY <1>1, <1>10 DEF WorkerFetches
    <3>2. realtime'.scene = realtime.scene
      BY <1>0, <3>1 DEF WorkerState
    <3> QED  BY <1>1, <1>3, <1>10, <3>1, <3>2 DEF WorkerFetches, sides, workerRest
  <2>2. realtime'.pc = "match" /\ realtime'.scene = {s} /\ realtime'.snap = scene[s]
    BY <1>0, <2>1 DEF WorkerState
  <2>3. WorkerFits(s)'
    BY <2>1, <2>2 DEF WorkerFits, HasRead
  <2>4. FullFits(s)'
    BY <1>4, <2>1 DEF FullFits, FullHasRead, InStash
  <2>5. AgreesOrWill(s)'
    BY <2>2 DEF AgreesOrWill, PresenceSettles, MarkSettles, DataSettles, WorkerWillMark, HasRead
  <2> QED  BY <2>3, <2>4, <2>5 DEF Settles
<1>11. CASE WorkerMatches
  <2>1. /\ UNCHANGED <<scene, linked, hooks, pending, full, toggle, push, raced>> /\ TheScene = s
        /\ realtime.scene = {s} /\ realtime.pc = "match"
    <3>1. realtime'.scene \in {realtime.scene, {}}
      <4>1. ASSUME NEW b, realtime' = [realtime EXCEPT !.pc = "link", !.marked = b]
            PROVE  realtime'.scene = realtime.scene
        BY <1>0, <4>1 DEF WorkerState
      <4> QED  BY <1>0, <1>11, <4>1, AttemptEnds, WorkerLeaves DEF WorkerMatches
    <3> QED  BY <1>3, <1>11, <3>1 DEF WorkerMatches, sides, workerRest, inbox
  <2>2. CASE realtime' = [realtime EXCEPT !.pc = "link", !.marked = linked[s].watchlist]
    <3>1. /\ realtime'.pc = "link" /\ realtime'.scene = {s} /\ realtime'.snap = realtime.snap
          /\ realtime'.marked = linked[s].watchlist
      BY <1>0, <2>1, <2>2 DEF WorkerState
    <3>2. (PresenceSettles(s) /\ MarkSettles(s) /\ DataSettles(s))'
      BY <2>1, <3>1 DEF PresenceSettles, MarkSettles, DataSettles, WorkerWillMark, HasRead
    <3> QED  BY <1>8, <2>1, <3>1, <3>2
  <2>3. CASE ~linked[s].local /\ ~realtime.snap.there /\ Leave
    <3>1. realtime.snap = scene[s] => (PresenceSettles(s) /\ MarkSettles(s) /\ DataSettles(s))'
      BY <1>0, <2>1, <2>3 DEF PresenceSettles, MarkSettles, DataSettles
    <3> QED  BY <1>7, <2>1, <2>3, <3>1, WorkerLeaves
  <2>4. CASE realtime.snap.there /\ ~realtime.snap.coded /\ AttemptFails
    <3>1. CASE realtime'.pc = "loop" /\ realtime'.scene = {}
      <4>1. realtime.snap = scene[s] => (PresenceSettles(s) /\ MarkSettles(s) /\ DataSettles(s))'
        BY <1>0, <2>1, <2>4 DEF PresenceSettles, MarkSettles, DataSettles
      <4> QED  BY <1>7, <2>1, <3>1, <4>1
    <3>2. CASE realtime'.pc = "fetch" /\ realtime'.scene = {s}
      <4>1. ReadIsDue(s)' /\ WorkerFits(s)'
        BY <3>2 DEF ReadIsDue, WorkerFits, HasRead
      <4> QED  BY <2>1, <4>1, WorkerTurn
    <3> QED  BY <1>0, <2>1, <2>4, <3>1, <3>2, AttemptEnds
  <2> QED  BY <1>11, <2>1, <2>2, <2>3, <2>4 DEF WorkerMatches
<1>12. CASE WorkerLinks
  <2>1. /\ UNCHANGED <<scene, hooks, pending, full, toggle, push, raced>> /\ TheScene = s
        /\ realtime.scene = {s} /\ realtime.pc = "link"
        /\ linked' = [linked EXCEPT ![s].local = realtime.snap.there]
    BY <1>2, <1>3, <1>12, WorkerStep, WorkerLeaves, <1>0
       DEF WorkerLinks, inbox, workerRest, Verdict
  <2>2. /\ linked'[s].local = realtime.snap.there /\ linked'[s].watchlist = linked[s].watchlist
    BY <1>0, <2>1 DEF LinkState
  <2>3. CASE realtime.snap.there
    <3>1. Step(Verdict(realtime.snap.tag, realtime.marked))
      BY <1>12, <2>3 DEF WorkerLinks
    <3>2. /\ realtime'.pc = Verdict(realtime.snap.tag, realtime.marked) /\ realtime'.scene = {s}
          /\ realtime'.snap = realtime.snap
      BY <1>0, <2>1, <3>1, WorkerStep DEF Verdict
    <3>3. /\ realtime'.pc \in {"store", "ask", "patch"} /\ (realtime'.pc = "ask" => ~realtime'.snap.tag)
          /\ realtime.marked # realtime.snap.tag => realtime'.pc \in {"ask", "patch"}
      BY <1>0, <3>2 DEF Verdict, WorkerState, SceneState
    <3>4. s \notin raced /\ ~ReadIsDue(s) /\ realtime.snap = scene[s] => MarkSettles(s)'
      BY <1>4, <2>1, <2>2, <3>2, <3>3
         DEF MarkSettles, WorkerWillMark, FullWillMark, WillLink, HasRead
    <3>5. realtime.snap = scene[s] => PresenceSettles(s)' /\ DataSettles(s)'
      BY <1>0, <2>1, <2>2, <2>3, <3>2, <3>3 DEF PresenceSettles, DataSettles, HasRead
    <3> QED  BY <1>8, <2>1, <2>3, <3>2, <3>3, <3>4, <3>5
  <2>4. CASE ~realtime.snap.there
    <3>1. realtime.snap = scene[s] => (PresenceSettles(s) /\ MarkSettles(s) /\ DataSettles(s))'
      BY <1>0, <2>1, <2>2, <2>4 DEF PresenceSettles, MarkSettles, DataSettles
    <3>2. CASE Leave
      BY <1>7, <2>1, <3>1, <3>2, WorkerLeaves
    <3>3. CASE Step("patch")
      BY <1>0, <1>8, <2>1, <3>1, <3>3, WorkerStep
    <3> QED  BY <1>12, <2>4, <3>2, <3>3 DEF WorkerLinks
  <2> QED  BY <2>3, <2>4
<1>13. CASE WorkerAsks
  <2>1. /\ UNCHANGED <<scene, linked, hooks, pending, full, toggle, raced>> /\ TheScene = s
        /\ realtime.scene = {s} /\ realtime.pc = "ask"
    BY <1>2, <1>3, <1>13, WorkerStep, <1>0 DEF WorkerAsks, inbox, workerRest, sides
  <2>2. realtime.snap.there /\ ~realtime.snap.tag
    BY <1>4, <2>1 DEF WorkerFits, HasRead
  <2>3. ASSUME realtime'.pc = "patch" \/ (realtime'.pc = "push" /\ push'["worker"].pc = "read"),
               realtime'.scene = {s}, realtime'.snap = realtime.snap, push'["full"] = push["full"],
               s \notin raced /\ ~ReadIsDue(s)
        PROVE  (PresenceSettles(s) /\ MarkSettles(s) /\ DataSettles(s))'
    BY <1>4, <2>1, <2>3
       DEF PresenceSettles, MarkSettles, DataSettles, WorkerWillMark, HasRead, WillLink, InStash
  <2>4. CASE Step("patch") /\ UNCHANGED push
    BY <1>0, <1>8, <2>1, <2>2, <2>3, <2>4, WorkerStep
  <2>5. CASE Step("push") /\ StartPush("worker", TRUE)
    <3>1. push'["worker"].pc = "read" /\ push'["full"] = push["full"]
      BY <1>0, <2>5, PushStarts
    <3> QED  BY <1>0, <1>8, <2>1, <2>2, <2>3, <2>5, <3>1, WorkerStep
  <2> QED  BY <1>13, <2>4, <2>5 DEF WorkerAsks
<1>14. CASE WorkerPatches
  <2>1. /\ UNCHANGED <<scene, hooks, pending, full, toggle, push, raced>> /\ TheScene = s
        /\ realtime.scene = {s} /\ realtime.pc = "patch"
        /\ linked' = [linked EXCEPT ![s].watchlist = realtime.snap.there /\ realtime.snap.tag]
    BY <1>2, <1>3, <1>14, WorkerStep, WorkerLeaves, <1>0 DEF WorkerPatches, inbox, workerRest
  <2>2. /\ linked'[s].local = linked[s].local
        /\ realtime.snap.there => linked'[s].watchlist = realtime.snap.tag
    BY <1>0, <2>1 DEF LinkState, WorkerState, SceneState
  <2>3. s \notin raced /\ ~ReadIsDue(s) => PresenceSettles(s)'
    BY <1>4, <2>1, <2>2 DEF PresenceSettles, HasRead, WillLink, InStash
  <2>4. realtime.snap = scene[s] => MarkSettles(s)'
    BY <1>0, <2>1, <2>2 DEF MarkSettles
  <2>5. CASE realtime.snap.there /\ Step("store")
    <3>1. realtime'.pc = "store" /\ realtime'.scene = {s} /\ realtime'.snap = realtime.snap
      BY <1>0, <2>1, <2>5, WorkerStep
    <3>2. DataSettles(s)'
      BY <3>1 DEF DataSettles, HasRead
    <3> QED  BY <1>8, <2>1, <2>3, <2>4, <2>5, <3>1, <3>2
  <2>6. CASE ~realtime.snap.there /\ Leave
    <3>1. realtime.snap = scene[s] => DataSettles(s)'
      BY <1>0, <2>1, <2>6 DEF DataSettles
    <3> QED  BY <1>7, <2>1, <2>3, <2>4, <2>6, <3>1, WorkerLeaves
  <2> QED  BY <1>14, <2>5, <2>6 DEF WorkerPatches
<1>15. CASE WorkerPushes
  <2>1. /\ UNCHANGED <<pending, full, toggle>> /\ TheScene = s
        /\ realtime.scene = {s} /\ realtime.pc = "push" /\ push["worker"].on = TRUE
        /\ SetWatchlistTag("worker", s)
        /\ IF push'["worker"] = NoPush THEN Step("store") ELSE UNCHANGED realtime
    BY <1>2, <1>3, <1>15, WorkerStep, <1>0
       DEF WorkerPushes, inbox, workerRest, SyncShapes, HandsHoldOne, SidesShapes,
       PushState
  <2>2. /\ SidesMove /\ push'["full"] = push["full"] /\ \A t \in Toggles : push'[t] = push[t]
    BY <1>0, <2>1, PushEffects
  <2>3. /\ realtime'.pc \in {"push", "store"} /\ realtime'.scene = {s} /\ realtime'.snap = realtime.snap
        /\ realtime'.pc = "store" => push'["worker"] = NoPush
        /\ realtime'.pc = "push" => push'["worker"] # NoPush
    BY <1>0, <2>1, WorkerStep
  <2>4. SceneStays(s) /\ LinkStays(s) /\ StaysDue(s)
    BY <1>0, <2>1, <2>2, PushStays
  <2>5. realtime.snap.there /\ ~realtime.snap.tag
    BY <1>4, <2>1 DEF WorkerFits, HasRead
  <2>6. ~ReadIsDue(s)' => /\ push["worker"].pc = "read" /\ push'["worker"].pc = "update"
                          /\ scene' = scene /\ ~ReadIsDue(s)
    <3> SUFFICES ASSUME ~ReadIsDue(s)'
                 PROVE  push["worker"].pc = "read" /\ push'["worker"].pc = "update" /\ scene' = scene /\ ~ReadIsDue(s)
      OBVIOUS
    <3>1. ~ReadIsDue(s) /\ realtime.snap = scene[s]
      BY <1>4, <2>1, <2>4 DEF StaysDue, WorkerFits, HasRead
    <3>2. push["worker"].pc \in {"read", "update", "record"}
      BY <1>0, <2>1, PushEffects DEF SidesShapes, PushState
    <3>3. push["worker"].pc # "record"
      BY <1>4, <2>1, <3>1 DEF WorkerFits, HasRead
    <3>4. push["worker"].pc # "update"
      BY <1>0, <2>1, <2>5, <3>1, PushEffects DEF ReadIsDue, SidesShapes
    <3> QED  BY <1>0, <2>1, <2>5, <3>1, <3>2, <3>3, <3>4, PushEffects
  <2>7. WorkerFits(s)'
    <3>1. ~ReadIsDue(s)' => realtime'.snap = scene'[s] /\ push'["worker"].pc # "record"
      BY <1>4, <2>1, <2>3, <2>6 DEF WorkerFits, HasRead
    <3> QED  BY <2>3, <2>5, <3>1 DEF WorkerFits, HasRead
  <2>8. FullFits(s)'
    BY <1>4, <2>1, <2>2, <2>4, FullFitsOn DEF FullStays
  <2>9. AgreesOrWill(s)'
    <3> SUFFICES ASSUME s \notin raced', ~ReadIsDue(s)'
                 PROVE  (PresenceSettles(s) /\ MarkSettles(s) /\ DataSettles(s))'
      BY DEF AgreesOrWill
    <3>1. /\ scene' = scene /\ ~ReadIsDue(s) /\ s \notin raced
          /\ realtime'.pc = "push" /\ push'["worker"].pc = "update"
      BY <2>3, <2>4, <2>6 DEF StaysDue, NoPush
    <3>2. PresenceSettles(s)'
      BY <1>4, <2>1, <2>4, <3>1 DEF PresenceSettles, HasRead, WillLink, InStash, LinkStays
    <3> QED  BY <2>3, <3>1, <3>2 DEF MarkSettles, DataSettles, WorkerWillMark, HasRead
  <2> QED  BY <2>7, <2>8, <2>9 DEF Settles
<1>16. ~WorkerPushFails
  BY <1>1 DEF WorkerPushFails, PushFails
<1>17. CASE WorkerStores
  <2>1. /\ UNCHANGED <<scene, hooks, pending, full, toggle, push, raced>> /\ TheScene = s /\ Leave
        /\ realtime.scene = {s} /\ realtime.pc = "store"
        /\ linked' = [linked EXCEPT ![s].data = realtime.snap.ver]
    BY <1>2, <1>3, <1>17, WorkerLeaves DEF WorkerStores, inbox, workerRest
  <2>2. /\ linked'[s].local = linked[s].local /\ linked'[s].watchlist = linked[s].watchlist
        /\ linked'[s].data = realtime.snap.ver
    BY <1>0, <2>1 DEF LinkState
  <2>3. s \notin raced /\ ~ReadIsDue(s) => PresenceSettles(s)'
    BY <1>4, <2>1, <2>2 DEF PresenceSettles, HasRead, WillLink, InStash
  <2>4. s \notin raced /\ ~ReadIsDue(s) => MarkSettles(s)'
    BY <1>4, <2>1, <2>2 DEF MarkSettles, WorkerWillMark, FullWillMark, WillLink, HasRead
  <2>5. realtime.snap = scene[s] => DataSettles(s)'
    BY <2>1, <2>2 DEF DataSettles
  <2> QED  BY <1>7, <2>1, <2>3, <2>4, <2>5, WorkerLeaves
<1> QED
  BY <1>6, <1>9, <1>10, <1>11, <1>12, <1>13, <1>14, <1>15, <1>16, <1>17 DEF Worker

(* The full sync's step on a release other than the one in hand.           *)
LEMMA FullSettlesOthers ==
  ASSUME SyncShapes, FullSync, full.pc # "list", NEW s \in Scenes, Settles(s),
         full.scene # {s}, full'.scene # {s}, full.pc = "fetch" => full'.pc # "list",
         full.pc = "each" => full'.pc # "off", tally'.failures = 0
  PROVE  Settles(s)'
<1>0. /\ SidesShapes /\ ActorShapes /\ HandsHoldOne /\ full \in FullState
      /\ "full" \in Actors /\ Toggles \subseteq Actors \ {"full"} /\ "worker" \in Actors \ {"full"}
  BY SyncConstants DEF SyncShapes, ActorShapes
<1>1. UNCHANGED <<pending, realtime, toggle>>
  BY DEF FullSync, FullStarts, FullFetches, FullLists, FullTakes, FullLinks, FullAsks,
         FullPatches, FullPushes,
         FullPushFails, FullStores, fullRest, inbox
<1>2. full.pc \in {"link", "ask", "patch", "push", "store"} => FullScene \in Scenes /\ FullScene # s
  BY <1>0, InHand
<1>3. ~Failure
  BY <1>0, FailureCounts
<1>4. \A b \in Actors \ {"full"} : push'[b] = push[b]
  <2>1. CASE FullAsks
    BY <1>0, <2>1, PushStarts DEF FullAsks
  <2>2. CASE FullPushes
    BY <1>0, <1>2, <2>2, PushEffects DEF FullPushes
  <2> QED
    BY <1>3, <2>1, <2>2
       DEF FullSync, FullStarts, FullFetches, FullLists, FullTakes, FullLinks, FullPatches, FullPushFails,
           FullStores, PushFails
<1>5. ~FullFetches
  BY <1>0, <1>3 DEF FullFetches, FullState
<1>6. SceneStays(s) /\ LinkStays(s) /\ StaysDue(s)
  <2>1. CASE FullPushes
    BY <1>0, <1>1, <1>2, <2>1, PushEffects, PushStays DEF FullPushes
  <2>2. CASE UNCHANGED <<scene, hooks, raced>> /\ linked'[s] = linked[s]
    BY <1>1, <2>2 DEF SceneStays, LinkStays, StaysDue, ReadIsDue
  <2>3. CASE FullLinks \/ FullPatches \/ FullStores
    BY <1>0, <1>2, <2>2, <2>3 DEF FullLinks, FullPatches, FullStores, SidesShapes
  <2> QED
    BY <1>5, <2>1, <2>2, <2>3
       DEF FullSync, FullStarts, FullLists, FullTakes, FullAsks, FullPushFails, sides
<1>7. FullStays(s)
  <2>1. CASE FullStarts
    BY <1>0, <2>1, FullStep DEF FullStarts, FullStays, FullHasRead
  <2>2. CASE FullTakes
    <3>1. ~(full' = NoSync)
      <4>1. NoSync.pc = "off"
        BY DEF NoSync
      <4> QED  BY <2>2, <4>1 DEF FullTakes
    <3>2. PICK q \in full.todo : full' = [full EXCEPT !.pc = "link", !.scene = {q}, !.todo = full.todo \ {q}]
      BY <2>2, <3>1 DEF FullTakes
    <3>3. /\ full'.pc = "link" /\ full'.scene = {q} /\ full'.todo = full.todo \ {q}
          /\ full'.snap = full.snap /\ full'.rows = full.rows /\ full.pc = "each"
      BY <1>0, <2>2, <3>2 DEF FullTakes, FullState
    <3> QED  BY <3>3 DEF FullStays, FullHasRead
  <2>3. ASSUME full.pc \in {"link", "ask", "patch", "push", "store"},
               (\E pc \in {"ask", "patch", "push", "store"} : FullTo(pc)) \/ FullNext \/ UNCHANGED full
        PROVE  FullStays(s)
    BY <1>0, <2>3, FullStep, FullGoesOn DEF FullStays, FullHasRead
  <2> QED
    BY <1>5, <2>1, <2>2, <2>3
       DEF FullSync, FullLists, FullLinks, FullAsks, FullPatches, FullPushes, FullPushFails, FullStores, Verdict
<1>8. WorkerStays(s) /\ TogglesStay(s)
  BY <1>0, <1>1, <1>4, <1>6, TogglesRest DEF WorkerStays
<1> QED  BY <1>6, <1>7, <1>8, SettledOn

(* Its step on the release in hand.                                        *)
LEMMA FullTurn ==
  ASSUME NEW s \in Scenes, Settles(s), UNCHANGED <<realtime, pending, scene, hooks, raced>>,
         push'["worker"] = push["worker"],
         full.pc \notin {"off", "fetch"}, full'.snap = full.snap,
         full'.scene = {s} /\ full'.pc \in {"ask", "patch", "push", "store"} => InStash(s),
         full'.scene = {s} /\ full'.pc \in {"ask", "push"} => ~full.snap[s].tag,
         full'.scene = {s} /\ full'.pc = "push" => push'["full"].pc # "record",
         s \notin raced /\ ~ReadIsDue(s) /\ full.snap[s] = scene[s] =>
           (PresenceSettles(s) /\ MarkSettles(s) /\ DataSettles(s))'
  PROVE  Settles(s)'
<1>1. ReadIsDue(s)' = ReadIsDue(s)
  BY DEF ReadIsDue
<1>2. WorkerFits(s)'
  BY <1>1, WorkerFitsOn DEF Settles, SceneStays, StaysDue, WorkerStays
<1>3. s \notin raced => full.snap[s] = scene[s]
  BY DEF Settles, FullFits, FullHasRead
<1>4. FullFits(s)'
  BY <1>3 DEF FullFits, InStash
<1> QED  BY <1>1, <1>2, <1>3, <1>4 DEF Settles, AgreesOrWill

LEMMA FullSettlesOwn ==
  ASSUME SyncShapes, FullSync, NEW s \in Scenes, Settles(s), full.scene = {s}, tally'.failures = 0
  PROVE  Settles(s)'
<1>0. /\ SidesShapes /\ ActorShapes /\ HandsHoldOne /\ full \in FullState
      /\ linked \in [Scenes -> LinkState] /\ linked[s] \in LinkState
      /\ full.snap[s] \in SceneState /\ full.rows[s] \in LinkState
      /\ "full" \in Actors /\ Toggles \subseteq Actors \ {"full"} /\ "worker" \in Actors \ {"full"}
      /\ ~scene[s].there => ~scene[s].coded
  BY SyncConstants DEF SyncShapes, ActorShapes, SidesShapes, Absent, FullState
<1>1. FullScene = s
  BY DEF FullScene
<1>2. full.pc \in {"link", "ask", "patch", "push", "store"} /\ s \notin full.todo
  BY <1>0 DEF HandsHoldOne, FullState
<1>3. ~Failure
  BY <1>0, FailureCounts
<1>4. /\ FullFits(s) /\ (s \notin raced => full.snap[s] = scene[s])
      /\ s \notin raced /\ ~ReadIsDue(s) => PresenceSettles(s) /\ MarkSettles(s) /\ DataSettles(s)
  BY <1>2 DEF Settles, AgreesOrWill, FullFits, FullHasRead
<1>5. UNCHANGED <<pending, realtime, toggle>>
  BY DEF FullSync, FullStarts, FullFetches, FullLists, FullTakes, FullLinks, FullAsks,
         FullPatches, FullPushes,
         FullPushFails, FullStores, fullRest, inbox
<1>6. CASE FullLinks
  <2>1. /\ UNCHANGED <<scene, hooks, push, raced>> /\ full.pc = "link"
        /\ linked' = IF InStash(s) # full.rows[s].local THEN [linked EXCEPT ![s].local = InStash(s)] ELSE linked
    BY <1>1, <1>6 DEF FullLinks
  <2>2. /\ linked'[s].local = (IF InStash(s) # full.rows[s].local THEN InStash(s) ELSE linked[s].local)
        /\ linked'[s].watchlist = linked[s].watchlist /\ linked'[s].data = linked[s].data
    BY <1>0, <2>1 DEF LinkState
  <2>3. /\ full'.snap = full.snap /\ full'.rows = full.rows /\ full'.pc # "list"
    BY <1>0, <1>6, FullStep, FullGoesOn DEF FullLinks, Verdict
  <2>4. s \notin raced /\ ~ReadIsDue(s) /\ full.snap[s] = scene[s] => PresenceSettles(s)'
    BY <1>0, <1>2, <1>4, <1>5, <2>1, <2>2, <2>3 DEF PresenceSettles, HasRead, WillLink, InStash
  <2>5. CASE InStash(s)
    <3>1. FullTo(Verdict(full.snap[s].tag, full.rows[s].watchlist))
      BY <1>1, <1>6, <2>5 DEF FullLinks
    <3>2. /\ full'.pc = Verdict(full.snap[s].tag, full.rows[s].watchlist) /\ full'.scene = {s}
          /\ full'.todo = full.todo
      BY <1>0, <3>1, FullStep DEF Verdict
    <3>3. /\ full'.pc \in {"store", "ask", "patch"} /\ (full'.pc = "ask" => ~full.snap[s].tag)
          /\ full.rows[s].watchlist # full.snap[s].tag => full'.pc \in {"ask", "patch"}
      BY <1>0, <3>2 DEF Verdict, LinkState, SceneState
    <3>4. s \notin raced /\ ~ReadIsDue(s) /\ full.snap[s] = scene[s] => MarkSettles(s)'
      BY <1>2, <1>4, <1>5, <2>1, <2>2, <2>3, <3>2, <3>3
         DEF MarkSettles, WorkerWillMark, FullWillMark, WillLink, HasRead, FullHasRead
    <3>5. s \notin raced /\ ~ReadIsDue(s) => DataSettles(s)'
      BY <1>2, <1>4, <1>5, <2>1, <2>2, <2>3, <3>2, <3>3 DEF DataSettles, HasRead
    <3> QED  BY <1>2, <1>5, <2>1, <2>3, <2>4, <2>5, <3>2, <3>3, <3>4, <3>5, FullTurn
  <2>6. CASE ~InStash(s)
    <3>1. FullNext
      BY <1>1, <1>6, <2>6 DEF FullLinks
    <3>2. full.snap[s] = scene[s] => MarkSettles(s)' /\ DataSettles(s)'
      BY <1>0, <2>1, <2>6 DEF MarkSettles, DataSettles, InStash
    <3> QED  BY <1>0, <1>2, <1>5, <2>1, <2>3, <2>4, <3>1, <3>2, FullTurn, FullGoesOn
  <2> QED  BY <2>5, <2>6
<1>7. CASE FullAsks
  <2>1. UNCHANGED <<scene, linked, hooks, raced>> /\ full.pc = "ask"
    BY <1>7 DEF FullAsks, sides
  <2>2. InStash(s) /\ ~full.snap[s].tag
    BY <1>4, <2>1 DEF FullFits
  <2>3. ASSUME full'.pc = "patch" \/ (full'.pc = "push" /\ push'["full"].pc = "read"),
               full'.scene = {s}, full'.snap = full.snap, full'.rows = full.rows, full'.todo = full.todo,
               s \notin raced /\ ~ReadIsDue(s)
        PROVE  (PresenceSettles(s) /\ MarkSettles(s) /\ DataSettles(s))'
    <3>1. PresenceSettles(s)'
      BY <1>2, <1>4, <1>5, <2>1, <2>3 DEF PresenceSettles, HasRead, WillLink, InStash
    <3>2. MarkSettles(s)' /\ DataSettles(s)'
      BY <1>2, <1>4, <1>5, <2>1, <2>3 DEF MarkSettles, DataSettles, FullWillMark, HasRead
    <3> QED  BY <3>1, <3>2
  <2>4. CASE FullTo("patch") /\ UNCHANGED push
    <3>1. /\ full'.pc = "patch" /\ full'.scene = {s} /\ full'.snap = full.snap /\ full'.rows = full.rows
          /\ full'.todo = full.todo
      BY <1>0, <2>4, FullStep
    <3> QED  BY <1>2, <1>5, <2>1, <2>2, <2>3, <2>4, <3>1, FullTurn
  <2>5. CASE FullTo("push") /\ StartPush("full", TRUE)
    <3>1. /\ full'.pc = "push" /\ full'.scene = {s} /\ full'.snap = full.snap /\ full'.rows = full.rows
          /\ full'.todo = full.todo
      BY <1>0, <2>5, FullStep
    <3>2. push'["full"].pc = "read" /\ push'["worker"] = push["worker"]
      BY <1>0, <2>5, PushStarts
    <3> QED  BY <1>2, <1>5, <2>1, <2>2, <2>3, <3>1, <3>2, FullTurn
  <2> QED  BY <1>7, <2>4, <2>5 DEF FullAsks
<1>8. CASE FullPatches
  <2>1. /\ UNCHANGED <<scene, hooks, push, raced>> /\ full.pc = "patch" /\ FullTo("store")
        /\ linked' = [linked EXCEPT ![s].watchlist = full.snap[s].tag]
    BY <1>1, <1>8 DEF FullPatches
  <2>2. /\ linked'[s].local = linked[s].local /\ linked'[s].data = linked[s].data
        /\ linked'[s].watchlist = full.snap[s].tag
    BY <1>0, <2>1 DEF LinkState
  <2>3. /\ full'.pc = "store" /\ full'.scene = {s} /\ full'.snap = full.snap /\ full'.rows = full.rows
        /\ full'.todo = full.todo
    BY <1>0, <2>1, FullStep
  <2>4. s \notin raced /\ ~ReadIsDue(s) => PresenceSettles(s)' /\ DataSettles(s)'
    BY <1>2, <1>4, <1>5, <2>1, <2>2, <2>3
       DEF PresenceSettles, DataSettles, HasRead, WillLink, InStash
  <2>5. full.snap[s] = scene[s] => MarkSettles(s)'
    BY <2>1, <2>2 DEF MarkSettles
  <2>6. InStash(s)
    BY <1>4, <2>1 DEF FullFits
  <2> QED  BY <1>2, <1>5, <2>1, <2>3, <2>4, <2>5, <2>6, FullTurn
<1>9. CASE FullPushes
  <2>1. /\ SetWatchlistTag("full", s) /\ full.pc = "push" /\ push["full"].on = TRUE
        /\ IF push'["full"] = NoPush THEN FullTo("store") ELSE UNCHANGED full
    BY <1>0, <1>1, <1>9 DEF FullPushes, HandsHoldOne, SidesShapes, PushState
  <2>2. SidesMove /\ push'["worker"] = push["worker"] /\ \A t \in Toggles : push'[t] = push[t]
    BY <1>0, <2>1, PushEffects
  <2>3. /\ full'.pc \in {"push", "store"} /\ full'.scene = {s} /\ full'.snap = full.snap
        /\ full'.rows = full.rows /\ full'.todo = full.todo
        /\ full'.pc = "store" => push'["full"] = NoPush
        /\ full'.pc = "push" => push'["full"] # NoPush
    BY <1>0, <2>1, FullStep
  <2>4. SceneStays(s) /\ LinkStays(s) /\ StaysDue(s)
    BY <1>0, <1>5, <2>2, PushStays
  <2>5. InStash(s) /\ ~full.snap[s].tag /\ FullHasRead /\ FullHasRead'
    BY <1>4, <2>1, <2>3 DEF FullFits, FullHasRead
  <2>6. s \notin raced' => /\ push["full"].pc = "read" /\ push'["full"].pc = "update"
                           /\ scene' = scene /\ s \notin raced
    <3> SUFFICES ASSUME s \notin raced'
                 PROVE  push["full"].pc = "read" /\ push'["full"].pc = "update" /\ scene' = scene /\ s \notin raced
      OBVIOUS
    <3>1. s \notin raced /\ full.snap[s] = scene[s]
      BY <1>4, <2>4 DEF StaysDue
    <3>2. push["full"].pc \in {"read", "update", "record"}
      BY <1>0, <2>1, PushEffects DEF SidesShapes, PushState
    <3>3. push["full"].pc # "record"
      BY <1>4, <2>1, <3>1 DEF FullFits
    <3>4. scene[s].there /\ ~scene[s].tag
      BY <2>5, <3>1 DEF InStash
    <3>5. push["full"].pc # "update"
      BY <1>0, <2>1, <2>5, <3>1, <3>4, PushEffects
    <3> QED  BY <1>0, <2>1, <3>1, <3>2, <3>3, <3>4, <3>5, PushEffects
  <2>7. FullFits(s)'
    <3>1. s \notin raced' => full'.snap[s] = scene'[s] /\ push'["full"].pc # "record"
      BY <1>4, <2>3, <2>6
    <3>2. InStash(s)'
      BY <2>3, <2>5 DEF InStash
    <3> QED  BY <2>3, <2>5, <3>1, <3>2 DEF FullFits
  <2>8. WorkerFits(s)'
    BY <1>5, <2>2, <2>4, WorkerFitsOn DEF WorkerStays, Settles
  <2>9. AgreesOrWill(s)'
    <3> SUFFICES ASSUME s \notin raced', ~ReadIsDue(s)'
                 PROVE  (PresenceSettles(s) /\ MarkSettles(s) /\ DataSettles(s))'
      BY DEF AgreesOrWill
    <3>1. /\ scene' = scene /\ ~ReadIsDue(s) /\ s \notin raced
          /\ full'.pc = "push" /\ push'["full"].pc = "update"
      BY <2>3, <2>4, <2>6 DEF StaysDue, NoPush
    <3>2. PresenceSettles(s)' /\ DataSettles(s)'
      BY <1>2, <1>4, <1>5, <2>1, <2>3, <2>4, <3>1
         DEF PresenceSettles, DataSettles, HasRead, WillLink, InStash, LinkStays
    <3> QED  BY <2>3, <3>1, <3>2 DEF MarkSettles, FullWillMark
  <2> QED  BY <2>7, <2>8, <2>9 DEF Settles
<1>10. CASE FullStores
  <2>1. /\ UNCHANGED <<scene, hooks, push, raced>> /\ full.pc = "store" /\ FullNext
        /\ linked' = IF full.snap[s].ver # full.rows[s].data
                     THEN [linked EXCEPT ![s].data = full.snap[s].ver] ELSE linked
    BY <1>1, <1>10 DEF FullStores
  <2>2. /\ linked'[s].local = linked[s].local /\ linked'[s].watchlist = linked[s].watchlist
        /\ linked'[s].data = IF full.snap[s].ver # full.rows[s].data THEN full.snap[s].ver ELSE linked[s].data
    BY <1>0, <2>1 DEF LinkState
  <2>3. /\ full'.pc = "each" /\ full'.scene = {} /\ full'.snap = full.snap /\ full'.rows = full.rows
        /\ full'.todo = full.todo
    BY <1>0, <2>1, FullGoesOn
  <2>4. s \notin raced /\ ~ReadIsDue(s) => PresenceSettles(s)'
    BY <1>2, <1>4, <1>5, <2>1, <2>2, <2>3 DEF PresenceSettles, HasRead, WillLink, InStash
  <2>5. s \notin raced /\ ~ReadIsDue(s) => MarkSettles(s)'
    BY <1>2, <1>4, <1>5, <2>1, <2>2, <2>3
       DEF MarkSettles, WorkerWillMark, FullWillMark, WillLink, HasRead, FullHasRead
  <2>6. s \notin raced /\ ~ReadIsDue(s) /\ full.snap[s] = scene[s] => DataSettles(s)'
    BY <1>2, <1>4, <1>5, <2>1, <2>2, <2>3 DEF DataSettles, HasRead
  <2> QED  BY <1>2, <1>5, <2>1, <2>3, <2>4, <2>5, <2>6, FullTurn
<1> QED
  BY <1>2, <1>3, <1>6, <1>7, <1>8, <1>9, <1>10
     DEF FullSync, FullStarts, FullFetches, FullLists, FullTakes, FullPushFails, PushFails

LEMMA FullSettles ==
  ASSUME SyncShapes, FullSync, NEW s \in Scenes, Settles(s), tally'.failures = 0
  PROVE  Settles(s)'
<1>0. /\ SidesShapes /\ ActorShapes /\ HandsHoldOne /\ full \in FullState /\ linked \in [Scenes -> LinkState]
      /\ ~scene[s].there => ~scene[s].coded
      /\ WorkerFits(s) /\ FullFits(s)
  BY DEF SyncShapes, ActorShapes, SidesShapes, Absent, Settles
<1>1. ~Failure
  BY <1>0, FailureCounts
<1>2. CASE full.scene = {s}
  BY <1>2, FullSettlesOwn
<1>3. CASE FullFetches
  <2>1. full' = [full EXCEPT !.pc = "list", !.snap = scene] /\ full.pc = "fetch"
    BY <1>1, <1>3 DEF FullFetches
  <2>2. full'.pc = "list" /\ full'.snap = scene /\ full'.scene = {}
    BY <1>0, <2>1 DEF FullState, HandsHoldOne
  <2>3. UNCHANGED <<scene, hooks, pending, realtime, push>>
    BY <1>3 DEF FullFetches, sides, fullRest, inbox
  <2>4. WorkerFits(s)'
    BY <1>0, <2>3 DEF WorkerFits, HasRead, ReadIsDue
  <2>5. FullFits(s)'
    BY <2>2, <2>3 DEF FullFits
  <2>6. AgreesOrWill(s)'
    BY <2>2 DEF AgreesOrWill, PresenceSettles, MarkSettles, DataSettles, FullWillMark
  <2> QED  BY <2>4, <2>5, <2>6 DEF Settles
<1>4. CASE FullLists
  <2>1. /\ UNCHANGED <<scene, linked, hooks, pending, realtime, push, raced>> /\ full.pc = "list"
        /\ full' = [full EXCEPT !.pc = "each", !.todo = Scenes, !.rows = linked]
    BY <1>4 DEF FullLists, sides, fullRest, inbox
  <2>2. /\ full'.pc = "each" /\ full'.snap = full.snap /\ full'.scene = {} /\ full'.todo = Scenes
        /\ full'.rows = linked
    BY <1>0, <2>1 DEF FullState, HandsHoldOne
  <2>3. WorkerFits(s)'
    BY <1>0, <2>1 DEF WorkerFits, HasRead, ReadIsDue
  <2>4. (s \notin raced => full.snap[s] = scene[s]) /\ FullFits(s)'
    BY <1>0, <2>1, <2>2 DEF FullFits, FullHasRead
  <2>5. full.snap[s] = scene[s] => (PresenceSettles(s) /\ MarkSettles(s) /\ DataSettles(s))'
    BY <1>0, <2>1, <2>2
       DEF PresenceSettles, MarkSettles, DataSettles, FullWillMark, WillLink, InStash
  <2>6. AgreesOrWill(s)'
    BY <2>1, <2>4, <2>5 DEF AgreesOrWill
  <2> QED  BY <2>3, <2>4, <2>6 DEF Settles
<1>5. CASE FullTakes /\ full.scene # {s}
  <2>1. UNCHANGED <<scene, linked, hooks, pending, realtime, push, raced>> /\ full.pc = "each"
    BY <1>5 DEF FullTakes, sides, fullRest, inbox
  <2>2. full.scene = {}
    BY <1>0, <2>1 DEF HandsHoldOne
  <2>3. WorkerFits(s)'
    BY <1>0, <2>1 DEF WorkerFits, HasRead, ReadIsDue
  <2>4. s \notin raced /\ ~ReadIsDue(s) => PresenceSettles(s) /\ MarkSettles(s) /\ DataSettles(s)
    BY DEF Settles, AgreesOrWill
  <2>5. ReadIsDue(s)' = ReadIsDue(s)
    BY <2>1 DEF ReadIsDue
  <2>6. CASE full' = NoSync /\ full.todo = {}
    <3>1. full'.pc = "off" /\ full'.scene = {}
      BY <2>6 DEF NoSync
    <3>2. FullFits(s)'
      BY <3>1 DEF FullFits, FullHasRead
    <3>3. s \notin raced /\ ~ReadIsDue(s) => PresenceSettles(s)' /\ DataSettles(s)'
      BY <2>1, <2>2, <2>4, <2>6 DEF PresenceSettles, DataSettles, WillLink, HasRead
    <3>4. s \notin raced /\ ~ReadIsDue(s) => MarkSettles(s)'
      BY <2>1, <2>2, <2>4, <2>6
         DEF MarkSettles, FullWillMark, WorkerWillMark, WillLink, HasRead, FullHasRead
    <3> QED  BY <2>1, <2>3, <2>5, <3>2, <3>3, <3>4 DEF Settles, AgreesOrWill
  <2>7. ASSUME NEW q \in full.todo, full' = [full EXCEPT !.pc = "link", !.scene = {q}, !.todo = full.todo \ {q}]
        PROVE  Settles(s)'
    <3>1. /\ full'.pc = "link" /\ full'.scene = {q} /\ full'.todo = full.todo \ {q}
          /\ full'.snap = full.snap /\ full'.rows = full.rows
      BY <1>0, <2>7 DEF FullState
    <3>2. FullFits(s)'
      BY <1>0, <2>1, <3>1 DEF FullFits, FullHasRead
    <3>3. s \notin raced /\ ~ReadIsDue(s) => PresenceSettles(s)' /\ DataSettles(s)'
      BY <2>1, <2>2, <2>4, <3>1 DEF PresenceSettles, DataSettles, WillLink, HasRead, InStash
    <3>4. s \notin raced /\ ~ReadIsDue(s) => MarkSettles(s)'
      BY <2>1, <2>2, <2>4, <3>1
         DEF MarkSettles, FullWillMark, WorkerWillMark, WillLink, HasRead, FullHasRead
    <3> QED  BY <2>1, <2>3, <2>5, <3>2, <3>3, <3>4 DEF Settles, AgreesOrWill
  <2> QED  BY <1>5, <2>6, <2>7 DEF FullTakes
<1>6. CASE ~FullFetches /\ ~FullLists /\ ~FullTakes /\ full.scene # {s}
  <2>1. full.pc \notin {"fetch", "list", "each"}
    BY <1>6
       DEF FullSync, FullStarts, FullLinks, FullAsks, FullPatches, FullPushes, FullPushFails,
           FullStores
  <2>2. full'.scene \in {full.scene, {}}
    BY <1>0, <1>6, FullStep, FullGoesOn
       DEF FullSync, FullStarts, FullLinks, FullAsks, FullPatches, FullPushes, FullPushFails, FullStores, Verdict
  <2> QED  BY <1>6, <2>1, <2>2, FullSettlesOthers
<1> QED  BY <1>2, <1>3, <1>4, <1>5, <1>6

(* No step counts a failure back.                                          *)
LEMMA FailuresStay ==
  ASSUME SyncShapes, [SyncNext]_syncVars, tally'.failures = 0
  PROVE  tally.failures = 0
<1>1. tally \in [changes : Nat, failures : Nat, syncs : Nat]
  BY DEF SyncShapes, ActorShapes
<1>2. ~Failure
  BY FailureCounts DEF SyncShapes
<1>3. tally'.failures = tally.failures
  <2>1. CASE Stash
    BY <1>1, <2>1 DEF Stash, CreateScene, EditScene, DestroyScene, Change
  <2>2. CASE Worker
    BY <1>2, <2>2
       DEF Worker, WorkerWakes, WorkerLoads, WorkerPicks, WorkerFetches, WorkerMatches, WorkerLinks, WorkerAsks,
           WorkerPatches, WorkerPushes, WorkerPushFails, WorkerStores, PushFails
  <2>3. ASSUME NEW t \in Toggles, Toggle(t)  PROVE tally'.failures = tally.failures
    BY <1>2, <2>3
       DEF Toggle, TogglePatches, ToggleLocks, ToggleReads, TogglePushes, TogglePushFails, PushFails
  <2>4. CASE Daily
    BY <1>1, <1>2, <2>4
       DEF Daily, DailyStarts, DailyLists, DailyNext, DailyPushes, DailyEnds, PushFails
  <2>5. CASE FullSync
    BY <1>1, <1>2, <2>5
       DEF FullSync, FullStarts, FullFetches, FullLists, FullTakes, FullLinks, FullAsks, FullPatches, FullPushes,
           FullPushFails, FullStores, PushFails
  <2>6. CASE (\E s \in Scenes : HookArrives(s)) \/ UNCHANGED syncVars
    BY <2>6 DEF HookArrives, syncVars
  <2> QED  BY <2>1, <2>2, <2>3, <2>4, <2>5, <2>6 DEF SyncNext
<1> QED  BY <1>2, <1>3

LEMMA AgreeStep ==
  ASSUME AgreeInv, InboxInv, [SyncNext]_syncVars
  PROVE  AgreeInv'
<1>1. SyncShapes /\ SyncShapes'
  BY SyncShapesStep DEF AgreeInv
<1>2. ASSUME tally'.failures = 0, NEW s \in Scenes  PROVE Settles(s)'
  <2>1. Settles(s)
    BY <1>1, <1>2, FailuresStay DEF AgreeInv
  <2>2. CASE Worker
    BY <1>1, <1>2, <2>1, <2>2, WorkerSettlesOthers, WorkerSettlesOwn
  <2>3. CASE UNCHANGED syncVars
    BY <2>1, <2>3
       DEF syncVars, sides, inbox, Settles, WorkerFits, FullFits, AgreesOrWill, ReadIsDue, HasRead, FullHasRead, WillLink, WorkerWillMark,
           FullWillMark, ToggleWillMark, PresenceSettles, MarkSettles, DataSettles, InStash
  <2> QED
    BY <1>1, <1>2, <2>1, <2>2, <2>3, StashSettles, HookSettles, ToggleSettles, DailySettles,
       FullSettles
       DEF SyncNext
<1> QED  BY <1>1, <1>2 DEF AgreeInv

LEMMA AgreeInit == SyncInit => AgreeInv
<1> SUFFICES ASSUME SyncInit  PROVE AgreeInv
  OBVIOUS
<1>1. SidesShapes
  BY SyncConstants DEF SyncInit, SidesShapes
<1>2. ActorShapes /\ HandsHoldOne
  <2>1. NoDaily \in DailyState /\ [pc |-> "idle", scene |-> {}] \in ToggleState
    BY DEF NoDaily, DailyState, ToggleState
  <2>2. [changes |-> 0, failures |-> 0, syncs |-> 0] \in [changes : Nat, failures : Nat, syncs : Nat]
    OBVIOUS
  <2> QED  BY <2>1, <2>2, SyncConstants
              DEF SyncInit, ActorShapes, HandsHoldOne, Asleep, NoSync, NoDaily
<1>3. ASSUME NEW s \in Scenes  PROVE Settles(s)
  <2>1. /\ scene[s] = Absent /\ linked[s] = Unlinked /\ realtime.pc = "asleep" /\ realtime.scene = {}
        /\ full.pc = "off" /\ full.scene = {}
    BY <1>3 DEF SyncInit, Asleep, NoSync
  <2> QED
    BY <2>1
       DEF Settles, WorkerFits, FullFits, AgreesOrWill, HasRead, FullHasRead, PresenceSettles, MarkSettles,
           DataSettles, Absent, Unlinked
<1> QED  BY <1>1, <1>2, <1>3 DEF AgreeInv, SyncShapes

(* When nothing is under way nobody is left to make a release agree.       *)
LEMMA QuietAgrees ==
  ASSUME AgreeInv
  PROVE  AgreeWhenQuiet
<1> SUFFICES ASSUME Quiet, tally.failures = 0, NEW s \in Scenes \ raced
             PROVE  /\ scene[s].coded => /\ linked[s].local
                                         /\ linked[s].watchlist = scene[s].tag
                                         /\ linked[s].data = scene[s].ver
                    /\ ~scene[s].there => ~linked[s].local
  BY DEF AgreeWhenQuiet
<1>1. ~ReadIsDue(s) /\ HandsHoldOne
  BY DEF Quiet, ReadIsDue, AgreeInv, SyncShapes, ToSet
<1>2. realtime.scene = {} /\ full.scene = {} /\ full.todo = {} /\ full.pc = "off"
  BY <1>1 DEF Quiet, HandsHoldOne
<1>3. ~HasRead(s) /\ ~WorkerWillMark(s) /\ ~WillLink(s) /\ ~FullWillMark(s)
  BY <1>2 DEF HasRead, WorkerWillMark, WillLink, FullWillMark
<1>4. \A t \in Toggles : ~ToggleWillMark(t, s)
  BY DEF Quiet, ToggleWillMark
<1>5. PresenceSettles(s) /\ MarkSettles(s) /\ DataSettles(s)
  BY <1>1 DEF AgreeInv, Settles, AgreesOrWill
<1> QED  BY <1>2, <1>3, <1>4, <1>5 DEF PresenceSettles, MarkSettles, DataSettles

(* When nothing is under way and no request has failed, a release agrees   *)
(* with its scene (syncRealtimeScene, run, setWatchlistTag and             *)
(* syncWatchlist), unless it changed under the last full sync.             *)
THEOREM ReleasesAgreeWhenQuiet == SyncSpec => []AgreeWhenQuiet
<1>1. SyncInit => AgreeInv /\ InboxInv
  BY AgreeInit, InboxInit
<1>2. AgreeInv /\ InboxInv /\ [SyncNext]_syncVars => (AgreeInv /\ InboxInv)'
  BY AgreeStep, InboxNext
<1>3. AgreeInv => AgreeWhenQuiet
  BY QuietAgrees
<1> QED  BY <1>1, <1>2, <1>3, PTL DEF SyncSpec

-----------------------------------------------------------------------------
(***************************************************************************)
(* The index (DiscoveryIndex): the scores are current, or the next job     *)
(* reads what is not, whatever is written while a job reads its pages,     *)
(* fails, is cut off by a crash or saves its cursor late, for every        *)
(* catalog and every size of a page.                                       *)
(*                                                                         *)
(* The cursor a job saves is the time it was started at, so what the       *)
(* argument needs of a job is that every release it leaves without the     *)
(* score of its present version was written after that time. While the job *)
(* reads pages this holds of the rows whose place in the list is before    *)
(* its offset (PagesSoFar): a write moves its row to the first place and   *)
(* no other row towards it, so that no row the job has not read gets       *)
(* before the offset, and a page that is not full is the last one          *)
(* (FullPage).                                                             *)
(***************************************************************************)

JobPcs == {"off", "begin", "pages", "clone", "subtitles", "score", "finish", "saving"}

\* The job has the fields of a job; of the ends of earlier jobs, records that
\* hold sets of records, the start is enough.
IsJob ==
  /\ job = [pc |-> job.pc, mode |-> job.mode, started |-> job.started, full |-> job.full,
            since |-> job.since, offset |-> job.offset, read |-> job.read,
            index |-> job.index, ends |-> job.ends]
  /\ job.pc \in JobPcs /\ job.started \in Nat /\ job.since \in Nat /\ job.offset \in Nat
  /\ job.full \in BOOLEAN /\ job.read \in [Catalog -> Nat]
  /\ \A j \in job.ends : j.started \in Nat

DiscoveryTypeOK ==
  /\ clock \in Nat /\ indexCursor \in Nat
  /\ updatedAt \in [Catalog -> Nat \ {0}] /\ scored \in [Catalog -> Nat]
  /\ overtaken \in SUBSET Catalog
  /\ write.of = {} \/ \E r \in Catalog : write.of = {r}
  /\ write.at \in Nat /\ (write.of # {} => write.at # 0)
  /\ IsJob

\* Every stamp is of its own and in the past.
Stamped ==
  /\ \A r \in Catalog : updatedAt[r] <= clock
  /\ \A r, s \in Catalog : updatedAt[r] = updatedAt[s] => r = s
  /\ job.started <= clock /\ indexCursor <= clock
  /\ write.of # {} => /\ write.at <= clock /\ write.at # job.started
                      /\ \A r \in Catalog : updatedAt[r] < write.at

\* The cursor is of an earlier start: a write that has not committed is after
\* it, unless the job overtakes that write.
CursorIsPast ==
  /\ job.pc # "off" => indexCursor <= job.started
  /\ job.pc \notin {"off", "begin"} => job.since <= job.started
  /\ write.of # {} => write.at > indexCursor \/ write.at < job.started

\* What a job has read is current, or was written after the job was started.
ReadIsCurrent ==
  \A r \in Catalog \ overtaken :
    job.read[r] > 0 => job.read[r] = updatedAt[r] \/ updatedAt[r] > job.started

\* A job that reads what has changed leaves out nothing that is not current.
RestIsCurrent ==
  job.pc \in {"pages", "clone", "subtitles", "score"} /\ ~job.full =>
    \A r \in Catalog \ overtaken : scored[r] = updatedAt[r] \/ updatedAt[r] > job.since

\* A job has read what is before its offset in the list.
PagesSoFar ==
  /\ job.pc = "begin" => job.offset = 0
  /\ job.pc = "pages" =>
       \A r \in Listed \ overtaken :
         \/ job.read[r] = updatedAt[r] \/ updatedAt[r] > job.started
         \/ PlaceInList(r) >= job.offset

\* After the last page a job has read the list.
AllPages ==
  job.pc \in {"clone", "subtitles", "score"} =>
    \A r \in Listed \ overtaken : job.read[r] = updatedAt[r] \/ updatedAt[r] > job.started

\* The scores are current but for what was written after a time.
CurrentAt(time) == \A r \in Catalog \ overtaken : scored[r] = updatedAt[r] \/ updatedAt[r] > time

\* The cursors that may yet be saved leave nothing out.
EndsAreCovered ==
  /\ job.pc \in {"finish", "saving"} => CurrentAt(job.started)
  /\ \A j \in job.ends : j.started <= job.started /\ CurrentAt(j.started)

DiscoveryInv ==
  /\ DiscoveryTypeOK /\ Stamped /\ CursorIsPast /\ ReadIsCurrent /\ RestIsCurrent
  /\ PagesSoFar /\ AllPages /\ EndsAreCovered /\ ScoresCurrent

-----------------------------------------------------------------------------
(* The list.                                                               *)

\* The rows of L before x.
Before(L, f, x) == {s \in L : f[s] > f[x]}

\* A place is a number, smaller for what is before.
LEMMA PlaceOrder ==
  ASSUME NEW C, NEW L \in SUBSET C, IsFiniteSet(L), NEW f \in [C -> Nat]
  PROVE  /\ \A x \in L : Cardinality(Before(L, f, x)) \in Nat
         /\ \A x, y \in L : f[x] > f[y] =>
              Cardinality(Before(L, f, x)) < Cardinality(Before(L, f, y))
<1>1. \A x \in L : /\ Before(L, f, x) \in SUBSET L /\ IsFiniteSet(Before(L, f, x))
                   /\ Cardinality(Before(L, f, x)) \in Nat
  <2> TAKE x \in L
  <2>1. Before(L, f, x) \in SUBSET L
    BY DEF Before
  <2> QED
    BY <2>1, FS_Subset, FS_CardinalityType
<1>2. ASSUME NEW x \in L, NEW y \in L, f[x] > f[y]
      PROVE  Cardinality(Before(L, f, x)) < Cardinality(Before(L, f, y))
  <2>1. Before(L, f, x) \in SUBSET Before(L, f, y)
    <3> SUFFICES ASSUME NEW s \in L, f[s] > f[x] PROVE f[s] > f[y]
      BY DEF Before
    <3>1. f[s] \in Nat /\ f[x] \in Nat /\ f[y] \in Nat
      OBVIOUS
    <3> QED
      BY <3>1, <1>2
  <2>2. x \in Before(L, f, y) /\ x \notin Before(L, f, x)
    BY <1>2 DEF Before
  <2>3. IsFiniteSet(Before(L, f, y)) /\ Cardinality(Before(L, f, x)) \in Nat
        /\ Cardinality(Before(L, f, y)) \in Nat
    BY <1>1
  <2>4. /\ Cardinality(Before(L, f, x)) <= Cardinality(Before(L, f, y))
        /\ Cardinality(Before(L, f, y)) = Cardinality(Before(L, f, x)) => Before(L, f, y) = Before(L, f, x)
    BY <2>1, <2>3, FS_Subset
  <2>5. Before(L, f, y) # Before(L, f, x)
    BY <2>2
  <2> QED
    BY <2>3, <2>4, <2>5
<1> QED
  BY <1>1, <1>2

\* A finite list of rows by different stamps.
Ordered(C, L, f) ==
  /\ L \in SUBSET C /\ IsFiniteSet(L) /\ f \in [C -> Nat]
  /\ \A x, y \in L : f[x] = f[y] => x = y

\* Every place before that of a row is the place of a row: no two rows have
\* one place.
LEMMA EveryPlace ==
  ASSUME NEW C, NEW L, NEW f, Ordered(C, L, f),
         NEW z \in L, NEW i \in Nat, i < Cardinality(Before(L, f, z))
  PROVE  \E x \in L : Cardinality(Before(L, f, x)) = i
<1> DEFINE T == Before(L, f, z)
           n == Cardinality(T)
           place == [x \in T |-> Cardinality(Before(L, f, x))]
<1>0. /\ L \in SUBSET C /\ IsFiniteSet(L) /\ f \in [C -> Nat]
      /\ \A x, y \in L : f[x] = f[y] => x = y
  BY DEF Ordered
<1>1. T \in SUBSET L /\ IsFiniteSet(T) /\ n \in Nat
  <2>1. T \in SUBSET L
    BY DEF Before
  <2> QED
    BY <1>0, <2>1, FS_Subset, FS_CardinalityType
<1>2. \A x \in T : x \in L /\ f[x] > f[z] /\ place[x] \in Nat /\ place[x] < n
  BY <1>0, <1>1, PlaceOrder DEF Before
<1>3. place \in [T -> 0..(n - 1)]
  <2>1. \A x \in T : place[x] \in 0..(n - 1)
    BY <1>1, <1>2
  <2> QED
    BY <2>1
<1>4. ASSUME NEW x \in T, NEW y \in T, place[x] = place[y]
      PROVE  x = y
  <2>1. f[x] \in Nat /\ f[y] \in Nat /\ x \in L /\ y \in L
    BY <1>0, <1>2
  <2>2. /\ Cardinality(Before(L, f, x)) = Cardinality(Before(L, f, y))
        /\ Cardinality(Before(L, f, x)) \in Nat
    BY <1>2, <1>4
  <2>3. /\ f[x] > f[y] => Cardinality(Before(L, f, x)) < Cardinality(Before(L, f, y))
        /\ f[y] > f[x] => Cardinality(Before(L, f, y)) < Cardinality(Before(L, f, x))
    BY <1>0, <2>1, PlaceOrder
  <2> QED
    BY <1>0, <2>1, <2>2, <2>3
<1> HIDE DEF place
<1>5. place \in Injection(T, 0..(n - 1))
  BY <1>3, <1>4, Fun_IsInj
<1>6. IsFiniteSet(0..(n - 1)) /\ Cardinality(0..(n - 1)) = n
  <2>1. 0 \in Int /\ n - 1 \in Int /\ 0 <= n - 1 /\ (n - 1) - 0 + 1 = n
    BY <1>1
  <2> QED
    BY <2>1, FS_Interval
<1>7. place \in Surjection(T, 0..(n - 1))
  BY <1>5, <1>6, FS_Injection
<1>8. i \in 0..(n - 1)
  BY <1>1
<1>9. \A k \in 0..(n - 1) : \E x \in T : place[x] = k
  BY <1>7 DEF Surjection
<1>10. PICK x \in T : place[x] = i
  BY <1>8, <1>9
<1> QED
  BY <1>1, <1>10 DEF place

\* A page before which there is a row is full.
LEMMA FullPage ==
  ASSUME NEW C, NEW L, NEW f, Ordered(C, L, f),
         NEW o \in Nat, NEW p \in Nat \ {0},
         NEW z \in L, Cardinality(Before(L, f, z)) >= o + p,
         NEW page \in SUBSET L,
         \A x \in L : x \in page <=> Cardinality(Before(L, f, x)) \in o..(o + p - 1)
  PROVE  Cardinality(page) >= p
<1> DEFINE place == [x \in page |-> Cardinality(Before(L, f, x))]
<1>1. page \in SUBSET L /\ IsFiniteSet(page) /\ Cardinality(page) \in Nat
  BY FS_Subset, FS_CardinalityType DEF Ordered
<1>2. place \in [page -> o..(o + p - 1)]
  OBVIOUS
<1>3. ASSUME NEW i \in o..(o + p - 1) PROVE \E x \in page : place[x] = i
  <2>1. Cardinality(Before(L, f, z)) \in Nat
    BY PlaceOrder DEF Ordered
  <2>2. i \in Nat /\ i < Cardinality(Before(L, f, z))
    BY <2>1
  <2>3. \E x \in L : Cardinality(Before(L, f, x)) = i
    BY <2>2, EveryPlace
  <2> QED
    BY <2>3
<1>4. place \in Surjection(page, o..(o + p - 1))
  BY <1>2, <1>3, Fun_IsSurj
<1>5. Cardinality(o..(o + p - 1)) = p
  <2>1. o \in Int /\ o + p - 1 \in Int /\ o <= o + p - 1 /\ (o + p - 1) - o + 1 = p
    OBVIOUS
  <2> QED
    BY <2>1, FS_Interval
<1>6. Cardinality(o..(o + p - 1)) <= Cardinality(page)
  BY <1>1, <1>4, FS_Surjection
<1> QED
  BY <1>1, <1>5, <1>6

-----------------------------------------------------------------------------
(* Typing, and what each step of the job leaves of its record.             *)

LEMMA InitialStamps ==
  DiscoveryInit => /\ updatedAt \in [Catalog -> 1..clock]
                   /\ \A r, s \in Catalog : updatedAt[r] = updatedAt[s] => r = s
<1> SUFFICES ASSUME DiscoveryInit
             PROVE  \E f \in [Catalog -> 1..clock] : \A r, s \in Catalog : f[r] = f[s] => r = s
  BY DEF DiscoveryInit
<1>1. clock = Cardinality(Catalog) /\ IsFiniteSet(Catalog)
  BY DiscoveryAssumption DEF DiscoveryInit
<1>2. ExistsBijection(1..clock, Catalog)
  BY <1>1, FS_CardinalityType
<1>3. ExistsBijection(Catalog, 1..clock)
  BY <1>2, Fun_ExistsBijSymmetric
<1>4. PICK f \in Bijection(Catalog, 1..clock) : TRUE
  BY <1>3 DEF ExistsBijection
<1>5. f \in [Catalog -> 1..clock] /\ \A r, s \in Catalog : f[r] = f[s] => r = s
  <2>1. f \in Injection(Catalog, 1..clock)
    BY <1>4 DEF Bijection
  <2> QED
    BY <2>1 DEF Injection, IsInjective
<1> QED
  BY <1>5

LEMMA DiscoveryTypingInit == DiscoveryInit => DiscoveryTypeOK
<1> SUFFICES ASSUME DiscoveryInit PROVE DiscoveryTypeOK
  OBVIOUS
<1>1. clock \in Nat
  BY DiscoveryAssumption, FS_CardinalityType DEF DiscoveryInit
<1>2. updatedAt \in [Catalog -> Nat \ {0}]
  BY <1>1, InitialStamps
<1>3. IsJob
  BY DEF DiscoveryInit, NoJob, IsJob, JobPcs
<1> QED
  BY <1>1, <1>2, <1>3 DEF DiscoveryInit, DiscoveryTypeOK, NotWriting

LEMMA JobStays == IsJob /\ UNCHANGED job => IsJob'
BY DEF IsJob

\* Saving a cursor moves it to the start of a job that has ended; the job that
\* runs goes on, unless it is that job.
LEMMA CursorSaved ==
  ASSUME IsJob, SaveCursor
  PROVE  /\ job'.started = job.started /\ job'.ends \subseteq job.ends /\ IsJob'
         /\ \/ job'.pc = "off" /\ job'.read = NoJob.read
            \/ /\ job'.pc = job.pc /\ job'.full = job.full /\ job'.since = job.since
               /\ job'.offset = job.offset /\ job'.read = job.read
         /\ \/ indexCursor' = indexCursor
            \/ job.pc = "saving" /\ indexCursor' = job.started
            \/ \E j \in job.ends : indexCursor' = j.started
         /\ UNCHANGED <<clock, updatedAt, write, overtaken, scored>>
<1>1. PICK j \in job.ends \cup (IF job.pc = "saving" THEN {job} ELSE {}) :
        /\ job' = IF j = job THEN [NoJob EXCEPT !.started = job.started, !.ends = job.ends]
                  ELSE [job EXCEPT !.ends = @ \ {j}]
        /\ indexCursor' \in {indexCursor} \cup (IF j.mode = "subtitle-manual" THEN {} ELSE {CursorOf(j)})
  BY DEF SaveCursor
<1>2. UNCHANGED <<clock, updatedAt, write, overtaken, scored>>
  BY DEF SaveCursor, Releasing
<1>3. \/ indexCursor' = indexCursor
      \/ job.pc = "saving" /\ indexCursor' = job.started
      \/ \E i \in job.ends : indexCursor' = i.started
  <2>1. indexCursor' = indexCursor \/ indexCursor' = j.started
    BY <1>1 DEF CursorOf
  <2>2. j \in job.ends \/ (job.pc = "saving" /\ j = job)
    <3>1. CASE job.pc = "saving"
      BY <1>1, <3>1
    <3>2. CASE job.pc # "saving"
      BY <1>1, <3>2
    <3> QED
      BY <3>1, <3>2
  <2> QED
    BY <2>1, <2>2
<1>4. CASE j = job
  <2>1. job' = [NoJob EXCEPT !.started = job.started, !.ends = job.ends]
    BY <1>1, <1>4
  <2>2. /\ job'.started = job.started /\ job'.ends = job.ends /\ job'.pc = "off"
        /\ job'.read = NoJob.read /\ IsJob'
    BY <2>1 DEF IsJob, NoJob, JobPcs
  <2> QED
    BY <1>2, <1>3, <2>2
<1>5. CASE j # job
  <2>1. job' = [job EXCEPT !.ends = @ \ {j}]
    BY <1>1, <1>5
  <2>2. /\ job'.started = job.started /\ job'.ends \subseteq job.ends /\ IsJob'
        /\ job'.pc = job.pc /\ job'.full = job.full /\ job'.since = job.since
        /\ job'.offset = job.offset /\ job'.read = job.read
    BY <2>1 DEF IsJob
  <2> QED
    BY <1>2, <1>3, <2>2
<1> QED
  BY <1>4, <1>5

LEMMA DiscoveryTypingStep == DiscoveryTypeOK /\ [DiscoveryNext]_discoveryVars => DiscoveryTypeOK'
<1> SUFFICES ASSUME DiscoveryTypeOK, [DiscoveryNext]_discoveryVars PROVE DiscoveryTypeOK'
  OBVIOUS
<1> USE DEF DiscoveryTypeOK
<1>1. ASSUME NEW r \in Catalog, Stamp(r) PROVE DiscoveryTypeOK'
  BY <1>1, JobStays DEF Stamp, Tick
<1>2. CASE Commit
  <2>1. PICK r \in Catalog : write.of = {r}
    BY <1>2 DEF Commit
  <2>2. updatedAt' \in [Catalog -> Nat \ {0}]
    BY <1>2, <2>1 DEF Commit
  <2> QED
    BY <1>2, <2>1, <2>2, JobStays DEF Commit, NotWriting
<1>3. ASSUME NEW mode \in {"manual", "scheduled", "subtitle-manual"}, StartJob(mode)
      PROVE  DiscoveryTypeOK'
  <2>1. clock + 1 \in Nat /\ clock' = clock + 1
    BY <1>3 DEF StartJob, Tick
  <2>2. IsJob'
    BY <1>3, <2>1 DEF StartJob, IsJob, NoJob, JobPcs
  <2> QED
    BY <1>3, <2>1, <2>2 DEF StartJob, Releasing
<1>4. CASE BeginJob
  BY <1>4 DEF BeginJob, Releasing, IsJob, JobPcs
<1>5. CASE ReadPage
  <2> DEFINE page == {r \in Listed : PlaceInList(r) \in job.offset..(job.offset + PageRows - 1)}
             read == [r \in Catalog |-> IF r \in page THEN updatedAt[r] ELSE job.read[r]]
             pc == IF Cardinality(page) < PageRows THEN "clone" ELSE job.pc
  <2>1. read \in [Catalog -> Nat] /\ pc \in JobPcs /\ job.offset + PageRows \in Nat
    BY DiscoveryAssumption DEF IsJob, JobPcs
  <2>2. job' = [job EXCEPT !.read = read, !.offset = job.offset + PageRows, !.pc = pc]
    BY <1>5 DEF ReadPage
  <2> HIDE DEF page, read, pc
  <2>3. IsJob'
    BY <2>1, <2>2 DEF IsJob
  <2> QED
    BY <1>5, <2>3 DEF ReadPage, Releasing
<1>6. CASE CloneIndex
  BY <1>6 DEF CloneIndex, Releasing, IsJob, JobPcs
<1>7. CASE WriteIndex
  BY <1>7 DEF WriteIndex, Releasing, IsJob, JobPcs
<1>8. CASE SaveScores
  BY <1>8 DEF SaveScores, Releasing, IsJob, JobPcs
<1>9. CASE FinishJob
  <2>1. clock + 1 \in Nat /\ clock' = clock + 1 /\ NoJob.read \in [Catalog -> Nat]
    BY <1>9 DEF FinishJob, Tick, NoJob
  <2>2. IsJob'
    BY <1>9, <2>1 DEF FinishJob, IsJob, JobPcs
  <2> QED
    BY <1>9, <2>1, <2>2 DEF FinishJob, Releasing
<1>10. CASE JobFails
  BY <1>10 DEF JobFails, Releasing, IsJob, JobPcs, NoJob
<1>11. CASE SaveCursor
  <2>1. indexCursor' \in Nat
    BY <1>11, CursorSaved DEF IsJob
  <2> QED
    BY <1>11, <2>1, CursorSaved
<1>12. CASE DiscoveryRestart
  BY <1>12 DEF DiscoveryRestart, IsJob, JobPcs, NoJob, NotWriting
<1>13. CASE LookAtFiles \/ WriteLookup
  BY <1>13, JobStays DEF LookAtFiles, WriteLookup, Releasing
<1>14. CASE UNCHANGED discoveryVars
  BY <1>14, JobStays DEF discoveryVars
<1> QED
  BY <1>1, <1>2, <1>3, <1>4, <1>5, <1>6, <1>7, <1>8, <1>9, <1>10, <1>11, <1>12, <1>13, <1>14
     DEF DiscoveryNext

-----------------------------------------------------------------------------
(* Stamps and cursors.                                                     *)

LEMMA StampsInit == DiscoveryInit => Stamped /\ CursorIsPast
<1> SUFFICES ASSUME DiscoveryInit PROVE Stamped /\ CursorIsPast
  OBVIOUS
<1>1. clock \in Nat
  BY DiscoveryTypingInit DEF DiscoveryTypeOK
<1>2. job.pc = "off" /\ job.started = 0 /\ write.of = {}
  BY DEF DiscoveryInit, NoJob, NotWriting
<1>4. indexCursor <= clock
  BY <1>1 DEF DiscoveryInit
<1>3. \A r \in Catalog : updatedAt[r] <= clock
  BY <1>1, InitialStamps
<1> QED
  BY <1>1, <1>2, <1>3, <1>4, InitialStamps DEF Stamped, CursorIsPast

LEMMA StampsStep ==
  ASSUME DiscoveryTypeOK, Stamped, CursorIsPast, \A j \in job.ends : j.started <= job.started,
         DiscoveryNext
  PROVE  Stamped' /\ CursorIsPast'
<1> USE DEF DiscoveryTypeOK, Stamped, CursorIsPast
<1>1. ASSUME NEW r \in Catalog, Stamp(r) PROVE Stamped' /\ CursorIsPast'
  BY <1>1 DEF Stamp, Tick, IsJob
<1>2. CASE Commit
  <2>1. PICK r \in Catalog : write.of = {r}
    BY <1>2 DEF Commit
  <2>2. /\ updatedAt' = [s \in Catalog |-> IF s = r THEN write.at ELSE updatedAt[s]]
        /\ write'.of = {} /\ UNCHANGED <<clock, indexCursor, job>>
    BY <1>2, <2>1 DEF Commit, NotWriting
  <2> QED
    BY <2>1, <2>2 DEF IsJob
<1>3. ASSUME NEW mode \in {"manual", "scheduled", "subtitle-manual"}, StartJob(mode)
      PROVE  Stamped' /\ CursorIsPast'
  <2>1. /\ clock' = clock + 1 /\ job'.started = clock + 1 /\ job'.pc = "begin"
        /\ UNCHANGED <<updatedAt, write, indexCursor>>
    BY <1>3 DEF StartJob, Tick, Releasing, NoJob
  <2> QED
    BY <2>1 DEF IsJob
<1>4. CASE BeginJob
  <2>1. /\ job'.started = job.started /\ job'.since = indexCursor /\ job.pc = "begin"
        /\ UNCHANGED <<clock, updatedAt, write, indexCursor>>
    BY <1>4 DEF BeginJob, Releasing, IsJob
  <2> QED
    BY <2>1 DEF IsJob
<1>5. CASE ReadPage \/ CloneIndex \/ WriteIndex \/ SaveScores
  <2>1. /\ job'.started = job.started /\ job'.since = job.since /\ job.pc \notin {"off", "begin"}
        /\ UNCHANGED <<clock, updatedAt, write, indexCursor>>
    BY <1>5 DEF ReadPage, CloneIndex, WriteIndex, SaveScores, Releasing, IsJob
  <2> QED
    BY <2>1 DEF IsJob
<1>6. CASE FinishJob
  <2>1. /\ job'.started = job.started /\ job'.since = job.since /\ job.pc = "finish"
        /\ clock' = clock + 1 /\ UNCHANGED <<updatedAt, write, indexCursor>>
    BY <1>6 DEF FinishJob, Tick, Releasing, IsJob
  <2> QED
    BY <2>1 DEF IsJob
<1>7. CASE JobFails
  <2>1. /\ job'.started = job.started /\ job'.pc = "off"
        /\ UNCHANGED <<clock, updatedAt, write, indexCursor>>
    BY <1>7 DEF JobFails, Releasing, NoJob
  <2> QED
    BY <2>1 DEF IsJob
<1>8. CASE SaveCursor
  <2>1. \/ indexCursor' = indexCursor
        \/ indexCursor' \in Nat /\ indexCursor' <= job.started
    BY <1>8, CursorSaved DEF IsJob
  <2>2. /\ job'.started = job.started
        /\ job'.pc = "off" \/ (job'.pc = job.pc /\ job'.since = job.since)
        /\ UNCHANGED <<clock, updatedAt, write>>
    BY <1>8, CursorSaved
  <2> QED
    BY <2>1, <2>2 DEF IsJob
<1>9. CASE DiscoveryRestart
  <2>1. /\ job'.started = job.started /\ job'.pc = "off" /\ write'.of = {}
        /\ UNCHANGED <<clock, updatedAt, indexCursor>>
    BY <1>9 DEF DiscoveryRestart, NoJob, NotWriting
  <2> QED
    BY <2>1 DEF IsJob
<1>10. CASE LookAtFiles \/ WriteLookup
  BY <1>10 DEF LookAtFiles, WriteLookup, Releasing
<1> QED
  BY <1>1, <1>2, <1>3, <1>4, <1>5, <1>6, <1>7, <1>8, <1>9, <1>10 DEF DiscoveryNext

-----------------------------------------------------------------------------
(* What the job reads.                                                     *)

LEMMA ReadStep ==
  ASSUME DiscoveryTypeOK, Stamped, ReadIsCurrent, DiscoveryNext
  PROVE  ReadIsCurrent'
<1> USE DEF ReadIsCurrent
<1>1. ASSUME NEW r \in Catalog, Stamp(r) PROVE ReadIsCurrent'
  BY <1>1 DEF Stamp
<1>2. CASE Commit
  <2>1. PICK r \in Catalog : write.of = {r}
    BY <1>2 DEF Commit, DiscoveryTypeOK
  <2>2. /\ updatedAt' = [s \in Catalog |-> IF s = r THEN write.at ELSE updatedAt[s]]
        /\ overtaken' = IF job.started > write.at THEN overtaken \cup {r} ELSE overtaken \ {r}
        /\ UNCHANGED job
    BY <1>2, <2>1 DEF Commit
  <2>3. write.at \in Nat /\ job.started \in Nat /\ write.at # job.started
    BY <2>1 DEF DiscoveryTypeOK, IsJob, Stamped
  <2> QED
    BY <2>1, <2>2, <2>3
<1>3. ASSUME NEW mode \in {"manual", "scheduled", "subtitle-manual"}, StartJob(mode)
      PROVE  ReadIsCurrent'
  <2>1. \A r \in Catalog : job'.read[r] = 0
    BY <1>3 DEF StartJob, NoJob
  <2> QED
    BY <2>1
<1>4. CASE BeginJob \/ CloneIndex \/ WriteIndex \/ SaveScores
  <2>1. /\ job'.started = job.started /\ job'.read = job.read /\ UNCHANGED <<updatedAt, overtaken>>
    BY <1>4 DEF BeginJob, CloneIndex, WriteIndex, SaveScores, Releasing, DiscoveryTypeOK, IsJob
  <2> QED
    BY <2>1
<1>5. CASE ReadPage
  <2>1. /\ job'.started = job.started
        /\ \A r \in Catalog : job'.read[r] \in {job.read[r], updatedAt[r]}
        /\ UNCHANGED <<updatedAt, overtaken>>
    BY <1>5 DEF ReadPage, Releasing, DiscoveryTypeOK, IsJob
  <2> QED
    BY <2>1
<1>6. CASE FinishJob \/ JobFails \/ DiscoveryRestart
  <2>1. job'.read = NoJob.read
    <3>1. CASE FinishJob
      BY <3>1 DEF FinishJob, DiscoveryTypeOK, IsJob
    <3>2. CASE JobFails \/ DiscoveryRestart
      BY <3>2 DEF JobFails, DiscoveryRestart, NoJob
    <3> QED
      BY <1>6, <3>1, <3>2
  <2> QED
    BY <2>1 DEF NoJob
<1>7. CASE SaveCursor
  <2>1. /\ job'.started = job.started
        /\ job'.read = job.read \/ \A r \in Catalog : job'.read[r] = 0
        /\ UNCHANGED <<updatedAt, overtaken>>
    BY <1>7, CursorSaved DEF NoJob, DiscoveryTypeOK
  <2> QED
    BY <2>1
<1>8. CASE LookAtFiles \/ WriteLookup
  BY <1>8 DEF LookAtFiles, WriteLookup, Releasing
<1> QED
  BY <1>1, <1>2, <1>3, <1>4, <1>5, <1>6, <1>7, <1>8 DEF DiscoveryNext

\* The parts of a step of the invariant that the next lemmas start from.
DiscoveryBase == DiscoveryTypeOK /\ Stamped /\ CursorIsPast /\ ReadIsCurrent

\* A write moves its row to the first place and no other row towards it.
LEMMA CommitMoves ==
  ASSUME DiscoveryBase, Commit
  PROVE  \E r \in Catalog :
           /\ write.of = {r} /\ write.at \in Nat /\ UNCHANGED <<job, scored, indexCursor>>
           /\ updatedAt' = [s \in Catalog |-> IF s = r THEN write.at ELSE updatedAt[s]]
           /\ overtaken' = IF job.started > write.at THEN overtaken \cup {r} ELSE overtaken \ {r}
           /\ r \in overtaken' \/ updatedAt'[r] > job.started
           /\ Listed' \subseteq Listed \cup {r}
           /\ \A s \in Listed \ {r} : PlaceInList(s)' \in Nat /\ PlaceInList(s) \in Nat
                                      /\ PlaceInList(s)' >= PlaceInList(s)
<1> USE DEF DiscoveryBase, DiscoveryTypeOK
<1>1. PICK r \in Catalog : write.of = {r}
  BY DEF Commit
<1>2. /\ updatedAt' = [s \in Catalog |-> IF s = r THEN write.at ELSE updatedAt[s]]
      /\ overtaken' = IF job.started > write.at THEN overtaken \cup {r} ELSE overtaken \ {r}
      /\ UNCHANGED <<job, scored, indexCursor>>
  BY <1>1 DEF Commit
<1>3. write.at \in Nat /\ job.started \in Nat /\ write.at # job.started /\ job.since \in Nat
      /\ \A s \in Catalog : updatedAt[s] \in Nat /\ updatedAt[s] < write.at
  BY <1>1 DEF Stamped, IsJob
<1>4. r \in overtaken' \/ updatedAt'[r] > job.started
  BY <1>2, <1>3
<1>5. Listed' \subseteq Listed \cup {r}
  BY <1>2 DEF Listed
<1>6. Listed \subseteq Listed'
  <2> SUFFICES ASSUME NEW s \in Catalog, updatedAt[s] > job.since PROVE updatedAt'[s] > job.since
    BY <1>2 DEF Listed
  <2>1. updatedAt'[s] \in Nat /\ updatedAt'[s] >= updatedAt[s]
    BY <1>2, <1>3
  <2> QED
    BY <1>3, <2>1
<1>7. ASSUME NEW s \in Listed \ {r}
      PROVE  PlaceInList(s)' \in Nat /\ PlaceInList(s) \in Nat /\ PlaceInList(s)' >= PlaceInList(s)
  <2> DEFINE B == {x \in Listed : updatedAt[x] > updatedAt[s]}
             A == {x \in Listed' : updatedAt'[x] > updatedAt'[s]}
  <2>1. s \in Catalog /\ updatedAt'[s] = updatedAt[s]
    BY <1>2 DEF Listed
  <2>2. B \in SUBSET A
    <3> SUFFICES ASSUME NEW x \in Listed, updatedAt[x] > updatedAt[s] PROVE updatedAt'[x] > updatedAt'[s]
      BY <1>6
    <3>1. x \in Catalog /\ updatedAt'[x] \in Nat /\ updatedAt'[x] >= updatedAt[x]
      BY <1>2, <1>3 DEF Listed
    <3> QED
      BY <1>3, <2>1, <3>1
  <2>3. A \in SUBSET Catalog /\ IsFiniteSet(Catalog)
    BY DiscoveryAssumption DEF Listed
  <2>4. IsFiniteSet(A) /\ Cardinality(A) \in Nat
    BY <2>3, FS_Subset, FS_CardinalityType
  <2>5. IsFiniteSet(B) /\ Cardinality(B) \in Nat /\ Cardinality(B) <= Cardinality(A)
    BY <2>2, <2>4, FS_Subset, FS_CardinalityType
  <2>6. PlaceInList(s) = Cardinality(B) /\ PlaceInList(s)' = Cardinality(A)
    BY DEF PlaceInList
  <2> HIDE DEF A, B
  <2> QED
    BY <2>4, <2>5, <2>6
<1> QED
  BY <1>1, <1>2, <1>3, <1>4, <1>5, <1>7

LEMMA PlaceType == ASSUME NEW r PROVE PlaceInList(r) \in Nat /\ PlaceInList(r)' \in Nat
<1>1. /\ {s \in Listed : updatedAt[s] > updatedAt[r]} \in SUBSET Catalog
      /\ {s \in Listed' : updatedAt'[s] > updatedAt'[r]} \in SUBSET Catalog
  BY DEF Listed
<1>2. /\ Cardinality({s \in Listed : updatedAt[s] > updatedAt[r]}) \in Nat
      /\ Cardinality({s \in Listed' : updatedAt'[s] > updatedAt'[r]}) \in Nat
  BY <1>1, DiscoveryAssumption, FS_Subset, FS_CardinalityType
<1> QED
  BY <1>2 DEF PlaceInList

\* The list is what it was while its filter and the releases are.
LEMMA SameList ==
  ASSUME UNCHANGED <<job.full, job.since, updatedAt>>
  PROVE  Listed' = Listed /\ \A r \in Listed : PlaceInList(r)' = PlaceInList(r)
BY DEF Listed, PlaceInList

\* A page reads the rows at its places; if it is not full it is the last one.
LEMMA PageIsRead ==
  ASSUME DiscoveryBase, ReadPage
  PROVE  /\ \A r \in Listed : /\ PlaceInList(r) \in Nat
                              /\ job'.read[r] \in {job.read[r], updatedAt[r]}
                              /\ job'.read[r] = updatedAt[r] \/ PlaceInList(r) \notin job.offset..(job.offset + PageRows - 1)
         /\ \/ job'.pc = "pages"
            \/ job'.pc = "clone" /\ \A r \in Listed : PlaceInList(r) < job.offset + PageRows
         /\ job.pc = "pages" /\ job.offset \in Nat /\ job'.offset = job.offset + PageRows
         /\ job'.started = job.started /\ UNCHANGED <<job.full, job.since, updatedAt, overtaken, scored, indexCursor>>
         /\ job'.ends = job.ends
<1> USE DEF DiscoveryBase, DiscoveryTypeOK
<1> DEFINE page == {r \in Listed : PlaceInList(r) \in job.offset..(job.offset + PageRows - 1)}
<1>1. /\ job'.read = [r \in Catalog |-> IF r \in page THEN updatedAt[r] ELSE job.read[r]]
      /\ job'.pc = IF Cardinality(page) < PageRows THEN "clone" ELSE job.pc
      /\ job.pc = "pages" /\ job'.offset = job.offset + PageRows /\ job'.started = job.started
      /\ job'.full = job.full /\ job'.since = job.since /\ job'.ends = job.ends
      /\ UNCHANGED <<updatedAt, overtaken, scored, indexCursor>>
  BY DEF ReadPage, Releasing, IsJob
<1>2. Listed \in SUBSET Catalog /\ IsFiniteSet(Listed)
  <2>1. Listed \in SUBSET Catalog
    BY DEF Listed
  <2> QED
    BY <2>1, FS_Subset, DiscoveryAssumption
<1>3. \A r : PlaceInList(r) = Cardinality(Before(Listed, updatedAt, r))
  BY DEF PlaceInList, Before
<1>4. updatedAt \in [Catalog -> Nat] /\ Ordered(Catalog, Listed, updatedAt)
  BY <1>2 DEF Stamped, Ordered
<1>5. \A r \in Listed : PlaceInList(r) \in Nat
  BY <1>2, <1>3, <1>4, PlaceOrder
<1>6. ASSUME NEW z \in Listed, PlaceInList(z) >= job.offset + PageRows
      PROVE  Cardinality(page) >= PageRows
  <2>1. /\ page \in SUBSET Listed
        /\ \A r \in Listed :
             r \in page <=> Cardinality(Before(Listed, updatedAt, r)) \in job.offset..(job.offset + PageRows - 1)
    BY <1>3
  <2>2. Cardinality(Before(Listed, updatedAt, z)) >= job.offset + PageRows
    BY <1>3, <1>6
  <2>3. job.offset \in Nat /\ PageRows \in Nat \ {0}
    BY DiscoveryAssumption DEF IsJob
  <2> HIDE DEF page
  <2> QED
    BY <1>2, <1>4, <2>1, <2>2, <2>3, FullPage
<1>7. \A r \in Listed : /\ job'.read[r] \in {job.read[r], updatedAt[r]}
                        /\ job'.read[r] = updatedAt[r] \/ PlaceInList(r) \notin job.offset..(job.offset + PageRows - 1)
  BY <1>1, <1>2
<1>8. Cardinality(page) \in Nat /\ job.offset \in Nat /\ PageRows \in Nat
  <2>1. page \in SUBSET Listed
    OBVIOUS
  <2> QED
    BY <1>2, <2>1, FS_Subset, FS_CardinalityType, DiscoveryAssumption DEF IsJob
<1>9. \/ job'.pc = "pages"
      \/ job'.pc = "clone" /\ \A r \in Listed : PlaceInList(r) < job.offset + PageRows
  <2> HIDE DEF page
  <2> QED
    BY <1>1, <1>5, <1>6, <1>8
<1> QED
  BY <1>1, <1>5, <1>7, <1>8, <1>9

\* Every step of the job, and every write, keeps what has been read of the list.
LEMMA ListStep ==
  ASSUME DiscoveryBase, PagesSoFar, AllPages, DiscoveryNext
  PROVE  PagesSoFar' /\ AllPages'
<1> USE DEF PagesSoFar, AllPages
<1>0. Listed \subseteq Catalog /\ IsJob
  BY DEF Listed, DiscoveryBase, DiscoveryTypeOK
<1>1. CASE Commit
  <2>1. PICK r \in Catalog :
          /\ UNCHANGED job
          /\ updatedAt' = [s \in Catalog |-> IF s = r THEN write.at ELSE updatedAt[s]]
          /\ overtaken' = IF job.started > write.at THEN overtaken \cup {r} ELSE overtaken \ {r}
          /\ r \in overtaken' \/ updatedAt'[r] > job.started
          /\ Listed' \subseteq Listed \cup {r}
          /\ \A s \in Listed \ {r} : PlaceInList(s)' \in Nat /\ PlaceInList(s) \in Nat
                                     /\ PlaceInList(s)' >= PlaceInList(s)
    BY <1>1, CommitMoves
  <2>2. ASSUME NEW s \in Listed' \ overtaken', s # r
        PROVE  /\ s \in Listed \ overtaken /\ updatedAt'[s] = updatedAt[s] /\ UNCHANGED job
               /\ PlaceInList(s)' \in Nat /\ PlaceInList(s) \in Nat /\ PlaceInList(s)' >= PlaceInList(s)
    <3>1. s \in Listed \ {r} /\ s \notin overtaken
      BY <2>1, <2>2
    <3> QED
      BY <1>0, <2>1, <3>1
  <2>3. PagesSoFar'
    <3> SUFFICES ASSUME job.pc = "pages", NEW s \in Listed' \ overtaken', s # r
                 PROVE  \/ job.read[s] = updatedAt'[s] \/ updatedAt'[s] > job.started
                        \/ PlaceInList(s)' >= job.offset
      BY <2>1
    <3>1. CASE PlaceInList(s) >= job.offset
      BY <1>0, <2>2, <3>1 DEF IsJob
    <3>2. CASE job.read[s] = updatedAt[s] \/ updatedAt[s] > job.started
      BY <2>2, <3>2
    <3> QED
      BY <2>2, <3>1, <3>2
  <2>4. AllPages'
    BY <2>1, <2>2
  <2> QED
    BY <2>3, <2>4
<1>2. CASE BeginJob
  <2>1. job'.pc = "pages" /\ job'.offset = 0
    BY <1>0, <1>2 DEF BeginJob, IsJob
  <2>2. \A r : PlaceInList(r)' \in Nat
    BY PlaceType
  <2> QED
    BY <2>1, <2>2
<1>3. CASE ReadPage
  <2>1. /\ Listed' = Listed /\ UNCHANGED <<updatedAt, overtaken>> /\ job'.pc \in {"pages", "clone"}
        /\ \A r \in Listed : PlaceInList(r)' = PlaceInList(r)
    BY <1>3, PageIsRead, SameList
  <2>2. ASSUME NEW r \in Listed \ overtaken
        PROVE  \/ job'.read[r] = updatedAt'[r] \/ updatedAt'[r] > job'.started
               \/ job'.pc = "pages" /\ PlaceInList(r)' >= job'.offset
    <3>1. /\ job.read[r] = updatedAt[r] \/ updatedAt[r] > job.started \/ PlaceInList(r) >= job.offset
          /\ job'.read[r] \in {job.read[r], updatedAt[r]} /\ PlaceInList(r) \in Nat
          /\ job'.read[r] = updatedAt[r] \/ PlaceInList(r) \notin job.offset..(job.offset + PageRows - 1)
          /\ \/ job'.pc = "pages"
             \/ job'.pc = "clone" /\ PlaceInList(r) < job.offset + PageRows
          /\ job'.started = job.started /\ job'.offset = job.offset + PageRows /\ job.offset \in Nat
      BY <1>3, PageIsRead
    <3> QED
      BY <2>1, <3>1, DiscoveryAssumption
  <2> QED
    BY <2>1, <2>2
<1>4. CASE CloneIndex \/ WriteIndex
  <2>1. /\ job'.full = job.full /\ job'.since = job.since /\ job'.read = job.read /\ job'.started = job.started
        /\ job'.pc \notin {"begin", "pages"} /\ job.pc \in {"clone", "subtitles"} /\ UNCHANGED <<updatedAt, overtaken>>
    BY <1>0, <1>4 DEF CloneIndex, WriteIndex, Releasing, IsJob
  <2>2. Listed' = Listed
    BY <2>1, SameList
  <2> QED
    BY <2>1, <2>2
<1>5. CASE SaveCursor
  <2>1. /\ UNCHANGED <<updatedAt, overtaken>> /\ job'.started = job.started
        /\ \/ job'.pc = "off"
           \/ /\ job'.full = job.full /\ job'.since = job.since /\ job'.read = job.read
              /\ job'.offset = job.offset /\ job'.pc = job.pc
    BY <1>0, <1>5, CursorSaved
  <2>2. CASE job'.pc = "off"
    BY <2>2
  <2>3. CASE job'.pc # "off"
    <3>1. Listed' = Listed /\ \A r \in Listed : PlaceInList(r)' = PlaceInList(r)
      BY <2>1, <2>3, SameList
    <3> QED
      BY <2>1, <2>3, <3>1
  <2> QED
    BY <2>2, <2>3
<1>6. ASSUME \/ \E mode \in {"manual", "scheduled", "subtitle-manual"} : StartJob(mode)
             \/ SaveScores \/ FinishJob \/ JobFails \/ DiscoveryRestart
      PROVE  PagesSoFar' /\ AllPages'
  <2>1. job'.pc \in {"finish", "saving", "off"} \/ (job'.pc = "begin" /\ job'.offset = 0)
    BY <1>0, <1>6 DEF StartJob, SaveScores, FinishJob, JobFails, DiscoveryRestart, NoJob, IsJob
  <2> QED
    BY <2>1
<1>7. ASSUME (\E r \in Catalog : Stamp(r)) \/ LookAtFiles \/ WriteLookup
      PROVE  PagesSoFar' /\ AllPages'
  <2>1. UNCHANGED <<updatedAt, overtaken, job>>
    BY <1>7 DEF Stamp, LookAtFiles, WriteLookup, Releasing
  <2>2. Listed' = Listed /\ \A r \in Listed : PlaceInList(r)' = PlaceInList(r)
    BY <2>1, SameList
  <2> QED
    BY <2>1, <2>2
<1> QED
  BY <1>1, <1>2, <1>3, <1>4, <1>5, <1>6, <1>7 DEF DiscoveryNext

-----------------------------------------------------------------------------
(* Scores.                                                                 *)

\* The same of the state after a step, at a time before it.
CurrentAfter(time) == \A r \in Catalog \ overtaken' : scored'[r] = updatedAt'[r] \/ updatedAt'[r] > time

\* A job that saves its scores, or that has read nothing to score, has left out
\* only what was written after its start.
LEMMA JobCovers ==
  ASSUME DiscoveryBase, RestIsCurrent, AllPages,
         \/ SaveScores
         \/ WriteIndex /\ job'.pc = "finish"
  PROVE  /\ CurrentAfter(job.started) /\ UNCHANGED <<updatedAt, overtaken, indexCursor>>
         /\ job'.started = job.started /\ job'.ends = job.ends /\ job.pc # "off"
<1> USE DEF DiscoveryBase, DiscoveryTypeOK
<1>1. /\ job.pc \in {"subtitles", "score"} /\ UNCHANGED <<updatedAt, overtaken, indexCursor>>
      /\ job'.started = job.started /\ job'.ends = job.ends
      /\ job.started \in Nat /\ job.since \in Nat /\ job.since <= job.started
      /\ \A r \in Catalog : job.read[r] \in Nat
  BY DEF SaveScores, WriteIndex, Releasing, IsJob, CursorIsPast
<1>2. \A r \in Catalog : scored'[r] = IF job.read[r] > 0 THEN job.read[r] ELSE scored[r]
  <2>1. CASE SaveScores
    BY <2>1 DEF SaveScores, ReadIds
  <2>2. CASE WriteIndex /\ job'.pc = "finish"
    <3>1. ReadIds = {} /\ scored' = scored
      BY <2>2 DEF WriteIndex, IsJob
    <3> QED
      BY <3>1 DEF ReadIds
  <2> QED
    BY <2>1, <2>2
<1>3. ASSUME NEW r \in Catalog \ overtaken
      PROVE  scored'[r] = updatedAt[r] \/ updatedAt[r] > job.started
  <2>1. updatedAt[r] \in Nat \ {0} /\ job.read[r] \in Nat
    BY <1>1
  <2>2. CASE r \in Listed
    BY <1>1, <1>2, <2>1, <2>2 DEF AllPages
  <2>3. CASE r \notin Listed
    <3>1. ~job.full /\ ~(updatedAt[r] > job.since)
      BY <2>3 DEF Listed
    <3>2. scored[r] = updatedAt[r]
      BY <1>1, <3>1 DEF RestIsCurrent
    <3>3. job.read[r] > 0 => job.read[r] = updatedAt[r] \/ updatedAt[r] > job.started
      BY DEF ReadIsCurrent
    <3> QED
      BY <1>2, <2>1, <3>2, <3>3
  <2> QED
    BY <2>2, <2>3
<1> QED
  BY <1>1, <1>3 DEF CurrentAfter

\* What is current but for what was written after a time stays so, unless the
\* time is of a later start.
LEMMA CurrentStep ==
  ASSUME DiscoveryBase, DiscoveryNext, NEW t \in Nat, CurrentAt(t),
         t <= job.started \/ (~SaveScores /\ (write.of # {} => write.at > t \/ write.at < job.started))
  PROVE  CurrentAfter(t)
<1> USE DEF DiscoveryBase, DiscoveryTypeOK
<1>0. job.started \in Nat
  BY DEF IsJob
<1>1. CASE Commit
  <2>1. PICK r \in Catalog :
          /\ write.of = {r} /\ write.at \in Nat /\ UNCHANGED scored
          /\ updatedAt' = [s \in Catalog |-> IF s = r THEN write.at ELSE updatedAt[s]]
          /\ overtaken' = IF job.started > write.at THEN overtaken \cup {r} ELSE overtaken \ {r}
    BY <1>1, CommitMoves
  <2>2. r \in overtaken' \/ write.at > t
    BY <1>0, <2>1 DEF Stamped
  <2> QED
    BY <2>1, <2>2 DEF CurrentAt, CurrentAfter
<1>2. CASE SaveScores
  <2>1. /\ \A r \in Catalog : scored'[r] = IF job.read[r] > 0 THEN job.read[r] ELSE scored[r]
        /\ UNCHANGED <<updatedAt, overtaken>>
    BY <1>2 DEF SaveScores, ReadIds, Releasing
  <2>2. CASE t <= job.started
    <3> SUFFICES ASSUME NEW r \in Catalog \ overtaken, job.read[r] > 0
                 PROVE  job.read[r] = updatedAt[r] \/ updatedAt[r] > t
      BY <2>1 DEF CurrentAt, CurrentAfter
    <3>1. job.read[r] = updatedAt[r] \/ updatedAt[r] > job.started
      BY DEF ReadIsCurrent
    <3> QED
      BY <1>0, <2>2, <3>1
  <2> QED
    BY <1>2, <2>2
<1>3. CASE ~Commit /\ ~SaveScores
  <2>1. UNCHANGED <<scored, updatedAt, overtaken>>
    BY <1>3, CursorSaved
       DEF DiscoveryNext, Stamp, StartJob, BeginJob, ReadPage, CloneIndex, WriteIndex,
      FinishJob, JobFails, DiscoveryRestart, LookAtFiles, WriteLookup, Releasing
  <2> QED
    BY <2>1 DEF CurrentAt, CurrentAfter
<1> QED
  BY <1>1, <1>2, <1>3

LEMMA EndsStep ==
  ASSUME DiscoveryBase, RestIsCurrent, AllPages, EndsAreCovered, DiscoveryNext
  PROVE  EndsAreCovered'
<1> USE DEF EndsAreCovered
<1>0. IsJob /\ job.started \in Nat /\ \A j \in job.ends : j.started \in Nat
  BY DEF DiscoveryBase, DiscoveryTypeOK, IsJob
<1>1. \A t \in Nat : t <= job.started /\ CurrentAt(t) => CurrentAfter(t)
  BY CurrentStep
<1>2. \A j \in job.ends : j.started \in Nat /\ j.started <= job.started /\ CurrentAfter(j.started)
  BY <1>0, <1>1
<1>3. job.pc \in {"finish", "saving"} => CurrentAfter(job.started)
  BY <1>0, <1>1
<1> HIDE DEF EndsAreCovered
<1>4. ASSUME job'.started = job.started, job'.ends \subseteq job.ends,
             job'.pc \in {"finish", "saving"} => CurrentAfter(job.started)
      PROVE  EndsAreCovered'
  BY <1>2, <1>4 DEF EndsAreCovered, CurrentAt, CurrentAfter
<1>5. CASE UNCHANGED job
  BY <1>3, <1>4, <1>5
<1>6. ASSUME NEW mode \in {"manual", "scheduled", "subtitle-manual"}, StartJob(mode)
      PROVE  EndsAreCovered'
  <2>1. /\ job'.started = clock + 1 /\ job'.pc = "begin"
        /\ \A j \in job'.ends : j \in job.ends \/ (job.pc = "saving" /\ j.started = job.started)
    BY <1>0, <1>6 DEF StartJob, NoJob, IsJob
  <2>2. clock \in Nat /\ job.started <= clock
    BY DEF DiscoveryBase, DiscoveryTypeOK, Stamped
  <2>3. ASSUME NEW j \in job'.ends
        PROVE  j.started \in Nat /\ j.started <= job.started /\ CurrentAfter(j.started)
    <3>1. CASE j \in job.ends
      BY <1>2, <3>1
    <3>2. CASE job.pc = "saving" /\ j.started = job.started
      BY <1>0, <1>3, <3>2
    <3> QED
      BY <2>1, <3>1, <3>2
  <2>4. \A j \in job'.ends : j.started <= job'.started
    BY <1>0, <2>1, <2>2, <2>3
  <2> QED
    BY <2>1, <2>3, <2>4 DEF EndsAreCovered, CurrentAt, CurrentAfter
<1>7. CASE SaveCursor
  <2>1. /\ job'.started = job.started /\ job'.ends \subseteq job.ends
        /\ job'.pc = "off" \/ job'.pc = job.pc
    BY <1>0, <1>7, CursorSaved
  <2> QED
    BY <1>3, <1>4, <2>1
<1>8. CASE BeginJob \/ ReadPage \/ CloneIndex
  <2>1. job'.started = job.started /\ job'.ends = job.ends /\ job'.pc \notin {"finish", "saving"}
    BY <1>0, <1>8 DEF BeginJob, ReadPage, CloneIndex, IsJob
  <2> QED
    BY <1>4, <2>1
<1>9. CASE SaveScores \/ (WriteIndex /\ job'.pc = "finish")
  <2>1. CurrentAfter(job.started) /\ job'.started = job.started /\ job'.ends = job.ends
    BY <1>9, JobCovers
  <2> QED
    BY <1>4, <2>1
<1>10. CASE WriteIndex /\ job'.pc # "finish"
  <2>1. job'.started = job.started /\ job'.ends = job.ends /\ job'.pc \in {"finish", "score"}
    BY <1>0, <1>10 DEF WriteIndex, IsJob
  <2> QED
    BY <1>4, <1>10, <2>1
<1>11. CASE FinishJob
  <2>1. job'.started = job.started /\ job'.ends = job.ends /\ job.pc = "finish"
    BY <1>0, <1>11 DEF FinishJob, IsJob
  <2> QED
    BY <1>3, <1>4, <2>1
<1>12. CASE JobFails \/ DiscoveryRestart
  <2>1. job'.started = job.started /\ job'.ends \subseteq job.ends /\ job'.pc = "off"
    BY <1>12 DEF JobFails, DiscoveryRestart, NoJob
  <2> QED
    BY <1>4, <2>1
<1> QED
  BY <1>5, <1>6, <1>7, <1>8, <1>9, <1>10, <1>11, <1>12
  DEF DiscoveryNext, Stamp, Commit, LookAtFiles, WriteLookup, Releasing

\* A job that reads what has changed starts from scores that are current.
LEMMA RestStep ==
  ASSUME DiscoveryBase, RestIsCurrent, ScoresCurrent, DiscoveryNext
  PROVE  RestIsCurrent'
<1> USE DEF RestIsCurrent
<1>0. IsJob /\ job.started \in Nat /\ job.since \in Nat
  BY DEF DiscoveryBase, DiscoveryTypeOK, IsJob
<1>1. ASSUME job.pc \in {"pages", "clone", "subtitles", "score"}, ~job.full
      PROVE  CurrentAfter(job.since)
  <2>1. job.since <= job.started
    BY <1>1 DEF DiscoveryBase, CursorIsPast
  <2>2. CurrentAt(job.since)
    BY <1>1 DEF CurrentAt
  <2> QED
    BY <1>0, <2>1, <2>2, CurrentStep
<1> HIDE DEF RestIsCurrent
<1>2. ASSUME job.pc \in {"pages", "clone", "subtitles", "score"}, job'.full = job.full, job'.since = job.since
      PROVE  RestIsCurrent'
  BY <1>1, <1>2 DEF RestIsCurrent, CurrentAfter
<1>3. ASSUME job'.pc \notin {"pages", "clone", "subtitles", "score"}
      PROVE  RestIsCurrent'
  BY <1>3 DEF RestIsCurrent
<1>4. CASE BeginJob
  <2>1. /\ job'.since = indexCursor /\ UNCHANGED <<scored, updatedAt, overtaken>>
        /\ job'.full = (job.mode # "scheduled" \/ indexCursor = 0 \/ \A r \in Catalog : scored[r] = 0)
    BY <1>0, <1>4 DEF BeginJob, Releasing, IsJob
  <2>2. CASE job'.full
    BY <2>2 DEF RestIsCurrent
  <2>3. CASE ~job'.full
    <3>1. \E r \in Catalog : scored[r] > 0
      <4>1. \E r \in Catalog : scored[r] # 0
        BY <2>1, <2>3
      <4>2. \A r \in Catalog : scored[r] \in Nat
        BY DEF DiscoveryBase, DiscoveryTypeOK
      <4> QED
        BY <4>1, <4>2
    <3> QED
      BY <2>1, <3>1 DEF ScoresCurrent, RestIsCurrent
  <2> QED
    BY <2>2, <2>3
<1>5. CASE SaveCursor \/ UNCHANGED job
  <2>1. \/ job'.pc = "off"
        \/ job'.pc = job.pc /\ job'.full = job.full /\ job'.since = job.since
    BY <1>0, <1>5, CursorSaved
  <2> QED
    BY <1>2, <1>3, <2>1
<1>6. CASE ReadPage \/ CloneIndex \/ WriteIndex
  <2>1. /\ job.pc \in {"pages", "clone", "subtitles"} /\ job'.full = job.full /\ job'.since = job.since
    BY <1>0, <1>6 DEF ReadPage, CloneIndex, WriteIndex, IsJob
  <2> QED
    BY <1>2, <2>1
<1>7. ASSUME \/ \E mode \in {"manual", "scheduled", "subtitle-manual"} : StartJob(mode)
             \/ SaveScores \/ FinishJob \/ JobFails \/ DiscoveryRestart
      PROVE  RestIsCurrent'
  <2>1. job'.pc \in {"begin", "finish", "saving", "off"}
    BY <1>0, <1>7 DEF StartJob, SaveScores, FinishJob, JobFails, DiscoveryRestart, NoJob, IsJob
  <2> QED
    BY <1>3, <2>1
<1> QED
  BY <1>4, <1>5, <1>6, <1>7
     DEF DiscoveryNext, Stamp, Commit, LookAtFiles, WriteLookup, Releasing

LEMMA ScoresStep ==
  ASSUME DiscoveryBase, RestIsCurrent, AllPages, EndsAreCovered, ScoresCurrent, DiscoveryNext
  PROVE  ScoresCurrent'
<1>0. /\ indexCursor \in Nat /\ job.started \in Nat /\ IsJob
      /\ \A j \in job.ends : j.started \in Nat /\ j.started <= job.started
      /\ write.of # {} => write.at > indexCursor \/ write.at < job.started
      /\ job.pc # "off" => indexCursor <= job.started
  BY DEF DiscoveryBase, DiscoveryTypeOK, IsJob, CursorIsPast, EndsAreCovered
<1>1. ASSUME CurrentAfter(indexCursor), UNCHANGED indexCursor
      PROVE  ScoresCurrent'
  BY <1>1 DEF ScoresCurrent, CurrentAfter
<1>2. ASSUME NEW t \in Nat, t <= job.started, CurrentAt(t), indexCursor' = t
      PROVE  ScoresCurrent'
  <2>1. CurrentAfter(t)
    BY <1>2, CurrentStep
  <2> QED
    BY <1>2, <2>1 DEF ScoresCurrent, CurrentAfter
<1>3. CASE SaveScores
  <2>1. CurrentAfter(job.started) /\ UNCHANGED <<updatedAt, indexCursor>> /\ indexCursor <= job.started
    BY <1>0, <1>3, JobCovers
  <2>2. \A r \in Catalog : updatedAt'[r] \in Nat
    BY <2>1 DEF DiscoveryBase, DiscoveryTypeOK
  <2>3. CurrentAfter(indexCursor)
    BY <1>0, <2>1, <2>2 DEF CurrentAfter
  <2> QED
    BY <1>1, <2>1, <2>3
<1>4. CASE SaveCursor /\ ~UNCHANGED indexCursor
  <2>1. CASE job.pc = "saving" /\ indexCursor' = job.started
    BY <1>0, <1>2, <2>1 DEF EndsAreCovered
  <2>2. ASSUME NEW j \in job.ends, indexCursor' = j.started
        PROVE  ScoresCurrent'
    BY <1>0, <1>2, <2>2 DEF EndsAreCovered
  <2> QED
    BY <1>0, <1>4, <2>1, <2>2, CursorSaved
<1>5. CASE ~SaveScores /\ UNCHANGED indexCursor
  <2>1. CASE \E r \in Catalog : scored[r] > 0
    <3>1. CurrentAt(indexCursor)
      BY <2>1 DEF ScoresCurrent, CurrentAt
    <3>2. CurrentAfter(indexCursor)
      BY <1>0, <1>5, <3>1, CurrentStep
    <3> QED
      BY <1>1, <1>5, <3>2
  <2>2. CASE ~\E r \in Catalog : scored[r] > 0
    <3>1. UNCHANGED scored
      BY <1>0, <1>5, CursorSaved
         DEF DiscoveryNext, Stamp, Commit, StartJob, BeginJob, ReadPage, CloneIndex,
        WriteIndex, FinishJob, JobFails, DiscoveryRestart, LookAtFiles, WriteLookup, Releasing
    <3> QED
      BY <2>2, <3>1 DEF ScoresCurrent
  <2> QED
    BY <2>1, <2>2
<1>6. SaveScores \/ SaveCursor \/ UNCHANGED indexCursor
  BY DEF DiscoveryNext, Stamp, Commit, StartJob, BeginJob, ReadPage, CloneIndex,
    WriteIndex, FinishJob, JobFails, DiscoveryRestart, LookAtFiles, WriteLookup, Releasing
<1> QED
  BY <1>3, <1>4, <1>5, <1>6

-----------------------------------------------------------------------------
\* The invariant is inductive.

(* What a job has read, its cursor and the pages before its offset, is what*)
(* must have been scored (startDiscoveryJob).                              *)
THEOREM DiscoveryInvariant == DiscoverySpec => []DiscoveryInv
<1>1. DiscoveryInit => DiscoveryInv
  <2> SUFFICES ASSUME DiscoveryInit PROVE DiscoveryInv
    OBVIOUS
  <2>1. /\ job.pc = "off" /\ job.ends = {}
        /\ \A r \in Catalog : job.read[r] = 0 /\ scored[r] = 0
    BY DEF DiscoveryInit, NoJob
  <2>2. ReadIsCurrent /\ RestIsCurrent /\ PagesSoFar /\ AllPages /\ EndsAreCovered /\ ScoresCurrent
    BY <2>1
       DEF ReadIsCurrent, RestIsCurrent, PagesSoFar, AllPages, EndsAreCovered, ScoresCurrent
  <2> QED
    BY <2>2, DiscoveryTypingInit, StampsInit DEF DiscoveryInv
<1>2. DiscoveryInv /\ [DiscoveryNext]_discoveryVars => DiscoveryInv'
  <2> SUFFICES ASSUME DiscoveryInv, [DiscoveryNext]_discoveryVars PROVE DiscoveryInv'
    OBVIOUS
  <2>1. DiscoveryTypeOK'
    BY DiscoveryTypingStep DEF DiscoveryInv
  <2>2. CASE DiscoveryNext
    <3>1. DiscoveryBase /\ \A j \in job.ends : j.started <= job.started
      BY DEF DiscoveryInv, DiscoveryBase, EndsAreCovered
    <3>2. Stamped' /\ CursorIsPast'
      BY <2>2, <3>1, StampsStep DEF DiscoveryBase
    <3>3. ReadIsCurrent'
      BY <2>2, ReadStep DEF DiscoveryInv
    <3>4. RestIsCurrent' /\ PagesSoFar' /\ AllPages' /\ EndsAreCovered' /\ ScoresCurrent'
      BY <2>2, <3>1, RestStep, ListStep, EndsStep, ScoresStep DEF DiscoveryInv
    <3> QED
      BY <2>1, <3>2, <3>3, <3>4 DEF DiscoveryInv
  <2>3. CASE UNCHANGED discoveryVars
    <3>1. Listed' = Listed /\ \A r \in Listed : PlaceInList(r)' = PlaceInList(r)
      BY <2>3, SameList DEF discoveryVars
    <3>2. PagesSoFar' /\ AllPages'
      BY <2>3, <3>1 DEF discoveryVars, DiscoveryInv, PagesSoFar, AllPages
    <3>3. Stamped' /\ CursorIsPast' /\ ReadIsCurrent' /\ RestIsCurrent' /\ EndsAreCovered' /\ ScoresCurrent'
      BY <2>3
         DEF discoveryVars, DiscoveryInv, Stamped, CursorIsPast, ReadIsCurrent, RestIsCurrent,
        EndsAreCovered, CurrentAt, ScoresCurrent
    <3> QED
      BY <2>1, <3>2, <3>3 DEF DiscoveryInv
  <2> QED
    BY <2>2, <2>3
<1> QED
  BY <1>1, <1>2, PTL DEF DiscoverySpec

\* Every release has the score of its present version, or was written after the
\* cursor, so that the next job reads it.
THEOREM ScoresStayCurrent == DiscoverySpec => []ScoresCurrent
<1>1. DiscoveryInv => ScoresCurrent
  BY DEF DiscoveryInv
<1> QED
  BY <1>1, DiscoveryInvariant, PTL

-----------------------------------------------------------------------------
(***************************************************************************)
(* The play history (PlayHistory): no event is added twice to a scene and  *)
(* no rebuild of the archive loses one, for any scenes, rebuilds, reviews, *)
(* merges in Stash and failures.                                           *)
(*                                                                         *)
(* What the archive, a review and an application hold happened before      *)
(* (AllOfThePast). An application reads the counts of its targets first,   *)
(* and notes of the events it is to add those a target has                 *)
(* (NotesAreComplete): it adds the others only (AddsWhatLacks), though     *)
(* scenes were merged and played since the review.                         *)
(***************************************************************************)

Kinds == {"play", "o"}
Past == (1..historyUsed.events) \X Kinds
SceneShape(s) == s = [code |-> s.code, has |-> s.has, twice |-> s.twice, secs |-> s.secs]
Writing == {"plays", "orgasms", "duration"}

HistoryShapes ==
  /\ historyUsed \in [events : Nat, rebuilds : Nat, reviews : Nat, faults : Nat]
  /\ DOMAIN scenes = SceneIds /\ scenes = [id \in SceneIds |-> scenes[id]]
  /\ \A id \in SceneIds : SceneShape(scenes[id])
  /\ DOMAIN synced.fetched = SceneIds /\ synced.fetched = [id \in SceneIds |-> synced.fetched[id]]
  /\ applier = [pc |-> applier.pc, items |-> applier.items, sets |-> applier.sets, secs |-> applier.secs,
                target |-> applier.target, add |-> applier.add, want |-> applier.want]
  /\ applier.sets = [id \in SceneIds |-> applier.sets[id]]

\* What the archive, a review and an application know happened before now.
OfThePast(items) == \A item \in items : item.events \subseteq Past /\ item.target \in SceneIds
AllOfThePast ==
  /\ \A id \in SceneIds : /\ scenes[id].has \subseteq Past /\ archive[id].events \subseteq Past
                          /\ synced.fetched[id].has \subseteq Past
  /\ OfThePast(review.items) /\ OfThePast(applier.items) /\ applier.add \subseteq Past

\* Of the events an item is to add the applier has noted those its target has.
NotesAreComplete ==
  applier.pc \in {"next"} \cup Writing =>
    \A item \in applier.items : item.events \cap scenes[item.target].has \subseteq applier.sets[item.target]
\* What is about to be added is not there.
AddsWhatLacks ==
  /\ applier.pc \in Writing => applier.target \in SceneIds /\ applier.add \subseteq applier.sets[applier.target]
  /\ applier.pc = "plays" => applier.add \cap scenes[applier.target].has = {}
  /\ applier.pc = "orgasms" => (applier.add \ Plays(applier.add)) \cap scenes[applier.target].has = {}

HistoryInv == HistoryShapes /\ AllOfThePast /\ NotesAreComplete /\ AddsWhatLacks /\ AddedOnce

-----------------------------------------------------------------------------
LEMMA PastGrows ==
  ASSUME HistoryShapes, NEW field \in {"events", "rebuilds", "reviews", "faults"}, Counted(field)
  PROVE  /\ historyUsed' \in [events : Nat, rebuilds : Nat, reviews : Nat, faults : Nat]
         /\ Past \subseteq Past'
<1>1. historyUsed \in [events : Nat, rebuilds : Nat, reviews : Nat, faults : Nat]
  BY DEF HistoryShapes
<1>2. /\ historyUsed' \in [events : Nat, rebuilds : Nat, reviews : Nat, faults : Nat]
      /\ historyUsed'.events \in {historyUsed.events, historyUsed.events + 1}
  BY <1>1 DEF Counted
<1>3. historyUsed.events \in Nat /\ historyUsed'.events \in Nat
  BY <1>1, <1>2
<1>4. 1..historyUsed.events \subseteq 1..historyUsed'.events
  BY <1>2, <1>3
<1> QED  BY <1>2, <1>4 DEF Past

LEMMA WatchedIsNew ==
  ASSUME HistoryShapes, NEW kind \in Kinds
  PROVE  /\ <<historyUsed.events + 1, kind>> \notin Past
         /\ Counted("events") => <<historyUsed.events + 1, kind>> \in Past'
<1>1. historyUsed \in [events : Nat, rebuilds : Nat, reviews : Nat, faults : Nat]
  BY DEF HistoryShapes
<1>2. historyUsed.events \in Nat /\ historyUsed.events + 1 \notin 1..historyUsed.events
  BY <1>1
<1>3. <<historyUsed.events + 1, kind>> \notin Past
  BY <1>2 DEF Past
<1>4. ASSUME Counted("events")  PROVE <<historyUsed.events + 1, kind>> \in Past'
  <2>1. historyUsed'.events = historyUsed.events + 1
    BY <1>1, <1>4 DEF Counted
  <2>2. historyUsed.events + 1 \in 1..historyUsed'.events
    BY <1>2, <2>1
  <2> QED  BY <2>2 DEF Past
<1> QED  BY <1>3, <1>4

\* A scene after a change of some of its fields.
LEMMA SceneHas ==
  ASSUME NEW s, SceneShape(s), NEW h
  PROVE  [s EXCEPT !.has = h] = [code |-> s.code, has |-> h, twice |-> s.twice, secs |-> s.secs]
<1>1. \A c, x, y, z : [[code |-> c, has |-> x, twice |-> y, secs |-> z] EXCEPT !.has = h]
                       = [code |-> c, has |-> h, twice |-> y, secs |-> z]
  OBVIOUS
<1>2. PICK c, x, y, z : s = [code |-> c, has |-> x, twice |-> y, secs |-> z]
  BY DEF SceneShape
<1>3. s.code = c /\ s.has = x /\ s.twice = y /\ s.secs = z
  BY <1>2
<1> QED  BY <1>1, <1>2, <1>3

LEMMA SceneTwice ==
  ASSUME NEW s, SceneShape(s), NEW t
  PROVE  [s EXCEPT !.twice = t] = [code |-> s.code, has |-> s.has, twice |-> t, secs |-> s.secs]
<1>1. \A c, x, y, z : [[code |-> c, has |-> x, twice |-> y, secs |-> z] EXCEPT !.twice = t]
                       = [code |-> c, has |-> x, twice |-> t, secs |-> z]
  OBVIOUS
<1>2. PICK c, x, y, z : s = [code |-> c, has |-> x, twice |-> y, secs |-> z]
  BY DEF SceneShape
<1>3. s.code = c /\ s.has = x /\ s.twice = y /\ s.secs = z
  BY <1>2
<1> QED  BY <1>1, <1>2, <1>3

LEMMA SceneTimed ==
  ASSUME NEW s, SceneShape(s), NEW n
  PROVE  [s EXCEPT !.secs = n] = [code |-> s.code, has |-> s.has, twice |-> s.twice, secs |-> n]
<1>1. \A c, x, y, z : [[code |-> c, has |-> x, twice |-> y, secs |-> z] EXCEPT !.secs = n]
                       = [code |-> c, has |-> x, twice |-> y, secs |-> n]
  OBVIOUS
<1>2. PICK c, x, y, z : s = [code |-> c, has |-> x, twice |-> y, secs |-> z]
  BY DEF SceneShape
<1>3. s.code = c /\ s.has = x /\ s.twice = y /\ s.secs = z
  BY <1>2
<1> QED  BY <1>1, <1>2, <1>3

LEMMA ScenePlayed ==
  ASSUME NEW s, SceneShape(s), NEW h, NEW n
  PROVE  [s EXCEPT !.has = h, !.secs = n] = [code |-> s.code, has |-> h, twice |-> s.twice, secs |-> n]
<1> DEFINE q == [code |-> s.code, has |-> h, twice |-> s.twice, secs |-> s.secs]
<1>1. [s EXCEPT !.has = h] = q
  BY SceneHas
<1>2. q.code = s.code /\ q.has = h /\ q.twice = s.twice /\ q.secs = s.secs /\ SceneShape(q)
  BY DEF SceneShape
<1> HIDE DEF q
<1>3. [q EXCEPT !.secs = n] = [code |-> s.code, has |-> h, twice |-> s.twice, secs |-> n]
  BY <1>2, SceneTimed
<1>4. [s EXCEPT !.has = h, !.secs = n] = [[s EXCEPT !.has = h] EXCEPT !.secs = n]
  OBVIOUS
<1> QED  BY <1>1, <1>3, <1>4

LEMMA SceneCut ==
  ASSUME NEW s, SceneShape(s), NEW h, NEW t
  PROVE  [s EXCEPT !.has = h, !.twice = t] = [code |-> s.code, has |-> h, twice |-> t, secs |-> s.secs]
<1> DEFINE q == [code |-> s.code, has |-> h, twice |-> s.twice, secs |-> s.secs]
<1>1. [s EXCEPT !.has = h] = q
  BY SceneHas
<1>2. q.code = s.code /\ q.has = h /\ q.twice = s.twice /\ q.secs = s.secs /\ SceneShape(q)
  BY DEF SceneShape
<1> HIDE DEF q
<1>3. [q EXCEPT !.twice = t] = [code |-> s.code, has |-> h, twice |-> t, secs |-> s.secs]
  BY <1>2, SceneTwice
<1>4. [s EXCEPT !.has = h, !.twice = t] = [[s EXCEPT !.has = h] EXCEPT !.twice = t]
  OBVIOUS
<1> QED  BY <1>1, <1>3, <1>4

LEMMA SceneAdded ==
  ASSUME NEW s, SceneShape(s), NEW h, NEW t
  PROVE  [s EXCEPT !.twice = t, !.has = h] = [code |-> s.code, has |-> h, twice |-> t, secs |-> s.secs]
<1> DEFINE q == [code |-> s.code, has |-> s.has, twice |-> t, secs |-> s.secs]
<1>1. [s EXCEPT !.twice = t] = q
  BY SceneTwice
<1>2. q.code = s.code /\ q.has = s.has /\ q.twice = t /\ q.secs = s.secs /\ SceneShape(q)
  BY DEF SceneShape
<1> HIDE DEF q
<1>3. [q EXCEPT !.has = h] = [code |-> s.code, has |-> h, twice |-> t, secs |-> s.secs]
  BY <1>2, SceneHas
<1>4. [s EXCEPT !.twice = t, !.has = h] = [[s EXCEPT !.twice = t] EXCEPT !.has = h]
  OBVIOUS
<1> QED  BY <1>1, <1>3, <1>4

\* One scene becomes another.
LEMMA SceneReplaced ==
  ASSUME HistoryShapes, NEW id \in SceneIds, NEW c, NEW h, NEW t, NEW n,
         scenes' = [scenes EXCEPT ![id] = [code |-> c, has |-> h, twice |-> t, secs |-> n]]
  PROVE  /\ scenes' = [o \in SceneIds |-> scenes'[o]] /\ DOMAIN scenes' = SceneIds
         /\ \A o \in SceneIds : SceneShape(scenes'[o])
         /\ scenes'[id].code = c /\ scenes'[id].has = h /\ scenes'[id].twice = t /\ scenes'[id].secs = n
         /\ \A o \in SceneIds \ {id} : scenes'[o] = scenes[o]
<1>1. /\ scenes'[id] = [code |-> c, has |-> h, twice |-> t, secs |-> n] /\ DOMAIN scenes' = SceneIds
      /\ \A o \in SceneIds \ {id} : scenes'[o] = scenes[o]
  BY DEF HistoryShapes
<1>2. scenes' = [o \in SceneIds |-> scenes'[o]]
  <2>1. scenes' = [o \in DOMAIN scenes |-> IF o = id THEN [code |-> c, has |-> h, twice |-> t, secs |-> n] ELSE scenes[o]]
    BY DEF HistoryShapes
  <2> QED  BY <1>1, <2>1 DEF HistoryShapes
<1>3. SceneShape(scenes'[id])
  BY <1>1 DEF SceneShape
<1>4. \A o \in SceneIds \ {id} : SceneShape(scenes'[o])
  BY <1>1 DEF HistoryShapes
<1> QED  BY <1>1, <1>2, <1>3, <1>4

\* What StashApp does: it forgets, or shows what nobody has noted yet.
LEMMA WorldKeeps ==
  ASSUME HistoryInv, HistoryShapes', Past \subseteq Past',
         UNCHANGED <<archive, synced, review, applier>>,
         \A id \in SceneIds : scenes'[id].has \subseteq Past' /\ scenes'[id].has \cap Past \subseteq scenes[id].has
                              /\ scenes'[id].twice \subseteq scenes[id].twice
  PROVE  HistoryInv'
<1>1. AllOfThePast'
  BY DEF HistoryInv, AllOfThePast, OfThePast
<1>2. NotesAreComplete'
  BY DEF HistoryInv, AllOfThePast, OfThePast, NotesAreComplete
<1>3. AddsWhatLacks'
  BY DEF HistoryInv, AllOfThePast, AddsWhatLacks, Writing
<1>4. AddedOnce'
  BY DEF HistoryInv, AddedOnce
<1> QED  BY <1>1, <1>2, <1>3, <1>4 DEF HistoryInv

LEMMA WatchedKeeps ==
  ASSUME HistoryInv, NEW id \in SceneIds, NEW kind \in Kinds, Watched(id, kind)
  PROVE  HistoryInv'
<1> DEFINE new == <<historyUsed.events + 1, kind>>
<1>1. HistoryShapes /\ SceneShape(scenes[id]) /\ scenes[id].has \subseteq Past
  BY DEF HistoryInv, HistoryShapes, AllOfThePast
<1>2. UNCHANGED <<archive, synced, review, applier>> /\ Counted("events")
  BY DEF Watched
<1>3. new \notin Past /\ new \in Past' /\ Past \subseteq Past'
      /\ historyUsed' \in [events : Nat, rebuilds : Nat, reviews : Nat, faults : Nat]
  BY <1>1, <1>2, PastGrows, WatchedIsNew
<1> HIDE DEF new
<1>4. PICK n : scenes' = [scenes EXCEPT ![id] = [code |-> scenes[id].code, has |-> scenes[id].has \cup {new},
                                                  twice |-> scenes[id].twice, secs |-> n]]
  <2> DEFINE n == IF kind = "play" THEN scenes[id].secs + 1 ELSE scenes[id].secs
             h == scenes[id].has \cup {new}
  <2>1. scenes' = [scenes EXCEPT ![id] = [scenes[id] EXCEPT !.has = h, !.secs = n]]
    BY DEF Watched, new
  <2> HIDE DEF n, h
  <2>2. [scenes[id] EXCEPT !.has = h, !.secs = n] =
          [code |-> scenes[id].code, has |-> h, twice |-> scenes[id].twice, secs |-> n]
    BY <1>1, ScenePlayed
  <2>3. scenes' = [scenes EXCEPT ![id] = [code |-> scenes[id].code, has |-> h, twice |-> scenes[id].twice, secs |-> n]]
    BY <2>1, <2>2
  <2> QED  BY <2>3 DEF h
<1>5. /\ scenes' = [o \in SceneIds |-> scenes'[o]] /\ DOMAIN scenes' = SceneIds
      /\ \A o \in SceneIds : SceneShape(scenes'[o]) /\ scenes'[o].twice = scenes[o].twice
                             /\ scenes'[o].has \in {scenes[o].has, scenes[o].has \cup {new}}
  BY <1>1, <1>4, SceneReplaced
<1>6. HistoryShapes'
  BY <1>1, <1>2, <1>3, <1>5 DEF HistoryShapes
<1>7. \A o \in SceneIds : scenes[o].has \subseteq Past
  BY DEF HistoryInv, AllOfThePast
<1> QED  BY <1>2, <1>3, <1>5, <1>6, <1>7, WorldKeeps

LEMMA RebuiltKeeps ==
  ASSUME HistoryInv, Rebuilt
  PROVE  HistoryInv'
<1>1. HistoryShapes
  BY DEF HistoryInv
<1>2. UNCHANGED <<archive, synced, review, applier>> /\ Counted("rebuilds")
  BY DEF Rebuilt
<1>3. Past \subseteq Past' /\ historyUsed' \in [events : Nat, rebuilds : Nat, reviews : Nat, faults : Nat]
  BY <1>1, <1>2, PastGrows
<1>4. PICK codes \in LaterCodes : scenes' = [id \in SceneIds |-> [NoScene EXCEPT !.code = codes[id]]]
  BY DEF Rebuilt
<1>5. /\ scenes' = [o \in SceneIds |-> scenes'[o]] /\ DOMAIN scenes' = SceneIds
      /\ \A o \in SceneIds : SceneShape(scenes'[o]) /\ scenes'[o].twice = {} /\ scenes'[o].has = {}
  BY <1>4 DEF SceneShape, NoScene
<1>6. HistoryShapes'
  BY <1>1, <1>2, <1>3, <1>5 DEF HistoryShapes
<1> QED  BY <1>2, <1>3, <1>5, <1>6, WorldKeeps

LEMMA DeletedKeeps ==
  ASSUME HistoryInv, NEW id \in SceneIds, HistoryDeleted(id)
  PROVE  HistoryInv'
<1>1. HistoryShapes /\ SceneShape(scenes[id])
  BY DEF HistoryInv, HistoryShapes
<1>2. UNCHANGED <<archive, synced, review, applier>> /\ Counted("rebuilds")
  BY DEF HistoryDeleted
<1>3. Past \subseteq Past' /\ historyUsed' \in [events : Nat, rebuilds : Nat, reviews : Nat, faults : Nat]
  BY <1>1, <1>2, PastGrows
<1>4. PICK e \in scenes[id].has : scenes' = [scenes EXCEPT ![id].has = @ \ {e}, ![id].twice = @ \ {e}]
  BY DEF HistoryDeleted
<1>5. scenes' = [scenes EXCEPT ![id] = [code |-> scenes[id].code, has |-> scenes[id].has \ {e},
                                        twice |-> scenes[id].twice \ {e}, secs |-> scenes[id].secs]]
  <2> DEFINE h == scenes[id].has \ {e}
             t == scenes[id].twice \ {e}
  <2>1. scenes' = [scenes EXCEPT ![id] = [scenes[id] EXCEPT !.has = h, !.twice = t]]
    BY <1>4
  <2> HIDE DEF h, t
  <2>2. [scenes[id] EXCEPT !.has = h, !.twice = t] =
          [code |-> scenes[id].code, has |-> h, twice |-> t, secs |-> scenes[id].secs]
    BY <1>1, SceneCut
  <2>3. scenes' = [scenes EXCEPT ![id] = [code |-> scenes[id].code, has |-> h, twice |-> t, secs |-> scenes[id].secs]]
    BY <2>1, <2>2
  <2> QED  BY <2>3 DEF h, t
<1>6. /\ scenes' = [o \in SceneIds |-> scenes'[o]] /\ DOMAIN scenes' = SceneIds
      /\ \A o \in SceneIds : SceneShape(scenes'[o]) /\ scenes'[o].twice \subseteq scenes[o].twice
                             /\ scenes'[o].has \subseteq scenes[o].has
  BY <1>1, <1>5, SceneReplaced
<1>7. HistoryShapes'
  BY <1>1, <1>2, <1>3, <1>6 DEF HistoryShapes
<1>8. \A o \in SceneIds : scenes[o].has \subseteq Past
  BY DEF HistoryInv, AllOfThePast
<1> QED  BY <1>2, <1>3, <1>6, <1>7, <1>8, WorldKeeps

\* The archive and the reviews.
LEMMA ArchivedRow ==
  ASSUME NEW id \in SceneIds, NEW got, NEW rel, archive' = Archived(id, got, rel)
  PROVE  /\ \A o \in SceneIds : \A e \in archive'[o].events : e \in got.has \/ \E i \in SceneIds : e \in archive[i].events
         /\ \A i \in SceneIds : \A e \in archive[i].events : \E o \in SceneIds : e \in archive'[o].events
<1> DEFINE old == Replaced(id, rel)
<1>1. old \subseteq SceneIds \ {id}
  BY DEF Replaced
<1>2. /\ archive'[id].events = got.has \cup archive[id].events \cup UNION {archive[o].events : o \in old}
      /\ \A o \in SceneIds \ {id} : archive'[o].events = IF o \in old THEN {} ELSE archive[o].events
  BY DEF Archived, KeptEvents, NoRow
<1> HIDE DEF old
<1>3. \A o \in SceneIds : \A e \in archive'[o].events : e \in got.has \/ \E i \in SceneIds : e \in archive[i].events
  BY <1>1, <1>2
<1>4. ASSUME NEW i \in SceneIds, NEW e \in archive[i].events  PROVE \E o \in SceneIds : e \in archive'[o].events
  <2>1. CASE i = id \/ i \in old
    BY <1>2, <2>1
  <2>2. CASE i # id /\ i \notin old
    BY <1>2, <2>2
  <2> QED  BY <2>1, <2>2
<1> QED  BY <1>3, <1>4

LEMMA SyncKeeps ==
  ASSUME HistoryInv, SyncFetch \/ \E id \in SceneIds : SyncScene(id)
  PROVE  HistoryInv'
<1>1. HistoryShapes /\ AllOfThePast
  BY DEF HistoryInv
<1>2. UNCHANGED <<scenes, review, applier, historyUsed>> /\ Past' = Past
  BY DEF SyncFetch, SyncScene, Past
<1>3. NotesAreComplete' /\ AddsWhatLacks' /\ AddedOnce'
  BY <1>2 DEF HistoryInv, NotesAreComplete, AddsWhatLacks, AddedOnce, Writing
<1>4. CASE SyncFetch
  <2>1. synced'.fetched = scenes /\ archive' = archive
    BY <1>4 DEF SyncFetch
  <2>2. HistoryShapes'
    BY <1>1, <1>2, <2>1 DEF HistoryShapes
  <2>3. AllOfThePast'
    BY <1>1, <1>2, <2>1 DEF AllOfThePast, OfThePast
  <2> QED  BY <1>3, <2>2, <2>3 DEF HistoryInv
<1>5. ASSUME NEW id \in SceneIds, SyncScene(id)  PROVE HistoryInv'
  <2>1. synced'.fetched = [synced.fetched EXCEPT ![id] = NoScene]
    BY <1>5 DEF SyncScene
  <2>2. \A o \in SceneIds : synced'.fetched[o].has \subseteq Past
    BY <1>1, <2>1 DEF HistoryShapes, AllOfThePast, NoScene
  <2>3. PICK rel : archive' = Archived(id, synced.fetched[id], rel)
    BY <1>5 DEF SyncScene
  <2>4. \A o \in SceneIds : archive'[o].events \subseteq Past
    BY <1>1, <2>3, ArchivedRow DEF AllOfThePast
  <2>5. HistoryShapes'
    BY <1>1, <1>2, <2>1 DEF HistoryShapes
  <2>6. AllOfThePast'
    BY <1>1, <1>2, <2>2, <2>4 DEF AllOfThePast, OfThePast
  <2> QED  BY <1>3, <2>5, <2>6 DEF HistoryInv
<1> QED  BY <1>4, <1>5

LEMMA ReviewKeeps ==
  ASSUME HistoryInv, MakeReview
  PROVE  HistoryInv'
<1>1. HistoryShapes /\ AllOfThePast
  BY DEF HistoryInv
<1>2. UNCHANGED <<scenes, archive, synced, applier>> /\ Counted("reviews")
  BY DEF MakeReview
<1>3. Past \subseteq Past' /\ historyUsed' \in [events : Nat, rebuilds : Nat, reviews : Nat, faults : Nat]
  BY <1>1, <1>2, PastGrows
<1>4. PICK into \in [SceneIds -> SceneIds \cup {0}] : review'.items = Review(into)
  BY DEF MakeReview
<1>5. ASSUME NEW item \in Review(into)  PROVE item.events \subseteq Past /\ item.target \in SceneIds
  <2>1. PICK id \in SceneIds : into[id] # 0 /\ item = ReviewItem(id, into[id])
    BY DEF Review
  <2>2. item.events \subseteq archive[id].events /\ item.target = into[id]
    BY <2>1 DEF ReviewItem
  <2> QED  BY <1>1, <2>1, <2>2 DEF AllOfThePast
<1>6. HistoryShapes'
  BY <1>1, <1>2, <1>3 DEF HistoryShapes
<1>7. AllOfThePast'
  BY <1>1, <1>2, <1>3, <1>4, <1>5 DEF AllOfThePast, OfThePast
<1>8. NotesAreComplete' /\ AddsWhatLacks' /\ AddedOnce'
  BY <1>2 DEF HistoryInv, NotesAreComplete, AddsWhatLacks, AddedOnce, Writing
<1> QED  BY <1>6, <1>7, <1>8 DEF HistoryInv

-----------------------------------------------------------------------------
\* The application of a review.
ApplierFields == {"pc", "items", "sets", "secs", "target", "add", "want"}

LEMMA ApplierShape ==
  ASSUME NEW q, q = [i \in DOMAIN q |-> q[i]], DOMAIN q = ApplierFields
  PROVE  q = [pc |-> q.pc, items |-> q.items, sets |-> q.sets, secs |-> q.secs,
              target |-> q.target, add |-> q.add, want |-> q.want]
<1> DEFINE w == [pc |-> q.pc, items |-> q.items, sets |-> q.sets, secs |-> q.secs,
                 target |-> q.target, add |-> q.add, want |-> q.want]
<1>1. /\ DOMAIN w = ApplierFields /\ w = [i \in DOMAIN w |-> w[i]]
      /\ w["pc"] = q["pc"] /\ w["items"] = q["items"] /\ w["sets"] = q["sets"] /\ w["secs"] = q["secs"]
      /\ w["target"] = q["target"] /\ w["add"] = q["add"] /\ w["want"] = q["want"]
  BY DEF ApplierFields
<1> HIDE DEF w
<1>2. \A i \in ApplierFields : w[i] = q[i]
  BY <1>1 DEF ApplierFields
<1>3. w = q
  BY <1>1, <1>2
<1> QED  BY <1>3 DEF w

LEMMA ApplierIs ==
  ASSUME HistoryShapes
  PROVE  applier = [i \in DOMAIN applier |-> applier[i]] /\ DOMAIN applier = ApplierFields
BY DEF HistoryShapes, ApplierFields

LEMMA TakeKeeps ==
  ASSUME HistoryInv, NEW token \in tokens, TakeReview(token)
  PROVE  HistoryInv'
<1>1. HistoryShapes /\ AllOfThePast /\ AddedOnce /\ applier.pc = "idle"
  BY DEF HistoryInv, TakeReview
<1>2. UNCHANGED <<scenes, archive, synced, historyUsed>> /\ Past' = Past
  BY DEF TakeReview, Past
<1>3. \/ UNCHANGED <<review, applier>>
      \/ review' = NoReview /\ \E chosen \in SUBSET review.items :
                                 applier' = [NotApplying EXCEPT !.pc = "fetch", !.items = chosen]
  BY DEF TakeReview
<1>4. CASE UNCHANGED <<review, applier>>
  <2>1. HistoryShapes' /\ AllOfThePast'
    BY <1>1, <1>2, <1>4 DEF HistoryShapes, AllOfThePast, OfThePast
  <2>2. NotesAreComplete' /\ AddsWhatLacks' /\ AddedOnce'
    BY <1>2, <1>4 DEF HistoryInv, NotesAreComplete, AddsWhatLacks, AddedOnce, Writing
  <2> QED  BY <2>1, <2>2 DEF HistoryInv
<1>5. ASSUME NEW chosen \in SUBSET review.items, review' = NoReview,
             applier' = [NotApplying EXCEPT !.pc = "fetch", !.items = chosen]
      PROVE  HistoryInv'
  <2>1. applier' = [pc |-> "fetch", items |-> chosen, sets |-> [id \in SceneIds |-> {}],
                    secs |-> [id \in SceneIds |-> 0], target |-> 0, add |-> {}, want |-> 0]
    BY <1>5 DEF NotApplying
  <2>2. HistoryShapes'
    BY <1>1, <1>2, <2>1 DEF HistoryShapes
  <2>3. review'.items = {}
    BY <1>5 DEF NoReview
  <2>4. AllOfThePast'
    BY <1>1, <1>2, <2>1, <2>3 DEF AllOfThePast, OfThePast
  <2>5. NotesAreComplete' /\ AddsWhatLacks' /\ AddedOnce'
    BY <1>1, <1>2, <2>1 DEF NotesAreComplete, AddsWhatLacks, AddedOnce, Writing
  <2> QED  BY <2>2, <2>4, <2>5 DEF HistoryInv
<1> QED  BY <1>3, <1>4, <1>5

LEMMA FetchKeeps ==
  ASSUME HistoryInv, FetchBefore
  PROVE  HistoryInv'
<1>1. HistoryShapes /\ AllOfThePast /\ AddedOnce
  BY DEF HistoryInv
<1>2. UNCHANGED <<scenes, archive, synced, review, historyUsed>> /\ Past' = Past
  BY DEF FetchBefore, Past
<1>3. /\ applier' = [pc |-> applier'.pc, items |-> applier'.items, sets |-> applier'.sets, secs |-> applier'.secs,
                     target |-> applier'.target, add |-> applier'.add, want |-> applier'.want]
      /\ applier'.pc = "next" /\ applier'.items = applier.items /\ applier'.add = applier.add
      /\ applier'.sets = [id \in SceneIds |-> scenes[id].has]
  <2> DEFINE S == [id \in SceneIds |-> scenes[id].has]
             T == [id \in SceneIds |-> scenes[id].secs]
  <2>1. applier' = [applier EXCEPT !.pc = "next", !.sets = S, !.secs = T]
    BY DEF FetchBefore
  <2> HIDE DEF S, T
  <2>2. /\ DOMAIN applier' = ApplierFields /\ applier' = [i \in DOMAIN applier' |-> applier'[i]]
        /\ applier'.pc = "next" /\ applier'.sets = S /\ applier'.items = applier.items /\ applier'.add = applier.add
    BY <1>1, <2>1, ApplierIs DEF ApplierFields
  <2> QED  BY <2>2, ApplierShape DEF S
<1>4. HistoryShapes'
  BY <1>1, <1>2, <1>3 DEF HistoryShapes
<1>5. AllOfThePast'
  BY <1>1, <1>2, <1>3 DEF AllOfThePast, OfThePast
<1>6. NotesAreComplete' /\ AddsWhatLacks' /\ AddedOnce'
  BY <1>1, <1>2, <1>3
     DEF NotesAreComplete, AddsWhatLacks, AddedOnce, Writing, AllOfThePast, OfThePast
<1> QED  BY <1>4, <1>5, <1>6 DEF HistoryInv

LEMMA NextItemKeeps ==
  ASSUME HistoryInv, NextItem
  PROVE  HistoryInv'
<1>1. HistoryShapes /\ AllOfThePast /\ AddedOnce /\ applier.pc = "next"
  BY DEF HistoryInv, NextItem
<1>2. UNCHANGED <<scenes, archive, synced, review, historyUsed>> /\ Past' = Past
  BY DEF NextItem, Past
<1>3. CASE applier' = NotApplying
  <2>1. HistoryShapes'
    BY <1>1, <1>2, <1>3 DEF HistoryShapes, NotApplying
  <2>2. AllOfThePast'
    BY <1>1, <1>2, <1>3 DEF AllOfThePast, OfThePast, NotApplying
  <2>3. NotesAreComplete' /\ AddsWhatLacks' /\ AddedOnce'
    BY <1>1, <1>2, <1>3 DEF NotesAreComplete, AddsWhatLacks, AddedOnce, Writing, NotApplying
  <2> QED  BY <2>1, <2>2, <2>3 DEF HistoryInv
<1>4. ASSUME NEW item \in applier.items,
             applier' = [applier EXCEPT !.pc = "plays", !.items = @ \ {item}, !.target = item.target,
                                        !.add = item.events \ applier.sets[item.target],
                                        !.want = item.secs, !.sets = Noted(@, item)]
      PROVE  HistoryInv'
  <2> DEFINE rest == applier.items \ {item}
             new == item.events \ applier.sets[item.target]
             sets == Noted(applier.sets, item)
             t == item.target
  <2>1. t \in SceneIds /\ item.events \subseteq Past
    BY <1>1 DEF AllOfThePast, OfThePast
  <2>2. /\ sets = [id \in SceneIds |-> sets[id]] /\ sets[t] = applier.sets[t] \cup item.events
        /\ \A id \in SceneIds : applier.sets[id] \subseteq sets[id]
    <3>1. applier.sets = [id \in SceneIds |-> applier.sets[id]]
      BY <1>1 DEF HistoryShapes
    <3>2. sets = [id \in SceneIds |-> IF id = t THEN applier.sets[id] \cup item.events ELSE applier.sets[id]]
      BY <3>1 DEF Noted
    <3> QED  BY <2>1, <3>2
  <2>3. applier' = [applier EXCEPT !.pc = "plays", !.items = rest, !.target = t, !.add = new,
                                   !.want = item.secs, !.sets = sets]
    BY <1>4
  <2>4. item.events \cap scenes[t].has \subseteq applier.sets[t]
    BY <1>1 DEF HistoryInv, NotesAreComplete
  <2>5. new \cap scenes[t].has = {} /\ new \subseteq item.events
    BY <2>4
  <2> HIDE DEF rest, new, sets, t
  <2>6. /\ DOMAIN applier' = ApplierFields /\ applier' = [i \in DOMAIN applier' |-> applier'[i]]
        /\ applier'.pc = "plays" /\ applier'.sets = sets /\ applier'.items = rest /\ applier'.add = new
        /\ applier'.target = t
    BY <1>1, <2>3, ApplierIs DEF ApplierFields
  <2>7. HistoryShapes'
    BY <1>1, <1>2, <2>2, <2>6, ApplierShape DEF HistoryShapes
  <2>8. AllOfThePast'
    BY <1>1, <1>2, <2>1, <2>5, <2>6 DEF AllOfThePast, OfThePast, rest
  <2>9. NotesAreComplete'
    <3>1. ASSUME NEW i \in rest  PROVE i.events \cap scenes[i.target].has \subseteq sets[i.target]
      <4>1. i \in applier.items /\ i.target \in SceneIds
        BY <1>1 DEF AllOfThePast, OfThePast, rest
      <4> QED  BY <1>1, <2>2, <4>1 DEF HistoryInv, NotesAreComplete
    <3> QED  BY <1>2, <2>6, <3>1 DEF NotesAreComplete
  <2>10. AddsWhatLacks'
    BY <1>2, <2>1, <2>2, <2>5, <2>6 DEF AddsWhatLacks, Writing
  <2> QED  BY <1>1, <1>2, <2>7, <2>8, <2>9, <2>10 DEF HistoryInv, AddedOnce
<1> QED  BY <1>3, <1>4 DEF NextItem

\* A request to StashApp adds events the scene lacks, or seconds, or fails.
LEMMA MutationKeeps ==
  ASSUME HistoryInv, applier.pc \in Writing, NEW new, new \subseteq applier.add,
         new \cap scenes[applier.target].has = {},
         UNCHANGED <<archive, synced, review>>,
         historyUsed' = historyUsed \/ Counted("faults"),
         \/ scenes' = scenes
         \/ \E h \in {scenes[applier.target].has, scenes[applier.target].has \cup new} : \E n :
              scenes' = [scenes EXCEPT ![applier.target] =
                           [code |-> scenes[applier.target].code, has |-> h, twice |-> {}, secs |-> n]],
         applier' = [pc |-> applier'.pc, items |-> applier'.items, sets |-> applier'.sets, secs |-> applier'.secs,
                     target |-> applier'.target, add |-> applier'.add, want |-> applier'.want],
         applier'.items = applier.items, applier'.sets = applier.sets, applier'.add = applier.add,
         applier'.target = applier.target,
         \/ applier'.pc \in {"next", "duration"}
         \/ applier'.pc = "orgasms" /\ (applier.add \ Plays(applier.add)) \cap scenes'[applier.target].has = {}
  PROVE  HistoryInv'
<1> DEFINE t == applier.target
<1>1. HistoryShapes /\ AllOfThePast /\ AddedOnce /\ t \in SceneIds /\ applier.add \subseteq applier.sets[t]
  BY DEF HistoryInv, AddsWhatLacks
<1>2. /\ historyUsed' \in [events : Nat, rebuilds : Nat, reviews : Nat, faults : Nat]
      /\ Past \subseteq Past'
  <2>1. CASE historyUsed' = historyUsed
    BY <1>1, <2>1 DEF HistoryShapes, Past
  <2>2. CASE Counted("faults")
    BY <1>1, <2>2, PastGrows
  <2> QED  BY <2>1, <2>2
<1>3. /\ scenes' = [o \in SceneIds |-> scenes'[o]] /\ DOMAIN scenes' = SceneIds
      /\ \A o \in SceneIds : SceneShape(scenes'[o]) /\ scenes'[o].twice = {}
      /\ \A o \in SceneIds \ {t} : scenes'[o].has = scenes[o].has
      /\ scenes'[t].has \subseteq scenes[t].has \cup new
  <2>1. CASE scenes' = scenes
    BY <1>1, <2>1 DEF HistoryShapes, AddedOnce
  <2>2. ASSUME NEW h \in {scenes[t].has, scenes[t].has \cup new}, NEW n,
               scenes' = [scenes EXCEPT ![t] = [code |-> scenes[t].code, has |-> h, twice |-> {}, secs |-> n]]
        PROVE  /\ scenes' = [o \in SceneIds |-> scenes'[o]] /\ DOMAIN scenes' = SceneIds
               /\ \A o \in SceneIds : SceneShape(scenes'[o]) /\ scenes'[o].twice = {}
               /\ \A o \in SceneIds \ {t} : scenes'[o].has = scenes[o].has
               /\ scenes'[t].has \subseteq scenes[t].has \cup new
    <3>1. /\ scenes' = [o \in SceneIds |-> scenes'[o]] /\ DOMAIN scenes' = SceneIds
          /\ \A o \in SceneIds : SceneShape(scenes'[o])
          /\ scenes'[t].has = h /\ scenes'[t].twice = {}
          /\ \A o \in SceneIds \ {t} : scenes'[o] = scenes[o]
      BY <1>1, <2>2, SceneReplaced
    <3> QED  BY <1>1, <3>1 DEF AddedOnce
  <2>3. \/ scenes' = scenes
        \/ \E h \in {scenes[t].has, scenes[t].has \cup new} : \E n :
             scenes' = [scenes EXCEPT ![t] = [code |-> scenes[t].code, has |-> h, twice |-> {}, secs |-> n]]
    OBVIOUS
  <2> HIDE DEF t
  <2> QED  BY <2>1, <2>2, <2>3
<1> HIDE DEF t
<1>4. HistoryShapes'
  BY <1>1, <1>2, <1>3 DEF HistoryShapes
<1>5. AllOfThePast'
  BY <1>1, <1>2, <1>3 DEF AllOfThePast, OfThePast
<1>6. NotesAreComplete'
  <2>1. ASSUME NEW item \in applier.items
        PROVE  item.events \cap scenes'[item.target].has \subseteq applier.sets[item.target]
    <3>1. item.target \in SceneIds /\ item.events \cap scenes[item.target].has \subseteq applier.sets[item.target]
      BY <1>1 DEF HistoryInv, AllOfThePast, OfThePast, NotesAreComplete
    <3>2. CASE item.target = t
      BY <1>1, <1>3, <3>1, <3>2
    <3>3. CASE item.target # t
      BY <1>3, <3>1, <3>3
    <3> QED  BY <3>2, <3>3
  <2> QED  BY <2>1 DEF NotesAreComplete
<1>7. AddsWhatLacks'
  BY <1>1 DEF AddsWhatLacks, Writing, t
<1> QED  BY <1>3, <1>4, <1>5, <1>6, <1>7 DEF HistoryInv, AddedOnce

\* The applier after one field or two have changed.
LEMMA ApplierGoesOn ==
  ASSUME HistoryShapes, NEW pc
  PROVE  LET q == [applier EXCEPT !.pc = pc] IN
         /\ q = [pc |-> q.pc, items |-> q.items, sets |-> q.sets, secs |-> q.secs,
                 target |-> q.target, add |-> q.add, want |-> q.want]
         /\ q.pc = pc /\ q.items = applier.items /\ q.sets = applier.sets /\ q.add = applier.add
         /\ q.target = applier.target
<1> DEFINE q == [applier EXCEPT !.pc = pc]
<1>1. /\ DOMAIN q = ApplierFields /\ q = [i \in DOMAIN q |-> q[i]]
      /\ q.pc = pc /\ q.items = applier.items /\ q.sets = applier.sets /\ q.add = applier.add
      /\ q.target = applier.target
  BY ApplierIs DEF ApplierFields
<1> HIDE DEF q
<1>2. q = [pc |-> q.pc, items |-> q.items, sets |-> q.sets, secs |-> q.secs,
           target |-> q.target, add |-> q.add, want |-> q.want]
  BY <1>1, ApplierShape
<1> QED  BY <1>1, <1>2 DEF q

LEMMA PlaysKeep ==
  ASSUME HistoryInv, AddPlays
  PROVE  HistoryInv'
<1> DEFINE s == scenes[applier.target]
           new == Plays(applier.add)
<1>1. applier.pc = "plays" /\ applier.target \in SceneIds
  BY DEF AddPlays, Mutation, HistoryInv, AddsWhatLacks, Writing
<1>2. SceneShape(s) /\ s.twice = {} /\ s.has \cap applier.add = {} /\ HistoryShapes
  BY <1>1 DEF HistoryInv, HistoryShapes, AddedOnce, AddsWhatLacks
<1>3. new \subseteq applier.add
  BY DEF Plays
<1>4. WithEvents(s, new) = [code |-> s.code, has |-> s.has \cup new, twice |-> {}, secs |-> s.secs]
  <2> DEFINE t == s.twice \cup (s.has \cap new)
             h == s.has \cup new
  <2>1. t = {}
    BY <1>2, <1>3
  <2>2. WithEvents(s, new) = [s EXCEPT !.twice = t, !.has = h]
    BY DEF WithEvents
  <2> HIDE DEF t, h, s, new
  <2>3. [s EXCEPT !.twice = t, !.has = h] = [code |-> s.code, has |-> h, twice |-> t, secs |-> s.secs]
    BY <1>2, SceneAdded
  <2> QED  BY <2>1, <2>2, <2>3 DEF h
<1>5. Mutation("plays", WithEvents(s, new), [applier EXCEPT !.pc = "orgasms"])
  BY DEF AddPlays
<1>6. /\ UNCHANGED <<archive, synced, review>>
      /\ historyUsed' = historyUsed \/ Counted("faults")
      /\ scenes' = scenes \/ scenes' = [scenes EXCEPT ![applier.target] = WithEvents(s, new)]
      /\ \/ applier' = [applier EXCEPT !.pc = "orgasms"] /\ scenes' = [scenes EXCEPT ![applier.target] = WithEvents(s, new)]
         \/ applier' = [applier EXCEPT !.pc = "next"]
  BY <1>5 DEF Mutation
<1>7. applier' = [applier EXCEPT !.pc = "orgasms"] => scenes'[applier.target].has = s.has \cup new \/ applier'.pc = "next"
  <2>1. DOMAIN scenes = SceneIds
    BY <1>2 DEF HistoryShapes
  <2>2. scenes' = [scenes EXCEPT ![applier.target] = WithEvents(s, new)] => scenes'[applier.target].has = s.has \cup new
    BY <1>1, <1>4, <2>1
  <2>3. applier' = [applier EXCEPT !.pc = "next"] => applier'.pc = "next"
    BY <1>2 DEF HistoryShapes
  <2> QED  BY <1>6, <2>2, <2>3
<1>8. (applier.add \ new) \cap (s.has \cup new) = {}
  BY <1>2
<1> HIDE DEF s, new
<1>9. PICK pc \in {"orgasms", "next"} : applier' = [applier EXCEPT !.pc = pc]
  BY <1>6
<1>10. /\ applier' = [pc |-> applier'.pc, items |-> applier'.items, sets |-> applier'.sets, secs |-> applier'.secs,
                      target |-> applier'.target, add |-> applier'.add, want |-> applier'.want]
       /\ applier'.pc = pc /\ applier'.items = applier.items /\ applier'.sets = applier.sets
       /\ applier'.add = applier.add /\ applier'.target = applier.target
  BY <1>2, <1>9, ApplierGoesOn
<1>11. \/ scenes' = scenes
       \/ scenes' = [scenes EXCEPT ![applier.target] = [code |-> s.code, has |-> s.has \cup new, twice |-> {}, secs |-> s.secs]]
  BY <1>4, <1>6
<1>12. \/ applier'.pc \in {"next", "duration"}
       \/ applier'.pc = "orgasms" /\ (applier.add \ Plays(applier.add)) \cap scenes'[applier.target].has = {}
  BY <1>7, <1>8, <1>9, <1>10 DEF new
<1> QED  BY <1>1, <1>2, <1>3, <1>6, <1>10, <1>11, <1>12, MutationKeeps DEF s, Writing

LEMMA OrgasmsKeep ==
  ASSUME HistoryInv, AddOrgasms
  PROVE  HistoryInv'
<1> DEFINE s == scenes[applier.target]
           new == applier.add \ Plays(applier.add)
<1>1. applier.pc = "orgasms" /\ applier.target \in SceneIds
  BY DEF AddOrgasms, Mutation, HistoryInv, AddsWhatLacks, Writing
<1>2. SceneShape(s) /\ s.twice = {} /\ s.has \cap new = {} /\ HistoryShapes /\ new \subseteq applier.add
  BY <1>1 DEF HistoryInv, HistoryShapes, AddedOnce, AddsWhatLacks
<1>4. WithEvents(s, new) = [code |-> s.code, has |-> s.has \cup new, twice |-> {}, secs |-> s.secs]
  <2> DEFINE t == s.twice \cup (s.has \cap new)
             h == s.has \cup new
  <2>1. t = {}
    BY <1>2
  <2>2. WithEvents(s, new) = [s EXCEPT !.twice = t, !.has = h]
    BY DEF WithEvents
  <2> HIDE DEF t, h, s, new
  <2>3. [s EXCEPT !.twice = t, !.has = h] = [code |-> s.code, has |-> h, twice |-> t, secs |-> s.secs]
    BY <1>2, SceneAdded
  <2> QED  BY <2>1, <2>2, <2>3 DEF h
<1>5. Mutation("orgasms", WithEvents(s, new), [applier EXCEPT !.pc = "duration"])
  BY DEF AddOrgasms
<1>6. /\ UNCHANGED <<archive, synced, review>>
      /\ historyUsed' = historyUsed \/ Counted("faults")
      /\ scenes' = scenes \/ scenes' = [scenes EXCEPT ![applier.target] = WithEvents(s, new)]
      /\ \E pc \in {"duration", "next"} : applier' = [applier EXCEPT !.pc = pc]
  BY <1>5 DEF Mutation
<1> HIDE DEF s, new
<1>9. PICK pc \in {"duration", "next"} : applier' = [applier EXCEPT !.pc = pc]
  BY <1>6
<1>10. /\ applier' = [pc |-> applier'.pc, items |-> applier'.items, sets |-> applier'.sets, secs |-> applier'.secs,
                      target |-> applier'.target, add |-> applier'.add, want |-> applier'.want]
       /\ applier'.pc = pc /\ applier'.items = applier.items /\ applier'.sets = applier.sets
       /\ applier'.add = applier.add /\ applier'.target = applier.target
  BY <1>2, <1>9, ApplierGoesOn
<1>11. \/ scenes' = scenes
       \/ scenes' = [scenes EXCEPT ![applier.target] = [code |-> s.code, has |-> s.has \cup new, twice |-> {}, secs |-> s.secs]]
  BY <1>4, <1>6
<1> QED  BY <1>1, <1>2, <1>6, <1>9, <1>10, <1>11, MutationKeeps DEF s, Writing

LEMMA ActivityKeeps ==
  ASSUME HistoryInv, SaveActivity
  PROVE  HistoryInv'
<1> DEFINE t == applier.target
           s == scenes[t]
           delta == Max({0, applier.want - applier.secs[t]})
           n == s.secs + delta
           done == [s EXCEPT !.secs = @ + delta]
           next == [applier EXCEPT !.pc = "next", !.secs[t] = @ + delta]
<1>1. applier.pc = "duration" /\ t \in SceneIds
  BY DEF SaveActivity, Mutation, HistoryInv, AddsWhatLacks, Writing
<1>2. SceneShape(s) /\ s.twice = {} /\ HistoryShapes
  BY <1>1 DEF HistoryInv, HistoryShapes, AddedOnce
<1>3. Mutation("duration", done, next)
  BY DEF SaveActivity
<1>4. done = [code |-> s.code, has |-> s.has, twice |-> {}, secs |-> n]
  <2>1. done = [s EXCEPT !.secs = n]
    OBVIOUS
  <2> HIDE DEF n, s, done
  <2>2. [s EXCEPT !.secs = n] = [code |-> s.code, has |-> s.has, twice |-> s.twice, secs |-> n]
    BY <1>2, SceneTimed
  <2> QED  BY <1>2, <2>1, <2>2
<1>5. /\ UNCHANGED <<archive, synced, review>>
      /\ historyUsed' = historyUsed \/ Counted("faults")
      /\ scenes' = scenes \/ scenes' = [scenes EXCEPT ![t] = done]
      /\ applier' = next \/ applier' = [applier EXCEPT !.pc = "next"]
  BY <1>3 DEF Mutation
<1>6. /\ DOMAIN applier' = ApplierFields /\ applier' = [i \in DOMAIN applier' |-> applier'[i]]
      /\ applier'.pc = "next" /\ applier'.items = applier.items /\ applier'.sets = applier.sets
      /\ applier'.add = applier.add /\ applier'.target = applier.target
  <2>1. CASE applier' = next
    <3> DEFINE w == [applier.secs EXCEPT ![t] = @ + delta]
    <3>1. applier' = [applier EXCEPT !.pc = "next", !.secs = w]
      BY <1>2, <2>1, ApplierIs
    <3> HIDE DEF w
    <3> QED  BY <1>2, <3>1, ApplierIs DEF ApplierFields
  <2>2. CASE applier' = [applier EXCEPT !.pc = "next"]
    BY <1>2, <2>2, ApplierIs DEF ApplierFields
  <2> QED  BY <1>5, <2>1, <2>2
<1> HIDE DEF s, t, n, done, next
<1>7. applier' = [pc |-> applier'.pc, items |-> applier'.items, sets |-> applier'.sets, secs |-> applier'.secs,
                  target |-> applier'.target, add |-> applier'.add, want |-> applier'.want]
  BY <1>6, ApplierShape
<1>8. \/ scenes' = scenes
      \/ scenes' = [scenes EXCEPT ![t] = [code |-> s.code, has |-> s.has \cup {}, twice |-> {}, secs |-> n]]
  BY <1>4, <1>5
<1>9. {} \subseteq applier.add /\ {} \cap scenes[applier.target].has = {}
  OBVIOUS
<1> QED  BY <1>1, <1>5, <1>6, <1>7, <1>8, <1>9, MutationKeeps DEF s, t, Writing

LEMMA HistoryRestartKeeps ==
  ASSUME HistoryInv, HistoryRestart
  PROVE  HistoryInv'
<1>1. HistoryShapes /\ AllOfThePast /\ AddedOnce
  BY DEF HistoryInv
<1>2. /\ review' = NoReview /\ applier' = NotApplying /\ UNCHANGED <<scenes, archive>> /\ Counted("faults")
      /\ synced'.fetched = [id \in SceneIds |-> NoScene]
  BY DEF HistoryRestart
<1>3. Past \subseteq Past' /\ historyUsed' \in [events : Nat, rebuilds : Nat, reviews : Nat, faults : Nat]
  BY <1>1, <1>2, PastGrows
<1>4. HistoryShapes'
  BY <1>1, <1>2, <1>3 DEF HistoryShapes, NotApplying
<1>5. AllOfThePast'
  BY <1>1, <1>2, <1>3 DEF AllOfThePast, OfThePast, NotApplying, NoReview, NoScene
<1>6. NotesAreComplete' /\ AddsWhatLacks' /\ AddedOnce'
  BY <1>1, <1>2 DEF NotesAreComplete, AddsWhatLacks, AddedOnce, Writing, NotApplying
<1> QED  BY <1>4, <1>5, <1>6 DEF HistoryInv

LEMMA HistoryStart ==
  ASSUME HistoryInit
  PROVE  HistoryInv
<1>1. PICK codes \in FirstCodes : scenes = [id \in SceneIds |-> [NoScene EXCEPT !.code = codes[id]]]
  BY DEF HistoryInit
<1>2. /\ scenes = [o \in SceneIds |-> scenes[o]] /\ DOMAIN scenes = SceneIds
      /\ \A o \in SceneIds : SceneShape(scenes[o]) /\ scenes[o].twice = {} /\ scenes[o].has = {}
  BY <1>1 DEF SceneShape, NoScene
<1>3. /\ applier = NotApplying /\ review = NoReview /\ synced.fetched = [id \in SceneIds |-> NoScene]
      /\ archive = [id \in SceneIds |-> NoRow]
      /\ historyUsed \in [events : Nat, rebuilds : Nat, reviews : Nat, faults : Nat]
  BY DEF HistoryInit
<1>4. HistoryShapes
  BY <1>2, <1>3 DEF HistoryShapes, NotApplying
<1>5. AllOfThePast
  BY <1>2, <1>3 DEF AllOfThePast, OfThePast, NotApplying, NoReview, NoScene, NoRow
<1>6. NotesAreComplete /\ AddsWhatLacks /\ AddedOnce
  BY <1>2, <1>3 DEF NotesAreComplete, AddsWhatLacks, AddedOnce, Writing, NotApplying
<1> QED  BY <1>4, <1>5, <1>6 DEF HistoryInv

LEMMA HistoryStep ==
  ASSUME HistoryInv, [HistoryNext]_historyVars
  PROVE  HistoryInv'
<1>1. CASE UNCHANGED historyVars
  <2>1. UNCHANGED <<scenes, archive, synced, review, applier, historyUsed>> /\ Past' = Past
    BY <1>1 DEF historyVars, Past
  <2>2. HistoryShapes' /\ AllOfThePast'
    BY <2>1 DEF HistoryInv, HistoryShapes, AllOfThePast, OfThePast
  <2>3. NotesAreComplete' /\ AddsWhatLacks' /\ AddedOnce'
    BY <2>1 DEF HistoryInv, NotesAreComplete, AddsWhatLacks, AddedOnce, Writing
  <2> QED  BY <2>2, <2>3 DEF HistoryInv
<1>2. CASE \E id \in SceneIds : (\E kind \in {"play", "o"} : Watched(id, kind)) \/ HistoryDeleted(id)
  BY <1>2, WatchedKeeps, DeletedKeeps DEF Kinds
<1>3. CASE Rebuilt
  BY <1>3, RebuiltKeeps
<1>4. CASE SyncFetch \/ \E id \in SceneIds : SyncScene(id)
  BY <1>4, SyncKeeps
<1>5. CASE MakeReview \/ HistoryRestart
  BY <1>5, ReviewKeeps, HistoryRestartKeeps
<1>6. CASE (\E token \in tokens : TakeReview(token)) \/ FetchBefore \/ NextItem
  BY <1>6, TakeKeeps, FetchKeeps, NextItemKeeps
<1>7. CASE AddPlays \/ AddOrgasms \/ SaveActivity
  BY <1>7, PlaysKeep, OrgasmsKeep, ActivityKeeps
<1> QED  BY <1>1, <1>2, <1>3, <1>4, <1>5, <1>6, <1>7 DEF HistoryNext

\* StashApp is given no event it has (planHistoryWriteback, ApplyHistoryWriteback).
THEOREM EventsAreAddedOnce == HistorySpec => []AddedOnce
<1>1. HistoryInit => HistoryInv
  BY HistoryStart
<1>2. HistoryInv /\ [HistoryNext]_historyVars => HistoryInv'
  BY HistoryStep
<1>3. HistoryInv => AddedOnce
  BY DEF HistoryInv
<1> QED  BY <1>1, <1>2, <1>3, PTL DEF HistorySpec

\* The archive forgets nothing (UpsertStashHistory).
LEMMA ArchiveGrows ==
  ASSUME [HistoryNext]_historyVars
  PROVE  ArchivedEvents \subseteq ArchivedEvents'
<1>1. CASE archive' = archive
  BY <1>1 DEF ArchivedEvents
<1>2. ASSUME NEW id \in SceneIds, SyncScene(id)  PROVE ArchivedEvents \subseteq ArchivedEvents'
  <2>1. PICK rel : archive' = Archived(id, synced.fetched[id], rel)
    BY <1>2 DEF SyncScene
  <2>2. \A i \in SceneIds : \A e \in archive[i].events : \E o \in SceneIds : e \in archive'[o].events
    BY <2>1, ArchivedRow
  <2> QED  BY <2>2 DEF ArchivedEvents
<1>3. archive' = archive \/ \E id \in SceneIds : SyncScene(id)
  BY DEF HistoryNext, historyVars, Watched, HistoryDeleted, Rebuilt, SyncFetch, HistoryRestart,
         MakeReview, TakeReview,
         FetchBefore, NextItem, AddPlays, AddOrgasms, SaveActivity, Mutation
<1> QED  BY <1>1, <1>2, <1>3

(* No step takes an event from the archive (StashHistory,                  *)
(* UpsertStashHistory).                                                    *)
THEOREM ArchiveForgetsNothing == HistorySpec => ArchiveKeepsEvents
<1>1. [HistoryNext]_historyVars => [ArchivedEvents \subseteq ArchivedEvents']_historyVars
  BY ArchiveGrows
<1> QED  BY <1>1, PTL DEF HistorySpec, ArchiveKeepsEvents

-----------------------------------------------------------------------------
(***************************************************************************)
(* The scans for missing files (MissingFiles): a scan that has ended lists *)
(* each scene it found missing once, and no other, for any videos, scans,  *)
(* retrievals and applications that run at the same time.                  *)
(*                                                                         *)
(* The scans are numbered, and a row holds the number of the scan that     *)
(* last saw its scene (Stamps). A scene has one row (OnceListed), as a new *)
(* row takes a fresh number. The rows with the number of this scan are     *)
(* those of the scenes it saw missing (WrittenWereSeen, SeenWereWritten),  *)
(* and the older ones go at its end (OldWerePruned).                       *)
(***************************************************************************)

ScanSteps == {"off", "fetch", "releases", "check", "over"}
RetrieveSteps == {"off", "next", "scrape", "link", "monitor", "search"}
Modes == {"none", "monitor_only", "monitor_download"}
Names == Videos \cup {None}
RowType == [scene : Videos, rel : Names, status : Status, scanned : Nat]
ScanType == [running : BOOLEAN, pc : ScanSteps \cup Videos, k : Nat, todo : SUBSET Videos,
             known : SUBSET Videos, seen : SUBSET Videos, written : BOOLEAN]
RunType == [running : BOOLEAN, pc : RetrieveSteps, todo : SUBSET Nat, id : Nat, scene : Names, mode : Modes]

MissTypeOK ==
  /\ media \in [stash : SUBSET Videos, disk : SUBSET Videos]
  /\ rows \in [DOMAIN rows -> RowType] /\ DOMAIN rows \subseteq Nat /\ IsFiniteSet(DOMAIN rows)
  /\ library \in [known : SUBSET Videos, monitored : SUBSET Videos, wanted : SUBSET Videos]
  /\ scan \in ScanType /\ retrieve \in RunType /\ apply \in RunType
  /\ missingUsed \in [scans : Nat, moves : Nat, faults : Nat]

\* A retrieval or an application that works on a scene has its name.
RunsHaveScenes ==
  /\ retrieve.pc \in {"scrape", "link"} => retrieve.scene \in Videos
  /\ apply.pc \in {"monitor", "search"} => apply.scene \in Videos

\* No row is younger than the last scan that was started.
Stamps == /\ scan.k <= missingUsed.scans
          /\ \A id \in DOMAIN rows : rows[id].scanned <= missingUsed.scans
OnceListed == \A i, j \in DOMAIN rows : rows[i].scene = rows[j].scene => i = j

\* The rows a scan has written are those of the scenes it found missing.
WrittenWereSeen ==
  scan.pc # "off" => \A id \in DOMAIN rows : rows[id].scanned >= scan.k => rows[id].scene \in scan.seen
NothingSeenYet == scan.pc \in {"fetch", "releases"} => scan.seen = {}
SeenWereWritten ==
  scan.pc # "off" /\ scan.written =>
    \A v \in scan.seen : \E id \in DOMAIN rows :
      /\ rows[id].scene = v /\ rows[id].scanned >= scan.k
      /\ v \in scan.known /\ scan.pc # v => rows[id].rel # None
OldWerePruned == scan.pc = "over" => \A id \in DOMAIN rows : rows[id].scanned >= scan.k

MissingInv ==
  /\ MissTypeOK /\ RunsHaveScenes /\ Stamps /\ OnceListed
  /\ WrittenWereSeen /\ NothingSeenYet /\ SeenWereWritten /\ OldWerePruned

-----------------------------------------------------------------------------
\* A number for a new row.
LEMMA NextIdIsNew ==
  ASSUME MissTypeOK
  PROVE  NextId \in Nat /\ NextId \notin DOMAIN rows
<1> DEFINE S == {0} \cup DOMAIN rows
<1>1. DOMAIN rows \subseteq Nat /\ IsFiniteSet(DOMAIN rows)
  BY DEF MissTypeOK
<1>2. IsFiniteSet(DOMAIN rows \cup {0})
  BY <1>1, FS_AddElement
<1>3. S = DOMAIN rows \cup {0}
  OBVIOUS
<1>4. IsFiniteSet(S) /\ S \subseteq Nat /\ S # {}
  BY <1>1, <1>2, <1>3
<1> HIDE DEF S
<1>5. Max(S) \in Nat /\ \A k \in S : k <= Max(S)
  BY <1>4, MaxIsGreatest
<1>6. Max(S) + 1 \in Nat /\ Max(S) + 1 \notin S
  <2>1. ~(Max(S) + 1 <= Max(S))
    BY <1>5
  <2> QED  BY <1>5, <2>1
<1> QED  BY <1>6 DEF NextId, S

LEMMA CountersGrow ==
  ASSUME MissTypeOK, NEW field \in {"scans", "moves", "faults"}, NEW bound, Use(field, bound)
  PROVE  /\ missingUsed' \in [scans : Nat, moves : Nat, faults : Nat]
         /\ missingUsed'.scans \in Nat /\ missingUsed.scans \in Nat /\ missingUsed.scans <= missingUsed'.scans
         /\ field = "scans" => missingUsed'.scans = missingUsed.scans + 1
<1>1. missingUsed \in [scans : Nat, moves : Nat, faults : Nat]
  BY DEF MissTypeOK
<1>2. missingUsed' = [missingUsed EXCEPT ![field] = @ + 1]
  BY DEF Use
<1>3. missingUsed' \in [scans : Nat, moves : Nat, faults : Nat]
  BY <1>1, <1>2
<1>4. CASE field = "scans"
  BY <1>1, <1>2, <1>3, <1>4
<1>5. CASE field # "scans"
  BY <1>1, <1>2, <1>3, <1>5
<1> QED  BY <1>3, <1>4, <1>5

LEMMA FaultsGrow ==
  ASSUME MissTypeOK, Fault \/ UNCHANGED missingUsed
  PROVE  /\ missingUsed' \in [scans : Nat, moves : Nat, faults : Nat]
         /\ missingUsed'.scans \in Nat /\ missingUsed.scans \in Nat /\ missingUsed.scans <= missingUsed'.scans
<1>1. CASE Fault
  BY <1>1, CountersGrow DEF Fault
<1>2. CASE UNCHANGED missingUsed
  BY <1>2 DEF MissTypeOK
<1> QED  BY <1>1, <1>2

-----------------------------------------------------------------------------
\* Rows that keep their scene and their time, and their link if they have one.
Relabelled ==
  /\ rows' \in [DOMAIN rows -> RowType]
  /\ \A id \in DOMAIN rows : /\ rows'[id].scene = rows[id].scene /\ rows'[id].scanned = rows[id].scanned
                             /\ rows[id].rel # None => rows'[id].rel # None

LEMMA NewLabels ==
  ASSUME MissTypeOK, NEW ids,
         \/ rows' = rows
         \/ \E status \in Status : rows' = WithStatus(ids, status)
         \/ \E v \in Videos : rows' = Linked(ids, v)
  PROVE  Relabelled
<1>1. rows \in [DOMAIN rows -> RowType]
  BY DEF MissTypeOK
<1>2. CASE rows' = rows
  BY <1>1, <1>2 DEF Relabelled
<1>3. ASSUME NEW status \in Status, rows' = WithStatus(ids, status)  PROVE Relabelled
  <2>1. \A r \in RowType : LET q == [r EXCEPT !.status = status] IN
          q \in RowType /\ q.scene = r.scene /\ q.scanned = r.scanned /\ q.rel = r.rel
    BY DEF RowType
  <2>2. /\ DOMAIN rows' = DOMAIN rows /\ rows' = [id \in DOMAIN rows |-> rows'[id]]
        /\ \A id \in DOMAIN rows : rows'[id] \in {rows[id], [rows[id] EXCEPT !.status = status]}
    BY <1>3 DEF WithStatus
  <2> QED  BY <1>1, <2>1, <2>2 DEF Relabelled
<1>4. ASSUME NEW v \in Videos, rows' = Linked(ids, v)  PROVE Relabelled
  <2>1. \A r \in RowType : LET q == [r EXCEPT !.rel = v, !.status = ""] IN
          q \in RowType /\ q.scene = r.scene /\ q.scanned = r.scanned /\ q.rel = v
    BY DEF RowType, Names, Status
  <2>2. /\ DOMAIN rows' = DOMAIN rows /\ rows' = [id \in DOMAIN rows |-> rows'[id]]
        /\ \A id \in DOMAIN rows : rows'[id] \in {rows[id], [rows[id] EXCEPT !.rel = v, !.status = ""]}
    BY <1>4 DEF Linked
  <2>3. v # None
    BY MissingAssumption DEF None
  <2>4. \A id \in DOMAIN rows :
          /\ rows'[id] \in RowType /\ rows'[id].scene = rows[id].scene /\ rows'[id].scanned = rows[id].scanned
          /\ rows[id].rel # None => rows'[id].rel # None
    <3> TAKE id \in DOMAIN rows
    <3>1. rows[id] \in RowType
      BY <1>1
    <3>2. CASE rows'[id] = rows[id]
      BY <3>1, <3>2
    <3>3. CASE rows'[id] = [rows[id] EXCEPT !.rel = v, !.status = ""]
      BY <2>1, <2>3, <3>1, <3>3
    <3> QED  BY <2>2, <3>2, <3>3
  <2> QED  BY <2>2, <2>4 DEF Relabelled
<1> QED  BY <1>2, <1>3, <1>4

\* A step that leaves the scan alone and the rows their scenes.
LEMMA LabelsKeep ==
  ASSUME MissingInv, MissTypeOK', RunsHaveScenes', Relabelled, scan' = scan,
         missingUsed.scans <= missingUsed'.scans
  PROVE  MissingInv'
<1>1. /\ DOMAIN rows' = DOMAIN rows /\ missingUsed.scans \in Nat /\ missingUsed'.scans \in Nat
      /\ scan.k \in Nat /\ \A id \in DOMAIN rows : rows[id].scanned \in Nat
  BY DEF MissingInv, MissTypeOK, Relabelled, ScanType, RowType
<1>2. Stamps'
  BY <1>1 DEF MissingInv, Stamps, Relabelled
<1>3. OnceListed' /\ WrittenWereSeen' /\ NothingSeenYet' /\ OldWerePruned'
  BY <1>1 DEF MissingInv, OnceListed, WrittenWereSeen, NothingSeenYet, OldWerePruned, Relabelled
<1>4. SeenWereWritten'
  BY <1>1 DEF MissingInv, SeenWereWritten, Relabelled
<1> QED  BY <1>2, <1>3, <1>4 DEF MissingInv

\* The same, for a step that leaves the rows and changes types alone.
LEMMA RowsAlone ==
  ASSUME MissTypeOK, rows' = rows
  PROVE  Relabelled
BY NewLabels

LEMMA WorldMoves ==
  ASSUME MissingInv, NEW v \in Videos, FileMoves(v)
  PROVE  MissingInv'
<1>1. MissTypeOK /\ RunsHaveScenes
  BY DEF MissingInv
<1>2. UNCHANGED <<rows, library, scan, retrieve, apply>> /\ Use("moves", MaxMoves)
      /\ media' \in [stash : SUBSET Videos, disk : SUBSET Videos]
  BY <1>1 DEF FileMoves, MissTypeOK
<1>3. missingUsed' \in [scans : Nat, moves : Nat, faults : Nat] /\ missingUsed.scans <= missingUsed'.scans
  BY <1>1, <1>2, CountersGrow
<1>4. MissTypeOK' /\ RunsHaveScenes'
  BY <1>1, <1>2, <1>3 DEF MissTypeOK, RunsHaveScenes
<1> QED  BY <1>1, <1>2, <1>3, <1>4, RowsAlone, LabelsKeep

-----------------------------------------------------------------------------
\* Retrieval and application.
\* The rest of a step of a retrieval, or of an application.
Libraries == [known : SUBSET Videos, monitored : SUBSET Videos, wanted : SUBSET Videos]
Counters == [scans : Nat, moves : Nat, faults : Nat]
CountersOk == missingUsed' \in Counters /\ missingUsed.scans <= missingUsed'.scans
RetrieveOk == /\ retrieve' \in RunType /\ (retrieve'.pc \in {"scrape", "link"} => retrieve'.scene \in Videos)
              /\ library' \in Libraries /\ Relabelled /\ UNCHANGED <<media, scan, apply>>
ApplyOk == /\ apply' \in RunType /\ (apply'.pc \in {"monitor", "search"} => apply'.scene \in Videos)
           /\ library' \in Libraries /\ UNCHANGED <<media, rows, scan, retrieve>>

LEMMA CountersAre ==
  ASSUME MissTypeOK, \/ Fault \/ UNCHANGED missingUsed
                     \/ Use("scans", MaxScans) \/ Use("moves", MaxMoves)
  PROVE  CountersOk
<1>1. CASE Fault \/ UNCHANGED missingUsed
  BY <1>1, FaultsGrow DEF CountersOk, Counters
<1>2. CASE Use("scans", MaxScans) \/ Use("moves", MaxMoves)
  BY <1>2, CountersGrow DEF CountersOk, Counters
<1> QED  BY <1>1, <1>2

LEMMA RetrieveKeeps ==
  ASSUME MissingInv,
         \/ \E ids \in Selections : StartRetrieve(ids)
         \/ (\E id \in retrieve.todo : RetrieveNext(id)) \/ Scrape \/ LinkRetrieved \/ RetrieveEnds
  PROVE  MissingInv'
<1>1. MissTypeOK /\ RunsHaveScenes /\ retrieve \in RunType /\ rows \in [DOMAIN rows -> RowType]
      /\ DOMAIN rows \subseteq Nat /\ library \in Libraries
  BY DEF MissingInv, MissTypeOK, Libraries
<1>2. NoRun \in RunType /\ NoRun.pc = "off"
  BY DEF NoRun, RunType, RetrieveSteps, Names, Modes, None
<1>3. ASSUME NEW ids \in Selections, StartRetrieve(ids)  PROVE RetrieveOk /\ CountersOk
  <2>1. ids \subseteq Nat
    BY <1>1 DEF Selections
  <2>2. retrieve' \in RunType /\ retrieve'.pc = "next"
    BY <1>2, <1>3, <2>1 DEF StartRetrieve, RunType, RetrieveSteps
  <2>3. Relabelled
    BY <1>1, <1>3, RowsAlone DEF StartRetrieve
  <2>4. Use("scans", MaxScans) /\ UNCHANGED <<media, library, scan, apply>>
    BY <1>3 DEF StartRetrieve
  <2> QED  BY <1>1, <2>2, <2>3, <2>4, CountersAre DEF RetrieveOk
<1>4. ASSUME NEW id \in retrieve.todo, RetrieveNext(id)  PROVE RetrieveOk /\ CountersOk
  <2> DEFINE todo == retrieve.todo \ {id}
  <2>1. UNCHANGED <<media, library, scan, apply, missingUsed>>
    BY <1>4 DEF RetrieveNext
  <2>2. /\ \/ rows' = rows
           \/ \E status \in Status : rows' = WithStatus({id}, status)
        /\ \/ retrieve' = [retrieve EXCEPT !.todo = todo]
           \/ /\ id \in DOMAIN rows
              /\ retrieve' = [retrieve EXCEPT !.todo = todo, !.pc = "scrape", !.id = id, !.scene = rows[id].scene]
    BY <1>4 DEF RetrieveNext, Status
  <2>3. Relabelled
    BY <1>1, <2>2, NewLabels
  <2>4. todo \in SUBSET Nat /\ id \in Nat
    BY <1>1 DEF RunType
  <2> HIDE DEF todo
  <2>5. CASE retrieve' = [retrieve EXCEPT !.todo = todo]
    <3>1. retrieve' \in RunType /\ retrieve'.pc = retrieve.pc /\ retrieve'.scene = retrieve.scene
      BY <1>1, <2>4, <2>5 DEF RunType
    <3> QED  BY <1>1, <2>1, <2>3, <3>1, CountersAre DEF RunsHaveScenes, RetrieveOk
  <2>6. CASE /\ id \in DOMAIN rows
             /\ retrieve' = [retrieve EXCEPT !.todo = todo, !.pc = "scrape", !.id = id, !.scene = rows[id].scene]
    <3>1. rows[id].scene \in Videos
      BY <1>1, <2>6 DEF RowType
    <3>2. retrieve' \in RunType /\ retrieve'.scene = rows[id].scene
      BY <1>1, <2>4, <2>6, <3>1 DEF RunType, RetrieveSteps, Names
    <3> QED  BY <1>1, <2>1, <2>3, <3>1, <3>2, CountersAre DEF RetrieveOk
  <2> QED  BY <2>2, <2>5, <2>6
<1>5. ASSUME Scrape  PROVE RetrieveOk /\ CountersOk
  <2>1. retrieve.scene \in Videos /\ UNCHANGED <<media, scan, apply>> /\ (Fault \/ UNCHANGED missingUsed)
    BY <1>1, <1>5 DEF Scrape, RunsHaveScenes
  <2>2. \/ /\ library' = [library EXCEPT !.known = @ \cup {retrieve.scene}]
           /\ retrieve' = [retrieve EXCEPT !.pc = "link"] /\ rows' = rows
        \/ /\ rows' = WithStatus({retrieve.id}, "retrieve_failed") /\ library' = library
           /\ retrieve' = [retrieve EXCEPT !.pc = "next", !.id = 0, !.scene = None]
    BY <1>5 DEF Scrape
  <2>3. Relabelled
    BY <1>1, <2>2, NewLabels DEF Status
  <2>4. retrieve' \in RunType /\ (retrieve'.pc \in {"scrape", "link"} => retrieve'.scene \in Videos)
    <3>1. CASE retrieve' = [retrieve EXCEPT !.pc = "link"]
      BY <1>1, <2>1, <3>1 DEF RunType, RetrieveSteps
    <3>2. CASE retrieve' = [retrieve EXCEPT !.pc = "next", !.id = 0, !.scene = None]
      BY <1>1, <3>2 DEF RunType, RetrieveSteps, Names
    <3> QED  BY <2>2, <3>1, <3>2
  <2>5. library' \in Libraries
    BY <1>1, <2>1, <2>2 DEF Libraries
  <2> QED  BY <1>1, <2>1, <2>3, <2>4, <2>5, CountersAre DEF RetrieveOk
<1>6. ASSUME LinkRetrieved  PROVE RetrieveOk /\ CountersOk
  <2>1. retrieve.scene \in Videos /\ UNCHANGED <<media, library, scan, apply>> /\ (Fault \/ UNCHANGED missingUsed)
        /\ retrieve' = [retrieve EXCEPT !.pc = "next", !.id = 0, !.scene = None]
    BY <1>1, <1>6 DEF LinkRetrieved, RunsHaveScenes
  <2>2. \/ rows' = Linked({retrieve.id}, retrieve.scene)
        \/ rows' = WithStatus({retrieve.id}, "retrieve_failed")
        \/ rows' = rows
    BY <1>6 DEF LinkRetrieved
  <2>3. Relabelled
    BY <1>1, <2>1, <2>2, NewLabels DEF Status
  <2>4. retrieve' \in RunType /\ retrieve'.pc = "next"
    BY <1>1, <2>1 DEF RunType, RetrieveSteps, Names
  <2> QED  BY <1>1, <2>1, <2>3, <2>4, CountersAre DEF RetrieveOk
<1>7. ASSUME RetrieveEnds  PROVE RetrieveOk /\ CountersOk
  <2>1. retrieve' = NoRun /\ UNCHANGED <<media, rows, library, scan, apply, missingUsed>>
    BY <1>7 DEF RetrieveEnds
  <2>2. Relabelled
    BY <1>1, <2>1, RowsAlone
  <2> QED  BY <1>1, <1>2, <2>1, <2>2, CountersAre DEF RetrieveOk
<1>8. RetrieveOk /\ CountersOk
  BY <1>3, <1>4, <1>5, <1>6, <1>7
<1>9. MissTypeOK' /\ RunsHaveScenes'
  <2>1. DOMAIN rows' = DOMAIN rows /\ rows' \in [DOMAIN rows' -> RowType]
    BY <1>8 DEF Relabelled, RetrieveOk
  <2> QED  BY <1>1, <1>8, <2>1
              DEF MissTypeOK, RunsHaveScenes, RetrieveOk, CountersOk, Libraries, Counters
<1> QED  BY <1>8, <1>9, LabelsKeep DEF RetrieveOk, CountersOk

LEMMA ApplyKeeps ==
  ASSUME MissingInv,
         \/ \E ids \in Selections : \E mode \in {"monitor_only", "monitor_download"} : StartApply(ids, mode)
         \/ (\E id \in apply.todo : ApplyNext(id)) \/ Monitor \/ SearchAndDownload \/ ApplyEnds
  PROVE  MissingInv'
<1>1. MissTypeOK /\ RunsHaveScenes /\ apply \in RunType /\ rows \in [DOMAIN rows -> RowType]
      /\ DOMAIN rows \subseteq Nat /\ library \in Libraries
  BY DEF MissingInv, MissTypeOK, Libraries
<1>2. NoRun \in RunType /\ NoRun.pc = "off"
  BY DEF NoRun, RunType, RetrieveSteps, Names, Modes, None
<1>3. ASSUME NEW ids \in Selections, NEW mode \in {"monitor_only", "monitor_download"}, StartApply(ids, mode)  PROVE ApplyOk /\ CountersOk
  <2>1. ids \subseteq Nat
    BY <1>1 DEF Selections
  <2>2. apply' \in RunType /\ apply'.pc = "next"
    BY <1>2, <1>3, <2>1 DEF StartApply, RunType, RetrieveSteps, Modes
  <2>3. Use("scans", MaxScans) /\ UNCHANGED <<media, rows, library, scan, retrieve>>
    BY <1>3 DEF StartApply
  <2> QED  BY <1>1, <2>2, <2>3, CountersAre DEF ApplyOk
<1>4. ASSUME NEW id \in apply.todo, ApplyNext(id)  PROVE ApplyOk /\ CountersOk
  <2>1. UNCHANGED <<media, rows, library, scan, retrieve, missingUsed>> /\ apply.pc = "next"
    BY <1>4 DEF ApplyNext
  <2>2. CASE apply' = [apply EXCEPT !.todo = @ \ {id}]
    <3>1. apply' \in RunType /\ apply'.pc = "next"
      BY <1>1, <2>1, <2>2 DEF RunType
    <3> QED  BY <1>1, <2>1, <3>1, CountersAre DEF ApplyOk
  <2>3. CASE /\ id \in DOMAIN rows /\ rows[id].rel # None
             /\ apply' = [apply EXCEPT !.todo = @ \ {id}, !.pc = "monitor", !.scene = rows[id].rel]
    <3>1. rows[id].rel \in Videos
      BY <1>1, <2>3 DEF RowType, Names
    <3>2. apply' \in RunType /\ apply'.scene = rows[id].rel
      BY <1>1, <2>3, <3>1 DEF RunType, RetrieveSteps, Names
    <3> QED  BY <1>1, <2>1, <3>1, <3>2, CountersAre DEF ApplyOk
  <2> QED  BY <1>4, <2>2, <2>3 DEF ApplyNext
<1>5. ASSUME Monitor  PROVE ApplyOk /\ CountersOk
  <2>1. apply.scene \in Videos /\ UNCHANGED <<media, rows, scan, retrieve>> /\ (Fault \/ UNCHANGED missingUsed)
    BY <1>1, <1>5 DEF Monitor, RunsHaveScenes
  <2>2. apply' = [apply EXCEPT !.pc = "search"] \/ apply' = [apply EXCEPT !.pc = "next", !.scene = None]
    BY <1>5 DEF Monitor
  <2>3. library' = [library EXCEPT !.monitored = @ \cup {apply.scene}] \/ library' = library
    BY <1>5 DEF Monitor
  <2>4. apply' \in RunType /\ (apply'.pc \in {"monitor", "search"} => apply'.scene \in Videos)
    BY <1>1, <2>1, <2>2 DEF RunType, RetrieveSteps, Names
  <2>5. library' \in Libraries
    BY <1>1, <2>1, <2>3 DEF Libraries
  <2> QED  BY <1>1, <2>1, <2>4, <2>5, CountersAre DEF ApplyOk
<1>6. ASSUME SearchAndDownload  PROVE ApplyOk /\ CountersOk
  <2>1. apply.scene \in Videos /\ UNCHANGED <<media, rows, scan, retrieve, missingUsed>>
        /\ apply' = [apply EXCEPT !.pc = "next", !.scene = None]
        /\ library' \in {library, [library EXCEPT !.wanted = @ \cup {apply.scene}]}
    BY <1>1, <1>6 DEF SearchAndDownload, RunsHaveScenes
  <2>2. apply' \in RunType /\ apply'.pc = "next"
    BY <1>1, <2>1 DEF RunType, RetrieveSteps, Names
  <2>3. library' \in Libraries
    BY <1>1, <2>1 DEF Libraries
  <2> QED  BY <1>1, <2>1, <2>2, <2>3, CountersAre DEF ApplyOk
<1>7. ASSUME ApplyEnds  PROVE ApplyOk /\ CountersOk
  <2>1. apply' = NoRun /\ UNCHANGED <<media, rows, library, scan, retrieve, missingUsed>>
    BY <1>7 DEF ApplyEnds
  <2> QED  BY <1>1, <1>2, <2>1, CountersAre DEF ApplyOk
<1>8. ApplyOk /\ CountersOk
  BY <1>3, <1>4, <1>5, <1>6, <1>7
<1>9. MissTypeOK' /\ RunsHaveScenes'
  BY <1>1, <1>8 DEF MissTypeOK, RunsHaveScenes, ApplyOk, CountersOk, Libraries, Counters
<1>10. Relabelled
  BY <1>1, <1>8, RowsAlone DEF ApplyOk
<1> QED  BY <1>8, <1>9, <1>10, LabelsKeep DEF ApplyOk, CountersOk

-----------------------------------------------------------------------------
\* The scan. What it knows when it starts, and when it is not running.
LEMMA ScanIsOff ==
  ASSUME MissingInv, scan' = NoScan, MissTypeOK', RunsHaveScenes', UNCHANGED rows,
         missingUsed.scans <= missingUsed'.scans
  PROVE  MissingInv'
<1>1. scan'.pc = "off" /\ scan'.k = 0
  BY DEF NoScan
<1>2. /\ missingUsed.scans \in Nat /\ missingUsed'.scans \in Nat
      /\ \A id \in DOMAIN rows : rows[id].scanned \in Nat
  BY DEF MissingInv, MissTypeOK, RowType
<1>3. Stamps'
  BY <1>1, <1>2 DEF MissingInv, Stamps
<1>4. OnceListed' /\ WrittenWereSeen' /\ NothingSeenYet' /\ SeenWereWritten' /\ OldWerePruned'
  BY <1>1
     DEF MissingInv, OnceListed, WrittenWereSeen, NothingSeenYet, SeenWereWritten, OldWerePruned
<1> QED  BY <1>3, <1>4 DEF MissingInv

LEMMA NoScanType == NoScan \in ScanType
BY DEF NoScan, ScanType, ScanSteps

LEMMA ScanStartKeeps ==
  ASSUME MissingInv, StartMissingScan
  PROVE  MissingInv'
<1>1. MissTypeOK /\ RunsHaveScenes
  BY DEF MissingInv
<1>2. UNCHANGED <<media, rows, library, retrieve, apply>> /\ Use("scans", MaxScans)
      /\ scan' = [NoScan EXCEPT !.running = TRUE, !.pc = "fetch", !.k = missingUsed.scans + 1]
  BY DEF StartMissingScan
<1>3. /\ missingUsed' \in [scans : Nat, moves : Nat, faults : Nat] /\ missingUsed.scans \in Nat
      /\ missingUsed'.scans = missingUsed.scans + 1
  BY <1>1, <1>2, CountersGrow
<1>4. scan' \in ScanType /\ scan'.pc = "fetch" /\ scan'.k = missingUsed.scans + 1 /\ scan'.seen = {}
  BY <1>2, <1>3 DEF NoScan, ScanType, ScanSteps
<1>5. MissTypeOK' /\ RunsHaveScenes'
  BY <1>1, <1>2, <1>3, <1>4 DEF MissTypeOK, RunsHaveScenes
<1>6. \A id \in DOMAIN rows : rows[id].scanned \in Nat /\ rows[id].scanned <= missingUsed.scans
  BY DEF MissingInv, MissTypeOK, RowType, Stamps
<1>7. \A x, y \in Nat : x <= y => x <= y + 1 /\ ~(x >= y + 1) /\ y + 1 <= y + 1
  OBVIOUS
<1>8. Stamps'
  BY <1>2, <1>3, <1>4, <1>6, <1>7 DEF Stamps
<1>9. WrittenWereSeen'
  BY <1>2, <1>3, <1>4, <1>6, <1>7 DEF WrittenWereSeen
<1>10. OnceListed' /\ NothingSeenYet' /\ SeenWereWritten' /\ OldWerePruned'
  BY <1>2, <1>4 DEF MissingInv, OnceListed, NothingSeenYet, SeenWereWritten, OldWerePruned
<1> QED  BY <1>5, <1>8, <1>9, <1>10 DEF MissingInv

\* The steps that only pass over scenes, or read.
LEMMA ReadKeeps ==
  ASSUME MissingInv, FetchCandidates \/ ReleasesByCanonicalVideoID \/ \E v \in Videos : FileExists(v)
  PROVE  MissingInv'
<1>1. MissTypeOK /\ RunsHaveScenes /\ scan \in ScanType
  BY DEF MissingInv, MissTypeOK
<1>2. UNCHANGED <<media, rows, library, retrieve, apply, missingUsed>>
  BY DEF FetchCandidates, ReleasesByCanonicalVideoID, FileExists
<1>3. \/ scan.pc = "fetch" /\ scan' = [scan EXCEPT !.pc = "releases", !.todo = media.stash]
      \/ scan.pc = "releases" /\ scan' = [scan EXCEPT !.pc = "check", !.known = library.known]
      \/ scan.pc = "check" /\ \E v \in Videos : scan' = [scan EXCEPT !.todo = @ \ {v}]
  BY DEF FetchCandidates, ReleasesByCanonicalVideoID, FileExists
<1>4. media.stash \in SUBSET Videos /\ library.known \in SUBSET Videos
  BY <1>1 DEF MissTypeOK
<1>5. /\ scan' \in ScanType /\ scan'.k = scan.k /\ scan'.seen = scan.seen /\ scan'.written = scan.written
      /\ scan'.pc \in {"releases", "check"} /\ scan.pc \in {"fetch", "releases", "check"}
      /\ scan'.known = scan.known \/ scan.pc = "releases"
      /\ scan'.pc = "releases" => scan.pc = "fetch"
  <2>1. CASE scan.pc = "fetch" /\ scan' = [scan EXCEPT !.pc = "releases", !.todo = media.stash]
    BY <1>1, <1>4, <2>1 DEF ScanType, ScanSteps
  <2>2. CASE scan.pc = "releases" /\ scan' = [scan EXCEPT !.pc = "check", !.known = library.known]
    BY <1>1, <1>4, <2>2 DEF ScanType, ScanSteps
  <2>3. CASE scan.pc = "check" /\ \E v \in Videos : scan' = [scan EXCEPT !.todo = @ \ {v}]
    BY <1>1, <2>3 DEF ScanType, ScanSteps
  <2> QED  BY <1>3, <2>1, <2>2, <2>3
<1>6. MissTypeOK' /\ RunsHaveScenes'
  BY <1>1, <1>2, <1>5 DEF MissTypeOK, RunsHaveScenes
<1>7. Stamps' /\ OnceListed' /\ WrittenWereSeen' /\ OldWerePruned'
  BY <1>2, <1>5 DEF MissingInv, Stamps, OnceListed, WrittenWereSeen, OldWerePruned
<1>8. NothingSeenYet'
  BY <1>5 DEF MissingInv, NothingSeenYet
<1>9. SeenWereWritten'
  <2>1. CASE scan.pc \in {"fetch", "releases"}
    BY <1>5, <2>1 DEF MissingInv, NothingSeenYet, SeenWereWritten
  <2>2. CASE scan.pc = "check"
    <3>1. scan.pc \notin Videos
      BY <2>2, MissingAssumption
    <3> QED  BY <1>2, <1>5, <2>2, <3>1 DEF MissingInv, SeenWereWritten
  <2> QED  BY <1>5, <2>1, <2>2
<1> QED  BY <1>6, <1>7, <1>8, <1>9 DEF MissingInv

\* What an upsert does to the rows.
LEMMA UpsertRows ==
  ASSUME MissTypeOK, OnceListed, NEW v \in Videos, NEW k \in Nat, rows' = UpsertedRow(v, k)
  PROVE  /\ rows' \in [DOMAIN rows' -> RowType] /\ DOMAIN rows' \subseteq Nat /\ IsFiniteSet(DOMAIN rows')
         /\ DOMAIN rows \subseteq DOMAIN rows'
         /\ \A id \in DOMAIN rows' :
              \/ rows'[id].scene = v /\ rows'[id].scanned = k
              \/ id \in DOMAIN rows /\ rows'[id] = rows[id] /\ rows[id].scene # v
         /\ \E id \in DOMAIN rows' : rows'[id].scene = v /\ rows'[id].scanned = k
         /\ \A i, j \in DOMAIN rows' : rows'[i].scene = rows'[j].scene => i = j
         /\ \A id \in DOMAIN rows : rows'[id].scene = rows[id].scene /\ rows'[id].rel = rows[id].rel
<1>1. rows \in [DOMAIN rows -> RowType] /\ DOMAIN rows \subseteq Nat /\ IsFiniteSet(DOMAIN rows)
  BY DEF MissTypeOK
<1>2. CASE IdsOf(v) # {}
  <2>1. /\ DOMAIN rows' = DOMAIN rows /\ rows' = [id \in DOMAIN rows |-> rows'[id]]
        /\ \A id \in DOMAIN rows : rows'[id] = IF id \in IdsOf(v) THEN [rows[id] EXCEPT !.scanned = k] ELSE rows[id]
    BY <1>2 DEF UpsertedRow
  <2>2. \A r \in RowType : LET q == [r EXCEPT !.scanned = k] IN
          q \in RowType /\ q.scene = r.scene /\ q.scanned = k /\ q.rel = r.rel
    BY DEF RowType
  <2>3. \A id \in DOMAIN rows : /\ rows[id] \in RowType /\ rows'[id] \in RowType
                                /\ rows'[id].scene = rows[id].scene /\ rows'[id].rel = rows[id].rel
    BY <1>1, <2>1, <2>2
  <2>4. \A id \in DOMAIN rows : /\ id \in IdsOf(v) => rows'[id].scene = v /\ rows'[id].scanned = k
                                /\ id \notin IdsOf(v) => rows'[id] = rows[id] /\ rows[id].scene # v
    <3> TAKE id \in DOMAIN rows
    <3>1. CASE id \in IdsOf(v)
      <4>1. rows[id].scene = v /\ rows'[id] = [rows[id] EXCEPT !.scanned = k] /\ rows[id] \in RowType
        BY <1>1, <2>1, <3>1 DEF IdsOf
      <4> QED  BY <2>2, <3>1, <4>1
    <3>2. CASE id \notin IdsOf(v)
      BY <2>1, <3>2 DEF IdsOf
    <3> QED  BY <3>1, <3>2
  <2>5. \E id \in DOMAIN rows : id \in IdsOf(v)
    BY <1>2 DEF IdsOf
  <2>6. rows' \in [DOMAIN rows -> RowType]
    BY <2>1, <2>3
  <2>7. \A i, j \in DOMAIN rows' : rows'[i].scene = rows'[j].scene => i = j
    BY <2>1, <2>3 DEF OnceListed
  <2>8. \A id \in DOMAIN rows' :
              \/ rows'[id].scene = v /\ rows'[id].scanned = k
              \/ id \in DOMAIN rows /\ rows'[id] = rows[id] /\ rows[id].scene # v
    BY <2>1, <2>4
  <2>9. \E id \in DOMAIN rows' : rows'[id].scene = v /\ rows'[id].scanned = k
    BY <2>1, <2>4, <2>5
  <2> QED  BY <1>1, <2>1, <2>3, <2>6, <2>7, <2>8, <2>9
<1>3. CASE IdsOf(v) = {}
  <2> DEFINE n == NextId
  <2>1. n \in Nat /\ n \notin DOMAIN rows
    BY NextIdIsNew
  <2>2. rows' = [id \in DOMAIN rows \cup {n} |-> IF id = n THEN Row(v, k) ELSE rows[id]]
    BY <1>3 DEF UpsertedRow
  <2>3. Row(v, k) \in RowType /\ Row(v, k).scene = v /\ Row(v, k).scanned = k
    BY DEF Row, RowType, Names, Status, None
  <2>4. \A id \in DOMAIN rows : rows[id].scene # v
    BY <1>3 DEF IdsOf
  <2> HIDE DEF n
  <2>5. /\ DOMAIN rows' = DOMAIN rows \cup {n} /\ rows'[n] = Row(v, k)
        /\ \A id \in DOMAIN rows : rows'[id] = rows[id]
    BY <2>1, <2>2
  <2>6. rows' \in [DOMAIN rows' -> RowType]
    BY <1>1, <2>2, <2>3
  <2>7. IsFiniteSet(DOMAIN rows') /\ DOMAIN rows' \subseteq Nat
    BY <1>1, <2>1, <2>5, FS_AddElement
  <2>8. \A i, j \in DOMAIN rows' : rows'[i].scene = rows'[j].scene => i = j
    BY <2>3, <2>4, <2>5 DEF OnceListed
  <2>9. \A id \in DOMAIN rows' :
              \/ rows'[id].scene = v /\ rows'[id].scanned = k
              \/ id \in DOMAIN rows /\ rows'[id] = rows[id] /\ rows[id].scene # v
    BY <2>3, <2>4, <2>5
  <2> QED  BY <2>3, <2>5, <2>6, <2>7, <2>8, <2>9
<1> QED  BY <1>2, <1>3

LEMMA RecordKeeps ==
  ASSUME MissingInv, NEW v \in Videos, RecordMissing(v)
  PROVE  MissingInv'
<1>1. MissTypeOK /\ RunsHaveScenes /\ OnceListed /\ scan \in ScanType /\ scan.k \in Nat /\ scan.pc = "check"
      /\ scan.k <= missingUsed.scans /\ scan.pc \notin Videos
  BY MissingAssumption DEF MissingInv, MissTypeOK, ScanType, RecordMissing, Stamps
<1>2. /\ UNCHANGED <<media, library, retrieve, apply>> /\ (Fault \/ UNCHANGED missingUsed)
      /\ rows' = UpsertedRow(v, scan.k)
      /\ scan' = [scan EXCEPT !.seen = @ \cup {v}, !.todo = @ \ {v}, !.pc = IF v \in scan.known THEN v ELSE @]
  BY DEF RecordMissing
<1>3. /\ missingUsed' \in [scans : Nat, moves : Nat, faults : Nat]
      /\ missingUsed'.scans \in Nat /\ missingUsed.scans \in Nat /\ missingUsed.scans <= missingUsed'.scans
  BY <1>1, <1>2, FaultsGrow
<1>4. /\ scan' \in ScanType /\ scan'.k = scan.k /\ scan'.seen = scan.seen \cup {v}
      /\ scan'.written = scan.written /\ scan'.known = scan.known
      /\ scan'.pc = IF v \in scan.known THEN v ELSE "check"
  BY <1>1, <1>2 DEF ScanType
<1>5. /\ rows' \in [DOMAIN rows' -> RowType] /\ DOMAIN rows' \subseteq Nat /\ IsFiniteSet(DOMAIN rows')
      /\ DOMAIN rows \subseteq DOMAIN rows'
      /\ \A id \in DOMAIN rows' :
           \/ rows'[id].scene = v /\ rows'[id].scanned = scan.k
           \/ id \in DOMAIN rows /\ rows'[id] = rows[id] /\ rows[id].scene # v
      /\ \E id \in DOMAIN rows' : rows'[id].scene = v /\ rows'[id].scanned = scan.k
      /\ \A i, j \in DOMAIN rows' : rows'[i].scene = rows'[j].scene => i = j
      /\ \A id \in DOMAIN rows : rows'[id].scene = rows[id].scene /\ rows'[id].rel = rows[id].rel
  BY <1>1, <1>2, UpsertRows
<1>6. MissTypeOK' /\ RunsHaveScenes'
  BY <1>1, <1>2, <1>3, <1>4, <1>5 DEF MissTypeOK, RunsHaveScenes
<1>7. \A id \in DOMAIN rows : rows[id].scanned \in Nat /\ rows[id].scanned <= missingUsed.scans
  BY DEF MissingInv, MissTypeOK, RowType, Stamps
<1>8. Stamps'
  <2>1. scan.k <= missingUsed'.scans /\ \A id \in DOMAIN rows : rows[id].scanned <= missingUsed'.scans
    BY <1>1, <1>3, <1>7
  <2> QED  BY <1>4, <1>5, <2>1 DEF Stamps
<1>9. OnceListed'
  BY <1>5 DEF OnceListed
<1>10. WrittenWereSeen'
  BY <1>1, <1>4, <1>5 DEF MissingInv, WrittenWereSeen
<1>11. scan'.pc \notin {"off", "fetch", "releases", "over"} /\ NothingSeenYet' /\ OldWerePruned'
  <2>1. v \notin {"off", "fetch", "releases", "over"}
    BY MissingAssumption
  <2> QED  BY <1>4, <2>1 DEF NothingSeenYet, OldWerePruned
<1>12. SeenWereWritten'
  <2> SUFFICES ASSUME scan.written, NEW s \in scan.seen \cup {v}
               PROVE  \E id \in DOMAIN rows' : /\ rows'[id].scene = s /\ rows'[id].scanned >= scan.k
                                               /\ s \in scan.known /\ scan'.pc # s => rows'[id].rel # None
    BY <1>4 DEF SeenWereWritten
  <2>1. CASE s = v
    <3>1. scan.k >= scan.k
      BY <1>1
    <3> QED  BY <1>4, <1>5, <2>1, <3>1
  <2>2. CASE s # v
    <3>1. PICK id \in DOMAIN rows : /\ rows[id].scene = s /\ rows[id].scanned >= scan.k
                                    /\ s \in scan.known /\ scan.pc # s => rows[id].rel # None
      BY <1>1, <2>2 DEF MissingInv, SeenWereWritten
    <3>2. id \in DOMAIN rows' /\ rows'[id] = rows[id]
      BY <1>5, <2>2, <3>1
    <3>3. s \in scan.known => scan.pc # s
      BY <1>1 DEF ScanType
    <3> QED  BY <3>1, <3>2, <3>3
  <2> QED  BY <2>1, <2>2
<1> QED  BY <1>6, <1>8, <1>9, <1>10, <1>11, <1>12 DEF MissingInv

LEMMA RecordFailureKeeps ==
  ASSUME MissingInv, NEW v \in Videos, RecordFails(v)
  PROVE  MissingInv'
<1>1. MissTypeOK /\ RunsHaveScenes /\ scan \in ScanType /\ scan.pc = "check"
  BY DEF MissingInv, MissTypeOK, RecordFails
<1>2. /\ UNCHANGED <<media, rows, library, retrieve, apply>> /\ Fault
      /\ scan' = [scan EXCEPT !.seen = @ \cup {v}, !.todo = @ \ {v}, !.written = FALSE]
  BY DEF RecordFails
<1>3. /\ missingUsed' \in [scans : Nat, moves : Nat, faults : Nat]
      /\ missingUsed'.scans \in Nat /\ missingUsed.scans \in Nat /\ missingUsed.scans <= missingUsed'.scans
  BY <1>1, <1>2, FaultsGrow
<1>4. /\ scan' \in ScanType /\ scan'.k = scan.k /\ scan'.seen = scan.seen \cup {v}
      /\ scan'.written = FALSE /\ scan'.pc = "check"
  BY <1>1, <1>2 DEF ScanType
<1>5. MissTypeOK' /\ RunsHaveScenes'
  BY <1>1, <1>2, <1>3, <1>4 DEF MissTypeOK, RunsHaveScenes
<1>6. scan.k \in Nat /\ \A id \in DOMAIN rows : rows[id].scanned \in Nat
  BY <1>1 DEF MissTypeOK, ScanType, RowType
<1>7. Stamps'
  BY <1>2, <1>3, <1>4, <1>6 DEF MissingInv, Stamps
<1>8. OnceListed' /\ WrittenWereSeen' /\ NothingSeenYet' /\ SeenWereWritten' /\ OldWerePruned'
  BY <1>1, <1>2, <1>4
     DEF MissingInv, OnceListed, WrittenWereSeen, NothingSeenYet, SeenWereWritten, OldWerePruned
<1> QED  BY <1>5, <1>7, <1>8 DEF MissingInv

LEMMA LinkKeeps ==
  ASSUME MissingInv, LinkMatch
  PROVE  MissingInv'
<1> DEFINE v == scan.pc
<1>1. MissTypeOK /\ RunsHaveScenes /\ scan \in ScanType /\ v \in Videos
      /\ scan.pc \notin {"off", "fetch", "releases", "check", "over"}
  BY MissingAssumption DEF MissingInv, MissTypeOK, LinkMatch
<1>2. /\ UNCHANGED <<media, library, retrieve, apply>> /\ (Fault \/ UNCHANGED missingUsed)
      /\ \/ rows' = Linked(IdsOf(v), v) /\ scan' = [scan EXCEPT !.pc = "check"]
         \/ rows' = rows /\ scan' = [scan EXCEPT !.pc = "check", !.written = FALSE]
  BY DEF LinkMatch
<1>3. /\ missingUsed' \in [scans : Nat, moves : Nat, faults : Nat]
      /\ missingUsed'.scans \in Nat /\ missingUsed.scans \in Nat /\ missingUsed.scans <= missingUsed'.scans
  BY <1>1, <1>2, FaultsGrow
<1>4. /\ scan' \in ScanType /\ scan'.k = scan.k /\ scan'.seen = scan.seen /\ scan'.known = scan.known
      /\ scan'.pc = "check" /\ (scan'.written => scan.written /\ rows' = Linked(IdsOf(v), v))
  BY <1>1, <1>2 DEF ScanType, ScanSteps
<1> HIDE DEF v
<1>5. Relabelled
  BY <1>1, <1>2, NewLabels
<1>6. DOMAIN rows' = DOMAIN rows /\ rows' \in [DOMAIN rows' -> RowType]
  BY <1>5 DEF Relabelled
<1>7. MissTypeOK' /\ RunsHaveScenes'
  BY <1>1, <1>2, <1>3, <1>4, <1>6 DEF MissTypeOK, RunsHaveScenes
<1>8. scan.k \in Nat /\ \A id \in DOMAIN rows : rows[id].scanned \in Nat
  BY <1>1 DEF MissTypeOK, ScanType, RowType
<1>9. Stamps'
  BY <1>3, <1>4, <1>5, <1>6, <1>8 DEF MissingInv, Stamps, Relabelled
<1>10. OnceListed' /\ WrittenWereSeen' /\ NothingSeenYet' /\ OldWerePruned'
  BY <1>1, <1>4, <1>5, <1>6
     DEF MissingInv, OnceListed, WrittenWereSeen, NothingSeenYet, OldWerePruned, Relabelled
<1>11. SeenWereWritten'
  <2> SUFFICES ASSUME scan'.written, NEW s \in scan.seen
               PROVE  \E id \in DOMAIN rows' : /\ rows'[id].scene = s /\ rows'[id].scanned >= scan.k
                                               /\ s \in scan.known => rows'[id].rel # None
    BY <1>4 DEF SeenWereWritten
  <2>1. PICK id \in DOMAIN rows : /\ rows[id].scene = s /\ rows[id].scanned >= scan.k
                                  /\ s \in scan.known /\ scan.pc # s => rows[id].rel # None
    BY <1>1, <1>4 DEF MissingInv, SeenWereWritten
  <2>2. CASE s # scan.pc
    BY <1>5, <1>6, <2>1, <2>2 DEF Relabelled
  <2>3. CASE s = scan.pc
    <3>1. id \in IdsOf(v) /\ v # None
      BY <1>1, <2>1, <2>3, MissingAssumption DEF IdsOf, v, None
    <3>2. rows'[id] = [rows[id] EXCEPT !.rel = v, !.status = ""]
      BY <1>4, <3>1 DEF Linked
    <3>3. rows[id] \in RowType
      BY <1>1 DEF MissTypeOK
    <3>4. rows'[id].rel = v
      BY <3>2, <3>3 DEF RowType
    <3> QED  BY <1>5, <1>6, <2>1, <3>1, <3>4 DEF Relabelled
  <2> QED  BY <2>2, <2>3
<1> QED  BY <1>7, <1>9, <1>10, <1>11 DEF MissingInv

LEMMA PruneKeeps ==
  ASSUME MissingInv, Prune
  PROVE  MissingInv'
<1> DEFINE kept == {id \in DOMAIN rows : rows[id].scanned >= scan.k}
<1>1. MissTypeOK /\ RunsHaveScenes /\ scan \in ScanType /\ scan.pc = "check" /\ scan.pc \notin Videos
  BY MissingAssumption DEF MissingInv, MissTypeOK, Prune
<1>2. /\ UNCHANGED <<media, library, retrieve, apply, missingUsed>>
      /\ rows' = [id \in kept |-> rows[id]] /\ scan' = [scan EXCEPT !.pc = "over"]
  BY DEF Prune
<1>3. kept \subseteq DOMAIN rows /\ \A id \in kept : rows[id].scanned >= scan.k
  OBVIOUS
<1>4. \A id \in DOMAIN rows : rows[id].scanned >= scan.k => id \in kept
  OBVIOUS
<1> HIDE DEF kept
<1>5. DOMAIN rows' = kept /\ \A id \in kept : rows'[id] = rows[id]
  BY <1>2
<1>6. rows' \in [DOMAIN rows' -> RowType] /\ DOMAIN rows' \subseteq Nat
  BY <1>1, <1>2, <1>3, <1>5 DEF MissTypeOK
<1>7. IsFiniteSet(DOMAIN rows')
  BY <1>1, <1>3, <1>5, FS_Subset DEF MissTypeOK
<1>8. /\ scan' \in ScanType /\ scan'.k = scan.k /\ scan'.seen = scan.seen /\ scan'.known = scan.known
      /\ scan'.pc = "over" /\ scan'.written = scan.written
  BY <1>1, <1>2 DEF ScanType, ScanSteps
<1>9. MissTypeOK' /\ RunsHaveScenes'
  BY <1>1, <1>2, <1>6, <1>7, <1>8 DEF MissTypeOK, RunsHaveScenes
<1>10. Stamps' /\ OnceListed' /\ NothingSeenYet'
  BY <1>2, <1>3, <1>5, <1>8 DEF MissingInv, Stamps, OnceListed, NothingSeenYet
<1>11. WrittenWereSeen' /\ OldWerePruned'
  BY <1>1, <1>3, <1>5, <1>8 DEF MissingInv, WrittenWereSeen, OldWerePruned
<1>12. SeenWereWritten'
  <2>1. \A s \in scan.seen : scan.pc # s
    BY <1>1 DEF ScanType
  <2> QED  BY <1>1, <1>4, <1>5, <1>8, <2>1 DEF MissingInv, SeenWereWritten
<1> QED  BY <1>9, <1>10, <1>11, <1>12 DEF MissingInv

LEMMA EndsKeep ==
  ASSUME MissingInv, ScanFails \/ ScanEnds \/ MissingRestart
  PROVE  MissingInv'
<1>1. MissTypeOK /\ RunsHaveScenes
  BY DEF MissingInv
<1>2. /\ UNCHANGED <<media, rows, library>> /\ (Fault \/ UNCHANGED missingUsed) /\ scan' = NoScan
      /\ retrieve' \in {retrieve, NoRun} /\ apply' \in {apply, NoRun}
  BY DEF ScanFails, ScanEnds, MissingRestart
<1>3. missingUsed' \in [scans : Nat, moves : Nat, faults : Nat] /\ missingUsed.scans <= missingUsed'.scans
  BY <1>1, <1>2, FaultsGrow
<1>4. NoRun \in RunType /\ NoRun.pc = "off"
  BY DEF NoRun, RunType, RetrieveSteps, Names, Modes, None
<1>5. retrieve' \in RunType /\ apply' \in RunType /\ RunsHaveScenes'
  BY <1>1, <1>2, <1>4 DEF RunsHaveScenes, MissTypeOK
<1>6. MissTypeOK'
  BY <1>1, <1>2, <1>3, <1>5, NoScanType DEF MissTypeOK
<1> QED  BY <1>2, <1>3, <1>5, <1>6, ScanIsOff

LEMMA ClearKeeps ==
  ASSUME MissingInv, ClearChecks \/ ClearDeletes
  PROVE  MissingInv'
<1>1. MissTypeOK /\ RunsHaveScenes /\ scan \in ScanType
  BY DEF MissingInv, MissTypeOK
<1>2. CASE ClearChecks
  <2>1. UNCHANGED <<media, rows, library, scan, retrieve, apply>> /\ Use("scans", MaxScans)
    BY <1>2 DEF ClearChecks
  <2>2. missingUsed' \in [scans : Nat, moves : Nat, faults : Nat] /\ missingUsed.scans <= missingUsed'.scans
    BY <1>1, <2>1, CountersGrow
  <2>3. MissTypeOK' /\ RunsHaveScenes'
    BY <1>1, <2>1, <2>2 DEF MissTypeOK, RunsHaveScenes
  <2> QED  BY <1>1, <2>1, <2>2, <2>3, RowsAlone, LabelsKeep
<1>3. CASE ClearDeletes
  <2>1. UNCHANGED <<media, library, retrieve, apply, missingUsed>> /\ rows' = <<>>
        /\ scan' = [scan EXCEPT !.written = FALSE]
    BY <1>3 DEF ClearDeletes
  <2>2. DOMAIN rows' = {} /\ rows' \in [{} -> RowType]
    BY <2>1
  <2>3. /\ scan' \in ScanType /\ scan'.k = scan.k /\ scan'.seen = scan.seen /\ scan'.pc = scan.pc
        /\ scan'.written = FALSE
    BY <1>1, <2>1 DEF ScanType
  <2>4. MissTypeOK' /\ RunsHaveScenes'
    BY <1>1, <2>1, <2>2, <2>3, FS_EmptySet DEF MissTypeOK, RunsHaveScenes
  <2>5. Stamps' /\ OnceListed' /\ WrittenWereSeen' /\ NothingSeenYet' /\ SeenWereWritten' /\ OldWerePruned'
    BY <2>1, <2>2, <2>3
       DEF MissingInv, Stamps, OnceListed, WrittenWereSeen, NothingSeenYet, SeenWereWritten, OldWerePruned
  <2> QED  BY <2>4, <2>5 DEF MissingInv
<1> QED  BY <1>2, <1>3

LEMMA MissingStart ==
  ASSUME MissingInit
  PROVE  MissingInv
<1>1. rows = <<>> /\ scan = NoScan /\ retrieve = NoRun /\ apply = NoRun
      /\ missingUsed = [scans |-> 0, moves |-> 0, faults |-> 0]
  BY DEF MissingInit
<1>2. DOMAIN rows = {} /\ rows \in [{} -> RowType]
  BY <1>1
<1>3. NoRun \in RunType /\ NoRun.pc = "off"
  BY DEF NoRun, RunType, RetrieveSteps, Names, Modes, None
<1>4. media \in [stash : SUBSET Videos, disk : SUBSET Videos]
      /\ library \in [known : SUBSET Videos, monitored : SUBSET Videos, wanted : SUBSET Videos]
  BY DEF MissingInit
<1>5. MissTypeOK /\ RunsHaveScenes
  BY <1>1, <1>2, <1>3, <1>4, NoScanType, FS_EmptySet DEF MissTypeOK, RunsHaveScenes
<1>6. Stamps /\ OnceListed /\ WrittenWereSeen /\ NothingSeenYet /\ SeenWereWritten /\ OldWerePruned
  BY <1>1, <1>2
     DEF Stamps, OnceListed, WrittenWereSeen, NothingSeenYet, SeenWereWritten, OldWerePruned,
         NoScan
<1> QED  BY <1>5, <1>6 DEF MissingInv

LEMMA MissingStep ==
  ASSUME MissingInv, [MissingNext]_missingVars
  PROVE  MissingInv'
<1>1. CASE UNCHANGED missingVars
  <2>1. UNCHANGED <<media, rows, library, scan, retrieve, apply, missingUsed>>
    BY <1>1 DEF missingVars
  <2>2. MissTypeOK' /\ RunsHaveScenes' /\ Stamps' /\ OnceListed'
    BY <2>1 DEF MissingInv, MissTypeOK, RunsHaveScenes, Stamps, OnceListed
  <2>3. WrittenWereSeen' /\ NothingSeenYet' /\ SeenWereWritten' /\ OldWerePruned'
    BY <2>1 DEF MissingInv, WrittenWereSeen, NothingSeenYet, SeenWereWritten, OldWerePruned
  <2> QED  BY <2>2, <2>3 DEF MissingInv
<1>2. CASE \E v \in Videos : FileMoves(v) \/ FileExists(v) \/ RecordMissing(v) \/ RecordFails(v)
  BY <1>2, WorldMoves, ReadKeeps, RecordKeeps, RecordFailureKeeps
<1>3. CASE StartMissingScan \/ FetchCandidates \/ ReleasesByCanonicalVideoID \/ LinkMatch \/ Prune
  BY <1>3, ScanStartKeeps, ReadKeeps, LinkKeeps, PruneKeeps
<1>4. CASE ScanFails \/ ScanEnds \/ MissingRestart \/ ClearChecks \/ ClearDeletes
  BY <1>4, EndsKeep, ClearKeeps
<1>5. CASE \/ \E ids \in Selections : StartRetrieve(ids)
           \/ (\E id \in retrieve.todo : RetrieveNext(id)) \/ Scrape \/ LinkRetrieved \/ RetrieveEnds
  BY <1>5, RetrieveKeeps
<1>6. CASE \/ \E ids \in Selections : \E mode \in {"monitor_only", "monitor_download"} : StartApply(ids, mode)
           \/ (\E id \in apply.todo : ApplyNext(id)) \/ Monitor \/ SearchAndDownload \/ ApplyEnds
  BY <1>6, ApplyKeeps
<1> QED  BY <1>1, <1>2, <1>3, <1>4, <1>5, <1>6 DEF MissingNext

\* The list that a completed scan leaves is what it found (runMissingScan,
\* UpsertStashMissingScene, PruneStashMissingScenes).
THEOREM ScansAreExact == MissingSpec => []ScanIsExact
<1>1. MissingInit => MissingInv
  BY MissingStart
<1>2. MissingInv /\ [MissingNext]_missingVars => MissingInv'
  BY MissingStep
<1>3. MissingInv => ScanIsExact
  <2> SUFFICES ASSUME MissingInv, scan.pc = "over"
               PROVE  /\ \A id \in DOMAIN rows : rows[id].scene \in scan.seen /\ IdsOf(rows[id].scene) = {id}
                      /\ scan.written => \A v \in scan.seen :
                                           \E id \in IdsOf(v) : v \in scan.known => rows[id].rel # None
    BY DEF ScanIsExact
  <2>1. \A id \in DOMAIN rows : rows[id].scene \in scan.seen
    BY DEF MissingInv, WrittenWereSeen, OldWerePruned
  <2>2. \A id \in DOMAIN rows : IdsOf(rows[id].scene) = {id}
    BY DEF MissingInv, OnceListed, IdsOf
  <2>3. \A v \in scan.seen : scan.pc # v
    BY MissingAssumption DEF MissingInv, MissTypeOK, ScanType
  <2>4. scan.written => \A v \in scan.seen :
                          \E id \in IdsOf(v) : v \in scan.known => rows[id].rel # None
    BY <2>3 DEF MissingInv, SeenWereWritten, IdsOf
  <2> QED  BY <2>1, <2>2, <2>4
<1> QED  BY <1>1, <1>2, <1>3, PTL DEF MissingSpec

-----------------------------------------------------------------------------
(***************************************************************************)
(* The AI enrichment (Enrichment), for any candidates, any requests for    *)
(* pages and sweeps, and any limit.                                        *)
(***************************************************************************)

USE EnrichmentAssumption

Asks == [of : SUBSET Discoverable, version : Nat]
CallerStates == [pc : {"new", "load", "ranks", "cache", "start", "publish", "leave", "over"},
                 ask : Asks, persisted : SUBSET Discoverable]
RunStates == [pc : {"off", "next", "check", "ollama", "openai", "save", "cache"}, ask : Asks,
              todo : SUBSET SUBSET Discoverable, batch : SUBSET Discoverable,
              combined : SUBSET Discoverable, pieces : SUBSET SUBSET Discoverable,
              used : Nat, spent : Nat]

Typed == /\ version \in Nat /\ caller \in [Callers -> CallerStates] /\ enrich \in [Callers -> RunStates]
         /\ aiStatus \in [running : BOOLEAN, preparing : BOOLEAN]

-----------------------------------------------------------------------------
(* Types.                                                                  *)

LEMMA NewTypes == NotCalled \in CallerStates /\ NotRunning \in RunStates
BY DEF NotCalled, NotRunning, NoAsk, CallerStates, RunStates, Asks

LEMMA StatusTypes ==
  /\ [running |-> TRUE, preparing |-> TRUE] \in [running : BOOLEAN, preparing : BOOLEAN]
  /\ [running |-> TRUE, preparing |-> FALSE] \in [running : BOOLEAN, preparing : BOOLEAN]
  /\ [running |-> FALSE, preparing |-> FALSE] \in [running : BOOLEAN, preparing : BOOLEAN]
OBVIOUS

LEMMA GotoTypes ==
  ASSUME Typed, NEW c \in Callers,
         NEW pc \in {"new", "load", "ranks", "cache", "start", "publish", "leave", "over"}, Goto(c, pc)
  PROVE  /\ caller' \in [Callers -> CallerStates] /\ caller'[c].pc = pc
         /\ \A d \in Callers \ {c} : caller'[d] = caller[d]
BY DEF Goto, Typed, CallerStates

LEMMA AnswerTypes ==
  ASSUME Typed, NEW c \in Callers, Answer(c)
  PROVE  /\ caller' \in [Callers -> CallerStates] /\ caller'[c].pc = "over"
         /\ \A d \in Callers \ {c} : caller'[d] = caller[d]
BY NewTypes DEF Answer, Typed, CallerStates

LEMMA AtTypes ==
  ASSUME Typed, NEW c \in Callers, NEW e \in RunStates, At(c, e)
  PROVE  /\ enrich' \in [Callers -> RunStates] /\ enrich'[c] = e
         /\ \A d \in Callers \ {c} : enrich'[d] = enrich[d]
BY DEF At, Typed

LEMMA EndsTypes ==
  ASSUME Typed, NEW c \in Callers, Ends(c)
  PROVE  /\ enrich' \in [Callers -> RunStates] /\ enrich'[c] = NotRunning
         /\ \A d \in Callers \ {c} : enrich'[d] = enrich[d]
         /\ aiStatus' \in [running : BOOLEAN, preparing : BOOLEAN]
         /\ ~aiStatus'.running /\ aiStatus'.preparing = aiStatus.preparing
BY NewTypes DEF Ends, Typed

LEMMA ChargedTypes ==
  ASSUME NEW e \in RunStates
  PROVE  /\ Charged(e) \in RunStates /\ Cardinality(e.batch) \in Nat
         /\ Charged(e).pc = "save" /\ Charged(e).used = e.used + Cardinality(e.batch)
         /\ Charged(e).spent = e.spent + Cardinality(e.batch) /\ Charged(e).batch = e.batch
<1>1. e.batch \subseteq Discoverable /\ e.used \in Nat /\ e.spent \in Nat
  BY DEF RunStates
<1>2. Cardinality(e.batch) \in Nat
  BY <1>1, FS_Subset, FS_CardinalityType
<1>3. e.used + Cardinality(e.batch) \in Nat /\ e.spent + Cardinality(e.batch) \in Nat
  BY <1>1, <1>2
<1> QED  BY <1>2, <1>3 DEF Charged, RunStates

-----------------------------------------------------------------------------
(* A step of a goroutine goes on with its enrichment, or ends it; on the   *)
(* way it may be charged for a batch, or go to OpenAI with one.            *)
GoesOn(c, e) ==
  /\ At(c, e) /\ UNCHANGED aiStatus /\ e \in RunStates /\ e.pc # "off"
  /\ \/ /\ e.used = enrich[c].used /\ e.spent = enrich[c].spent
        /\ e.pc = "openai" => aiConfig.primary = "openai" \/ (~Capped(enrich[c]) /\ e.batch = enrich[c].batch)
     \/ enrich[c].pc = "openai" /\ e = Charged(enrich[c])

RunStep(c) == NextBatch(c) \/ CheckOllama(c) \/ AskOllama(c) \/ AskOpenAI(c) \/ SaveRanks(c) \/ PublishBatch(c)

LEMMA RunSteps ==
  ASSUME Typed, NEW c \in Callers, RunStep(c)
  PROVE  /\ enrich[c].pc # "off" /\ UNCHANGED <<version, aiConfig, caller>>
         /\ Ends(c) \/ \E e \in RunStates : GoesOn(c, e)
<1>0. enrich[c] \in RunStates
  BY DEF Typed
<1>1. UNCHANGED <<version, aiConfig, caller>>
  BY DEF RunStep, NextBatch, CheckOllama, AskOllama, AskOpenAI, SaveRanks, PublishBatch,
         Elsewhere
<1>2. enrich[c].pc # "off"
  BY DEF RunStep, NextBatch, CheckOllama, AskOllama, AskOpenAI, SaveRanks, PublishBatch
<1>3. SUFFICES Ends(c) \/ \E e \in RunStates : GoesOn(c, e)
  BY <1>1, <1>2
<1>4. CASE NextBatch(c)
  <2>1. ASSUME NEW b \in enrich[c].todo,
               At(c, [enrich[c] EXCEPT !.todo = @ \ {b}, !.batch = b, !.pieces = {b},
                                       !.pc = IF aiConfig.primary = "openai" THEN "openai" ELSE "check"]),
               UNCHANGED aiStatus
        PROVE  \E e \in RunStates : GoesOn(c, e)
    <3> DEFINE e == [enrich[c] EXCEPT !.todo = @ \ {b}, !.batch = b, !.pieces = {b},
                       !.pc = IF aiConfig.primary = "openai" THEN "openai" ELSE "check"]
    <3>1. b \in SUBSET Discoverable /\ enrich[c].todo \ {b} \in SUBSET SUBSET Discoverable
      BY <1>0 DEF RunStates
    <3>2. {b} \in SUBSET SUBSET Discoverable
      BY <3>1
    <3>3. e \in RunStates /\ e.used = enrich[c].used /\ e.spent = enrich[c].spent
      BY <1>0, <3>1, <3>2 DEF RunStates
    <3>4. e.pc = IF aiConfig.primary = "openai" THEN "openai" ELSE "check"
      BY <1>0 DEF RunStates
    <3>5. At(c, e) /\ UNCHANGED aiStatus
      BY <2>1
    <3> HIDE DEF e
    <3> QED  BY <3>3, <3>4, <3>5 DEF GoesOn
  <2> QED  BY <1>4, <2>1 DEF NextBatch
<1>5. CASE CheckOllama(c)
  <2> DEFINE e == [enrich[c] EXCEPT !.pc = "ollama"]
  <2>1. e \in RunStates /\ e.used = enrich[c].used /\ e.spent = enrich[c].spent /\ e.pc = "ollama"
    BY <1>0 DEF RunStates
  <2> QED  BY <1>5, <2>1 DEF CheckOllama, GoesOn
<1>6. CASE AskOllama(c)
  <2>0. enrich[c].pc = "ollama"
    BY <1>6 DEF AskOllama
  <2>1. ASSUME NEW p \in enrich[c].pieces,
               LET rest == enrich[c].pieces \ {p} IN
               At(c, [enrich[c] EXCEPT !.pieces = rest, !.pc = IF rest = {} THEN "save" ELSE @]),
               UNCHANGED aiStatus
        PROVE  \E e \in RunStates : GoesOn(c, e)
    <3> DEFINE rest == enrich[c].pieces \ {p}
               e == [enrich[c] EXCEPT !.pieces = rest, !.pc = IF rest = {} THEN "save" ELSE @]
    <3>1. e \in RunStates /\ e.used = enrich[c].used /\ e.spent = enrich[c].spent /\ e.pc \in {"save", "ollama"}
      BY <1>0, <2>0 DEF RunStates
    <3> QED  BY <2>1, <3>1 DEF GoesOn
  <2>2. ASSUME NEW rejected \in BOOLEAN, OllamaFails(c, rejected)
        PROVE  Ends(c) \/ \E e \in RunStates : GoesOn(c, e)
    <3>1. [enrich[c] EXCEPT !.pc = "openai"] \in RunStates /\ [enrich[c] EXCEPT !.pc = "next"] \in RunStates
      BY <1>0 DEF RunStates
    <3>2. CASE ~Capped(enrich[c]) /\ At(c, [enrich[c] EXCEPT !.pc = "openai"]) /\ UNCHANGED aiStatus
      <4> DEFINE e == [enrich[c] EXCEPT !.pc = "openai"]
      <4>1. e.used = enrich[c].used /\ e.spent = enrich[c].spent /\ e.pc = "openai" /\ e.batch = enrich[c].batch
        BY <1>0 DEF RunStates
      <4> QED  BY <3>1, <3>2, <4>1 DEF GoesOn
    <3>3. CASE At(c, [enrich[c] EXCEPT !.pc = "next"]) /\ UNCHANGED aiStatus
      <4> DEFINE e == [enrich[c] EXCEPT !.pc = "next"]
      <4>1. e.used = enrich[c].used /\ e.spent = enrich[c].spent /\ e.pc = "next"
        BY <1>0 DEF RunStates
      <4> QED  BY <3>1, <3>3, <4>1 DEF GoesOn
    <3> QED  BY <2>2, <3>2, <3>3 DEF OllamaFails
  <2>3. ASSUME NEW p \in enrich[c].pieces, NEW x \in p,
               At(c, [enrich[c] EXCEPT !.pieces = (@ \ {p}) \cup {{x}, p \ {x}}]), UNCHANGED aiStatus
        PROVE  \E e \in RunStates : GoesOn(c, e)
    <3> DEFINE e == [enrich[c] EXCEPT !.pieces = (@ \ {p}) \cup {{x}, p \ {x}}]
    <3>1. p \subseteq Discoverable
      BY <1>0 DEF RunStates
    <3>2. e \in RunStates /\ e.used = enrich[c].used /\ e.spent = enrich[c].spent /\ e.pc = "ollama"
      BY <1>0, <2>0, <3>1 DEF RunStates
    <3> QED  BY <2>3, <3>2 DEF GoesOn
  <2>4. PICK p \in enrich[c].pieces :
          \/ LET rest == enrich[c].pieces \ {p} IN
             /\ At(c, [enrich[c] EXCEPT !.pieces = rest, !.pc = IF rest = {} THEN "save" ELSE @])
             /\ UNCHANGED aiStatus
          \/ \E rejected \in BOOLEAN : OllamaFails(c, rejected)
          \/ /\ \E x \in p : At(c, [enrich[c] EXCEPT !.pieces = (@ \ {p}) \cup {{x}, p \ {x}}])
             /\ UNCHANGED aiStatus
    BY <1>6 DEF AskOllama
  <2> QED  BY <2>1, <2>2, <2>3, <2>4
<1>7. CASE AskOpenAI(c)
  <2>1. Charged(enrich[c]) \in RunStates /\ Charged(enrich[c]).pc = "save"
    BY <1>0, ChargedTypes
  <2> QED  BY <1>7, <2>1 DEF AskOpenAI, GoesOn
<1>8. CASE SaveRanks(c)
  <2> DEFINE e == [enrich[c] EXCEPT !.combined = @ \cup enrich[c].batch, !.pc = "cache"]
  <2>1. e \in RunStates /\ e.used = enrich[c].used /\ e.spent = enrich[c].spent /\ e.pc = "cache"
    BY <1>0 DEF RunStates
  <2> QED  BY <1>8, <2>1 DEF SaveRanks, GoesOn
<1>9. CASE PublishBatch(c)
  <2> DEFINE e == [enrich[c] EXCEPT !.pc = "next"]
  <2>1. e \in RunStates /\ e.used = enrich[c].used /\ e.spent = enrich[c].spent /\ e.pc = "next"
    BY <1>0 DEF RunStates
  <2> QED  BY <1>9, <2>1 DEF PublishBatch, GoesOn
<1> QED  BY <1>4, <1>5, <1>6, <1>7, <1>8, <1>9 DEF RunStep

LEMMA TypesStep ==
  ASSUME Typed, [EnrichNext]_enrichVars
  PROVE  Typed'
<1>1. CASE Revise
  BY <1>1 DEF Revise, Typed
<1>2. ASSUME NEW c \in Sweeps, Reserve(c)  PROVE Typed'
  <2>1. Goto(c, "over") \/ Goto(c, "load")
    BY <1>2 DEF Reserve
  <2>2. caller' \in [Callers -> CallerStates]
    BY <2>1, GotoTypes DEF Callers
  <2>3. aiStatus' \in [running : BOOLEAN, preparing : BOOLEAN]
    BY <1>2, StatusTypes DEF Reserve, Typed
  <2>4. UNCHANGED <<version, enrich>>
    BY <1>2 DEF Reserve
  <2> QED  BY <2>2, <2>3, <2>4 DEF Typed
<1>3. ASSUME NEW c \in Callers, Load(c)  PROVE Typed'
  <2>1. caller' \in [Callers -> CallerStates]
    <3>1. ASSUME NEW S \in SUBSET Discoverable,
                 caller' = [caller EXCEPT ![c] = [@ EXCEPT !.pc = "ranks", !.ask = [of |-> S, version |-> version]]]
          PROVE  caller' \in [Callers -> CallerStates]
      <4>1. [of |-> S, version |-> version] \in Asks
        BY DEF Typed, Asks
      <4>2. [caller[c] EXCEPT !.pc = "ranks", !.ask = [of |-> S, version |-> version]] \in CallerStates
        <5>1. caller[c] \in CallerStates
          BY DEF Typed
        <5> QED  BY <4>1, <5>1 DEF CallerStates
      <4> QED  BY <3>1, <4>2 DEF Typed
    <3>2. (IF c \in Sweeps THEN {Discoverable} ELSE Shown) \subseteq SUBSET Discoverable
      BY EnrichmentAssumption
    <3> QED  BY <1>3, <3>1, <3>2, GotoTypes DEF Load
  <2> QED  BY <1>3, <2>1 DEF Load, Typed
<1>4. ASSUME NEW c \in Callers, ReadRanks(c)  PROVE Typed'
  <2>1. caller[c].ask.of \subseteq Discoverable
    BY DEF Typed, CallerStates, Asks
  <2>2. PICK found \in SUBSET Discoverable, pc \in {"leave", "cache"} :
          caller' = [caller EXCEPT ![c].persisted = found, ![c].pc = pc]
    <3>1. PICK found \in {{x \in caller[c].ask.of : ranks[x] = caller[c].ask.version}, {}} :
            caller' = [caller EXCEPT ![c].persisted = found,
                                     ![c].pc = IF found = caller[c].ask.of THEN "leave" ELSE "cache"]
      BY <1>4 DEF ReadRanks
    <3> DEFINE pc == IF found = caller[c].ask.of THEN "leave" ELSE "cache"
    <3>2. found \in SUBSET Discoverable /\ pc \in {"leave", "cache"}
      BY <2>1
    <3>3. caller' = [caller EXCEPT ![c].persisted = found, ![c].pc = pc]
      BY <3>1
    <3> HIDE DEF pc
    <3> QED  BY <3>2, <3>3
  <2>3. caller' \in [Callers -> CallerStates]
    <3>1. [caller[c] EXCEPT !.persisted = found, !.pc = pc] \in CallerStates
      <4>1. caller[c] \in CallerStates
        BY DEF Typed
      <4> QED  BY <2>2, <4>1 DEF CallerStates
    <3>2. caller' = [caller EXCEPT ![c] = [caller[c] EXCEPT !.persisted = found, !.pc = pc]]
      BY <2>2 DEF Typed
    <3> QED  BY <3>1, <3>2 DEF Typed
  <2> QED  BY <1>4, <2>3 DEF ReadRanks, Typed
<1>5. ASSUME NEW c \in Callers, LookUp(c)  PROVE Typed'
  BY <1>5, GotoTypes DEF LookUp, Typed
<1>6. ASSUME NEW c \in Callers, Start(c)  PROVE Typed'
  <2>1. Goto(c, "leave") \/ Goto(c, "publish")
    BY <1>6 DEF Start
  <2>2. aiStatus' \in [running : BOOLEAN, preparing : BOOLEAN]
    BY <1>6, StatusTypes DEF Start, Typed
  <2>3. UNCHANGED <<version, enrich>>
    BY <1>6 DEF Start
  <2> QED  BY <2>1, <2>2, <2>3, GotoTypes DEF Typed
<1>7. ASSUME NEW c \in Callers, Publish(c)  PROVE Typed'
  <2>1. Goto(c, "leave")
    BY <1>7 DEF Publish
  <2>2. caller[c] \in CallerStates
    BY DEF Typed
  <2>3. Batches(caller[c].ask.of \ caller[c].persisted) \in SUBSET SUBSET Discoverable
    BY <2>2 DEF Batches, CallerStates, Asks
  <2>4. enrich' \in [Callers -> RunStates]
    BY <1>7, <2>2, <2>3, NewTypes DEF Publish, Typed, RunStates, CallerStates
  <2> QED  BY <1>7, <2>1, <2>4, GotoTypes DEF Publish, Typed
<1>8. ASSUME NEW c \in Callers, GiveUp(c)  PROVE Typed'
  <2>1. aiStatus' \in [running : BOOLEAN, preparing : BOOLEAN]
    BY <1>8, StatusTypes DEF GiveUp, Typed
  <2>2. UNCHANGED <<version, enrich>> /\ Answer(c)
    BY <1>8 DEF GiveUp
  <2> QED  BY <2>1, <2>2, AnswerTypes DEF Typed
<1>9. ASSUME NEW c \in Callers, RunStep(c)  PROVE Typed'
  <2>1. UNCHANGED <<version, aiConfig, caller>> /\ (Ends(c) \/ \E e \in RunStates : GoesOn(c, e))
    BY <1>9, RunSteps
  <2>2. CASE Ends(c)
    BY <2>1, <2>2, EndsTypes DEF Typed
  <2>3. ASSUME NEW e \in RunStates, GoesOn(c, e)  PROVE Typed'
    BY <2>1, <2>3, AtTypes DEF GoesOn, Typed
  <2> QED  BY <2>1, <2>2, <2>3
<1>10. CASE ClearRankings
  BY <1>10 DEF ClearRankings, Typed
<1>11. CASE UNCHANGED enrichVars
  BY <1>11 DEF enrichVars, Typed
<1> QED  BY <1>1, <1>2, <1>3, <1>4, <1>5, <1>6, <1>7, <1>8, <1>9, <1>10, <1>11
            DEF EnrichNext, RunStep

LEMMA TypesInit == EnrichInit => Typed
BY NewTypes DEF EnrichInit, Typed

-----------------------------------------------------------------------------
(* The bill: what OpenAI was asked about has been counted, and a batch     *)
(* that goes to it after Ollama has room.                                  *)
Fits(e) == ~(e.used + Cardinality(e.batch) > FallbackLimit)

Bill == aiConfig.primary = "ollama" => \A c \in Callers :
          /\ enrich[c].spent = enrich[c].used /\ enrich[c].used <= FallbackLimit
          /\ enrich[c].pc = "openai" => Fits(enrich[c])

LEMMA BillStep == Typed /\ Bill /\ [EnrichNext]_enrichVars => Bill'
<1> SUFFICES ASSUME Typed, Bill, [EnrichNext]_enrichVars, aiConfig'.primary = "ollama", NEW d \in Callers
             PROVE  /\ enrich'[d].spent = enrich'[d].used /\ enrich'[d].used <= FallbackLimit
                    /\ enrich'[d].pc = "openai" => Fits(enrich'[d])
  BY DEF Bill, Fits
<1> DEFINE Fine == /\ enrich'[d].spent = enrich'[d].used /\ enrich'[d].used <= FallbackLimit
                   /\ enrich'[d].pc = "openai" => Fits(enrich'[d])
<1>0. enrich[d] \in RunStates /\ FallbackLimit \in Nat
  BY EnrichmentAssumption DEF Typed
<1>1. UNCHANGED aiConfig
  BY DEF EnrichNext, enrichVars, Revise, Reserve, Load, ReadRanks, LookUp, Start, Publish,
         GiveUp, NextBatch,
         CheckOllama, AskOllama, AskOpenAI, SaveRanks, PublishBatch, ClearRankings, Elsewhere
<1>2. /\ enrich[d].spent = enrich[d].used /\ enrich[d].used <= FallbackLimit
      /\ enrich[d].pc = "openai" => Fits(enrich[d])
  BY <1>1 DEF Bill
<1>3. CASE enrich'[d] = enrich[d]
  BY <1>2, <1>3
<1>4. ASSUME NEW c \in Callers, Publish(c), c = d  PROVE Fine
  BY <1>0, <1>4 DEF Publish, NotRunning, Typed
<1>5. ASSUME NEW c \in Callers, RunStep(c), c = d  PROVE Fine
  <2>1. CASE Ends(d)
    BY <1>0, <2>1, EndsTypes DEF NotRunning
  <2>2. ASSUME NEW e \in RunStates, GoesOn(d, e)  PROVE Fine
    <3>1. enrich'[d] = e
      BY <2>2, AtTypes DEF GoesOn
    <3>2. CASE e.used = enrich[d].used /\ e.spent = enrich[d].spent
               /\ (e.pc = "openai" => ~Capped(enrich[d]) /\ e.batch = enrich[d].batch)
      <4>1. aiConfig.primary = "ollama"
        BY <1>1
      <4>2. e.pc = "openai" => Fits(e)
        BY <3>2, <4>1 DEF Capped, Fits
      <4> QED  BY <1>2, <3>1, <3>2, <4>2
    <3>3. CASE enrich[d].pc = "openai" /\ e = Charged(enrich[d])
      <4>1. enrich[d].used + Cardinality(enrich[d].batch) <= FallbackLimit
        BY <1>0, <1>1, <1>2, <3>3, ChargedTypes DEF Fits, RunStates
      <4> QED  BY <1>0, <1>2, <3>1, <3>3, <4>1, ChargedTypes DEF RunStates
    <3> QED  BY <1>1, <2>2, <3>2, <3>3 DEF GoesOn
  <2> QED  BY <1>5, <2>1, <2>2, RunSteps
<1>6. \/ enrich'[d] = enrich[d]
      \/ \E c \in Callers : (Publish(c) \/ RunStep(c)) /\ c = d
  <2>1. CASE \E c \in Callers : Publish(c)
    BY <2>1 DEF Publish, Typed
  <2>2. ASSUME NEW c \in Callers, RunStep(c), c # d  PROVE enrich'[d] = enrich[d]
    BY <2>2, RunSteps, EndsTypes, AtTypes DEF GoesOn
  <2>3. CASE UNCHANGED enrich
    BY <2>3
  <2>4. \/ UNCHANGED enrich \/ \E c \in Callers : Publish(c) \/ RunStep(c)
    BY DEF EnrichNext, enrichVars, RunStep, Revise, Reserve, Load, ReadRanks, LookUp, Start,
           GiveUp, ClearRankings
  <2> QED  BY <2>1, <2>2, <2>3, <2>4
<1> QED  BY <1>3, <1>4, <1>5, <1>6

(* An enrichment by Ollama asks OpenAI about no more candidates than one   *)
(* run may (discovery/service.go: the fallback of Rank).                   *)
THEOREM FallbackStaysWithinLimit == EnrichSpec => []FallbackWithinLimit
<1>1. EnrichInit => Bill
  BY EnrichmentAssumption DEF EnrichInit, Bill, NotRunning
<1>2. Bill => FallbackWithinLimit
  BY DEF Bill, FallbackWithinLimit
<1> QED  BY <1>1, <1>2, TypesInit, TypesStep, BillStep, PTL DEF EnrichSpec

-----------------------------------------------------------------------------
(* One enrichment at a time.                                               *)
StartsFromRest == \A c \in Callers : enrich[c].pc # "off" => caller[c].pc \in {"leave", "over"}
OnlyOne == \A c, d \in Callers : Enriching(c) /\ Enriching(d) => c = d
StatusShows == (\E c \in Callers : Enriching(c)) <=> (aiStatus.running /\ ~aiStatus.preparing)
ReservationIsHeld == aiStatus.preparing => aiStatus.running /\ \E c \in Callers : Preparing(c)

EnrichInv == StartsFromRest /\ OnlyOne /\ StatusShows /\ ReservationIsHeld

(* A step that neither begins nor ends an enrichment, nor takes a sweep    *)
(* out of its preparations.                                                *)
LEMMA NothingBegins ==
  ASSUME EnrichInv, NEW c \in Callers, UNCHANGED aiStatus,
         \A d \in Callers : enrich'[d].pc = "off" <=> enrich[d].pc = "off",
         \A d \in Callers \ {c} : caller'[d] = caller[d],
         caller'[c].pc # "publish", caller[c].pc # "publish",
         caller[c].pc \in {"leave", "over"} => caller'[c].pc \in {"leave", "over"},
         Preparing(c) => Preparing(c)' \/ ~aiStatus.preparing
  PROVE  EnrichInv'
<1>1. \A d \in Callers : Enriching(d)' <=> Enriching(d)
  BY DEF Enriching
<1>2. StartsFromRest'
  BY DEF EnrichInv, StartsFromRest
<1>3. OnlyOne' /\ StatusShows'
  BY <1>1 DEF EnrichInv, OnlyOne, StatusShows
<1>4. ASSUME aiStatus.preparing  PROVE aiStatus.running /\ \E d \in Callers : Preparing(d)'
  <2>1. PICK d \in Callers : Preparing(d)
    BY <1>4 DEF EnrichInv, ReservationIsHeld
  <2>2. Preparing(d)'
    BY <1>4, <2>1 DEF Preparing
  <2> QED  BY <1>4, <2>2 DEF EnrichInv, ReservationIsHeld
<1> QED  BY <1>2, <1>3, <1>4 DEF EnrichInv, ReservationIsHeld

LEMMA EnrichInvStep == Typed /\ EnrichInv /\ [EnrichNext]_enrichVars => EnrichInv'
<1> SUFFICES ASSUME Typed, EnrichInv, [EnrichNext]_enrichVars  PROVE EnrichInv'
  OBVIOUS
<1>1. CASE UNCHANGED <<caller, enrich, aiStatus>>
  BY <1>1
     DEF EnrichInv, StartsFromRest, OnlyOne, StatusShows, ReservationIsHeld, Enriching,
         Preparing
<1>2. ASSUME NEW c \in Sweeps, Reserve(c)  PROVE EnrichInv'
  <2>0. c \in Callers
    BY DEF Callers
  <2>1. CASE aiStatus.running
    BY <1>2, <2>0, <2>1, GotoTypes, NothingBegins DEF Reserve, Preparing
  <2>2. CASE ~aiStatus.running
    <3>1. /\ Goto(c, "load") /\ aiStatus'.running /\ aiStatus'.preparing /\ UNCHANGED enrich
          /\ caller[c].pc = "new"
      BY <1>2, <2>2 DEF Reserve
    <3>2. /\ caller'[c].pc = "load" /\ \A d \in Callers \ {c} : caller'[d] = caller[d]
      BY <2>0, <3>1, GotoTypes
    <3>3. \A d \in Callers : ~Enriching(d)
      BY <2>2 DEF EnrichInv, StatusShows
    <3>4. \A d \in Callers : ~Enriching(d)'
      BY <3>1, <3>2, <3>3 DEF Enriching
    <3>5. Preparing(c)'
      BY <3>2 DEF Preparing
    <3> QED  BY <2>0, <3>1, <3>2, <3>4, <3>5
                DEF EnrichInv, StartsFromRest, OnlyOne, StatusShows, ReservationIsHeld,
                    Enriching
  <2> QED  BY <2>1, <2>2
<1>3. ASSUME NEW c \in Callers, Load(c)  PROVE EnrichInv'
  <2>1. /\ caller'[c].pc \in {"ranks", "leave"} /\ \A d \in Callers \ {c} : caller'[d] = caller[d]
    <3>1. ASSUME NEW S,
                 caller' = [caller EXCEPT ![c] = [@ EXCEPT !.pc = "ranks", !.ask = [of |-> S, version |-> version]]]
          PROVE  caller'[c].pc = "ranks" /\ \A d \in Callers \ {c} : caller'[d] = caller[d]
      BY <3>1 DEF Typed, CallerStates
    <3> QED  BY <1>3, <3>1, GotoTypes DEF Load
  <2>2. caller[c].pc \in {"load", "new"} /\ UNCHANGED <<aiStatus, enrich>>
    BY <1>3 DEF Load
  <2> QED  BY <2>1, <2>2, NothingBegins DEF Preparing
<1>4. ASSUME NEW c \in Callers, ReadRanks(c)  PROVE EnrichInv'
  <2>1. PICK found \in {{x \in caller[c].ask.of : ranks[x] = caller[c].ask.version}, {}} :
          caller' = [caller EXCEPT ![c].persisted = found,
                                   ![c].pc = IF found = caller[c].ask.of THEN "leave" ELSE "cache"]
    BY <1>4 DEF ReadRanks
  <2>2. caller'[c].pc \in {"leave", "cache"} /\ \A d \in Callers \ {c} : caller'[d] = caller[d]
    BY <2>1 DEF Typed, CallerStates
  <2>3. caller[c].pc = "ranks" /\ UNCHANGED <<aiStatus, enrich>>
    BY <1>4 DEF ReadRanks
  <2> QED  BY <2>2, <2>3, NothingBegins DEF Preparing
<1>5. ASSUME NEW c \in Callers, LookUp(c)  PROVE EnrichInv'
  <2>1. caller'[c].pc \in {"leave", "start"} /\ \A d \in Callers \ {c} : caller'[d] = caller[d]
    BY <1>5, GotoTypes DEF LookUp
  <2>2. caller[c].pc = "cache" /\ UNCHANGED <<aiStatus, enrich>>
    BY <1>5 DEF LookUp
  <2> QED  BY <2>1, <2>2, NothingBegins DEF Preparing
<1>6. ASSUME NEW c \in Callers, Start(c)  PROVE EnrichInv'
  <2>0. caller[c].pc = "start" /\ UNCHANGED enrich
    BY <1>6 DEF Start
  <2>1. CASE aiStatus.running /\ ~(c \in Sweeps /\ aiStatus.preparing)
    <3>1. Goto(c, "leave") /\ UNCHANGED aiStatus
      BY <1>6, <2>1 DEF Start
    <3> QED  BY <2>0, <3>1, GotoTypes, NothingBegins DEF Preparing
  <2>2. CASE ~(aiStatus.running /\ ~(c \in Sweeps /\ aiStatus.preparing))
    <3>1. Goto(c, "publish") /\ aiStatus'.running /\ ~aiStatus'.preparing
      BY <1>6, <2>2 DEF Start
    <3>2. caller'[c].pc = "publish" /\ \A d \in Callers \ {c} : caller'[d] = caller[d]
      BY <3>1, GotoTypes
    <3>3. \A d \in Callers : ~Enriching(d)
      BY <2>2 DEF EnrichInv, StatusShows
    <3>4. \A d \in Callers : Enriching(d)' <=> d = c
      BY <2>0, <3>2, <3>3 DEF Enriching
    <3>5. \A d \in Callers : enrich[d].pc = "off"
      BY <3>3 DEF Enriching
    <3> QED  BY <2>0, <3>1, <3>4, <3>5
                DEF EnrichInv, StartsFromRest, OnlyOne, StatusShows, ReservationIsHeld
  <2> QED  BY <2>1, <2>2
<1>7. ASSUME NEW c \in Callers, Publish(c)  PROVE EnrichInv'
  <2>1. caller[c].pc = "publish" /\ Goto(c, "leave") /\ UNCHANGED aiStatus
    BY <1>7 DEF Publish
  <2>2. caller'[c].pc = "leave" /\ \A d \in Callers \ {c} : caller'[d] = caller[d]
    BY <2>1, GotoTypes
  <2>3. enrich'[c].pc = "next" /\ \A d \in Callers \ {c} : enrich'[d] = enrich[d]
    BY <1>7 DEF Publish, Typed, NotRunning
  <2>4. \A d \in Callers : Enriching(d)' <=> Enriching(d)
    BY <2>1, <2>2, <2>3 DEF Enriching
  <2>5. aiStatus.running /\ ~aiStatus.preparing
    BY <2>1 DEF EnrichInv, StatusShows, Enriching
  <2> QED  BY <2>1, <2>2, <2>3, <2>4, <2>5
              DEF EnrichInv, StartsFromRest, OnlyOne, StatusShows, ReservationIsHeld
<1>8. ASSUME NEW c \in Callers, GiveUp(c)  PROVE EnrichInv'
  <2>0. caller[c].pc = "leave" /\ UNCHANGED enrich
    BY <1>8 DEF GiveUp
  <2>1. caller'[c].pc = "over" /\ \A d \in Callers \ {c} : caller'[d] = caller[d]
    BY <1>8, AnswerTypes DEF GiveUp
  <2>2. \A d \in Callers : Enriching(d)' <=> Enriching(d)
    BY <2>0, <2>1 DEF Enriching
  <2>3. CASE c \in Sweeps /\ aiStatus.preparing
    <3>1. ~aiStatus'.running /\ ~aiStatus'.preparing
      BY <1>8, <2>3 DEF GiveUp
    <3> QED  BY <2>0, <2>1, <2>2, <2>3, <3>1
                DEF EnrichInv, StartsFromRest, OnlyOne, StatusShows, ReservationIsHeld
  <2>4. CASE ~(c \in Sweeps /\ aiStatus.preparing)
    <3>1. UNCHANGED aiStatus
      BY <1>8, <2>4 DEF GiveUp
    <3> QED  BY <2>0, <2>1, <2>4, <3>1, NothingBegins DEF Preparing
  <2> QED  BY <2>3, <2>4
<1>9. ASSUME NEW c \in Callers, RunStep(c)  PROVE EnrichInv'
  <2>1. enrich[c].pc # "off" /\ UNCHANGED caller
    BY <1>9, RunSteps
  <2>2. caller[c].pc \in {"leave", "over"} /\ Enriching(c)
    BY <2>1 DEF EnrichInv, StartsFromRest, Enriching
  <2>3. CASE Ends(c)
    <3>1. /\ enrich'[c].pc = "off" /\ \A d \in Callers \ {c} : enrich'[d] = enrich[d]
          /\ ~aiStatus'.running /\ aiStatus'.preparing = aiStatus.preparing
      BY <2>3, EndsTypes DEF NotRunning
    <3>2. ~aiStatus.preparing
      BY <2>2 DEF EnrichInv, StatusShows
    <3>3. \A d \in Callers \ {c} : ~Enriching(d)
      BY <2>2 DEF EnrichInv, OnlyOne
    <3>4. \A d \in Callers : ~Enriching(d)'
      BY <2>1, <2>2, <3>1, <3>3 DEF Enriching
    <3>5. \A d \in Callers : enrich'[d].pc = "off"
      BY <3>4 DEF Enriching
    <3> QED  BY <3>1, <3>2, <3>4, <3>5
                DEF EnrichInv, StartsFromRest, OnlyOne, StatusShows, ReservationIsHeld
  <2>4. ASSUME NEW e \in RunStates, GoesOn(c, e)  PROVE EnrichInv'
    <3>1. enrich'[c] = e /\ e.pc # "off" /\ UNCHANGED aiStatus /\ \A d \in Callers \ {c} : enrich'[d] = enrich[d]
      BY <2>4, AtTypes DEF GoesOn
    <3> QED  BY <2>1, <2>2, <3>1, NothingBegins DEF Preparing
  <2> QED  BY <1>9, <2>3, <2>4, RunSteps
<1> QED  BY <1>1, <1>2, <1>3, <1>4, <1>5, <1>6, <1>7, <1>8, <1>9
         DEF EnrichNext, RunStep, enrichVars, Revise, ClearRankings

(* One enrichment runs at a time, discoveryAIStatus says so as long as it  *)
(* does, and whoever has reserved it is there to give it back              *)
(* (enhanceDiscoveriesWithSweep, finishDiscoveryAIPreparation).            *)
THEOREM EnrichmentsExclude == EnrichSpec => []OneEnrichment
<1>1. EnrichInit => EnrichInv
  BY DEF EnrichInit, EnrichInv, StartsFromRest, OnlyOne, StatusShows, ReservationIsHeld,
         Enriching,
         NotCalled, NotRunning
<1>2. Typed /\ EnrichInv => OneEnrichment
  BY DEF EnrichInv, OnlyOne, StatusShows, ReservationIsHeld, OneEnrichment, Typed
<1> QED  BY <1>1, <1>2, TypesInit, TypesStep, EnrichInvStep, PTL DEF EnrichSpec

=============================================================================
