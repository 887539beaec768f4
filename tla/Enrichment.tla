----------------------------- MODULE Enrichment -----------------------------
(***************************************************************************)
(* The AI enrichment of internal/web/discoveries.go over internal/discovery*)
(* - which has a model rank the candidates of a page of Discoveries, or of *)
(* a sweep an administrator asks for - and the clearingRanks of its rankings.   *)
(*                                                                         *)
(* One enrichment runs at a time: discoveryAIStatus says so.  A sweep      *)
(* reserves it before it has its candidates and hands the reservation over *)
(* to the enrichment it starts, or gives it up.                            *)
(*                                                                         *)
(* A ranking is of a version of the settings and the metadata, which stands*)
(* for its fingerprint.  What a model answers is data: a response is       *)
(* usable, rejected by the validation, cut off at its output limit, or an  *)
(* error, which a timeout is as well.                                      *)
(***************************************************************************)
EXTENDS Integers, FiniteSets

CONSTANTS
  Discoverable,    \* releases
  Pages,         \* requests for a page of Discoveries
  Sweeps,        \* requests to run an enrichment
  Shown,         \* sets of candidates a page may be about
  FallbackLimit, \* discoveries_openai_candidate_limit
  MaxRevisions   \* bound: the versions of the settings and the metadata

ASSUME EnrichmentAssumption ==
  /\ IsFiniteSet(Discoverable) /\ IsFiniteSet(Pages \cup Sweeps) /\ Pages \cap Sweeps = {}
  /\ \A S \in Shown : S # {} /\ S \subseteq Discoverable
  /\ FallbackLimit \in Nat /\ MaxRevisions \in Nat \ {0}

Callers == Pages \cup Sweeps

VARIABLES
  version,     \* of the settings and the metadata
  ranks,       \* discovery_ai_ranks: the version a candidate was ranked in, 0 for none
  rankCache,   \* discoveryRankCache: the candidates ranked of what was asked for
  aiStatus,    \* discoveryAIStatus
  aiConfig,      \* the settings of the enrichment
  caller,      \* caller[c]: where the request c is
  enrich,      \* enrich[c]: the goroutine that c started
  clearingRanks     \* clearDiscoveryAIRankings

enrichVars == <<version, ranks, rankCache, aiStatus, aiConfig, caller, enrich, clearingRanks>>

\* What is asked for: candidates, in a version.
NoAsk == [of |-> {}, version |-> 0]
NotCalled == [pc |-> "new", ask |-> NoAsk, persisted |-> {}]
NotRunning == [pc |-> "off", ask |-> NoAsk, todo |-> {}, batch |-> {}, combined |-> {},
               pieces |-> {}, used |-> 0, spent |-> 0]

EnrichInit ==
  /\ version = 1 /\ ranks = [x \in Discoverable |-> 0] /\ rankCache = <<>>
  /\ aiStatus = [running |-> FALSE, preparing |-> FALSE]
  /\ \/ aiConfig \in [primary : {"ollama"}, fallback : {TRUE}, whole : BOOLEAN]
     \/ aiConfig \in [primary : {"ollama", "openai"}, fallback : {FALSE}, whole : {TRUE}]
  /\ caller = [c \in Callers |-> NotCalled] /\ enrich = [c \in Callers |-> NotRunning]
  /\ clearingRanks = "new"

Goto(c, pc) == caller' = [caller EXCEPT ![c].pc = pc]
Answer(c) == caller' = [caller EXCEPT ![c] = [NotCalled EXCEPT !.pc = "over"]]

-----------------------------------------------------------------------------
(* Settings and metadata change.                                           *)

Revise ==
  /\ version < MaxRevisions /\ version' = version + 1
  /\ UNCHANGED <<ranks, rankCache, aiStatus, aiConfig, caller, enrich, clearingRanks>>

-----------------------------------------------------------------------------
(* A sweep: reserve, clear the cache, load the candidates.                 *)

Reserve(c) ==
  /\ caller[c].pc = "new"
  /\ IF aiStatus.running THEN Goto(c, "over") /\ UNCHANGED <<rankCache, aiStatus>>
     ELSE /\ Goto(c, "load") /\ rankCache' = <<>>
          /\ aiStatus' = [running |-> TRUE, preparing |-> TRUE]
  /\ UNCHANGED <<version, ranks, aiConfig, enrich, clearingRanks>>

\* A page has its candidates at once; a sweep's take a while, may fail to load or
\* be none.
Load(c) ==
  /\ caller[c].pc = IF c \in Sweeps THEN "load" ELSE "new"
  /\ \/ \E S \in IF c \in Sweeps THEN {Discoverable} ELSE Shown :
          caller' = [caller EXCEPT ![c] = [@ EXCEPT !.pc = "ranks", !.ask = [of |-> S, version |-> version]]]
     \/ c \in Sweeps /\ Goto(c, "leave")
  /\ UNCHANGED <<version, ranks, rankCache, aiStatus, aiConfig, enrich, clearingRanks>>

-----------------------------------------------------------------------------
(* enhanceDiscoveriesWithSweep.                                            *)

\* DiscoveryAIRanks: the rankings there are of what is asked for, or an error.
ReadRanks(c) ==
  /\ caller[c].pc = "ranks"
  /\ \E found \in {{x \in caller[c].ask.of : ranks[x] = caller[c].ask.version}, {}} :
       caller' = [caller EXCEPT ![c].persisted = found,
                                ![c].pc = IF found = caller[c].ask.of THEN "leave" ELSE "cache"]
  /\ UNCHANGED <<version, ranks, rankCache, aiStatus, aiConfig, enrich, clearingRanks>>

\* An entry may have expired.
LookUp(c) ==
  /\ caller[c].pc = "cache"
  /\ \/ caller[c].ask \in DOMAIN rankCache /\ Goto(c, "leave")
     \/ Goto(c, "start")
  /\ UNCHANGED <<version, ranks, rankCache, aiStatus, aiConfig, enrich, clearingRanks>>

\* A page leaves an enrichment that runs alone; a sweep takes over what was
\* reserved.
Start(c) ==
  /\ caller[c].pc = "start"
  /\ IF aiStatus.running /\ ~(c \in Sweeps /\ aiStatus.preparing)
     THEN Goto(c, "leave") /\ UNCHANGED aiStatus
     ELSE Goto(c, "publish") /\ aiStatus' = [running |-> TRUE, preparing |-> FALSE]
  /\ UNCHANGED <<version, ranks, rankCache, aiConfig, enrich, clearingRanks>>

With(cache, ask, found) == [k \in DOMAIN cache \cup {ask} |-> IF k = ask THEN found ELSE cache[k]]
Batches(S) == IF aiConfig.whole THEN {S} ELSE {{x} : x \in S}

Publish(c) ==
  /\ caller[c].pc = "publish" /\ Goto(c, "leave")
  /\ rankCache' = With(rankCache, caller[c].ask, caller[c].persisted)
  /\ enrich' = [enrich EXCEPT ![c] =
       [NotRunning EXCEPT !.pc = "next", !.ask = caller[c].ask, !.combined = caller[c].persisted,
                          !.todo = Batches(caller[c].ask.of \ caller[c].persisted)]]
  /\ UNCHANGED <<version, ranks, aiStatus, aiConfig, clearingRanks>>

\* Mutant. A sweep gives up the enrichment whether it handed it over or not.
GiveUpAnyway(c) ==
  /\ caller[c].pc = "leave" /\ Answer(c)
  /\ IF c \in Sweeps THEN aiStatus' = [running |-> FALSE, preparing |-> FALSE]
     ELSE UNCHANGED aiStatus
  /\ UNCHANGED <<version, ranks, rankCache, aiConfig, enrich, clearingRanks>>

\* A sweep that returns gives up a reservation it, or anyone, still holds.
GiveUp(c) ==
  /\ caller[c].pc = "leave" /\ Answer(c)
  /\ IF c \in Sweeps /\ aiStatus.preparing THEN aiStatus' = [running |-> FALSE, preparing |-> FALSE]
     ELSE UNCHANGED aiStatus
  /\ UNCHANGED <<version, ranks, rankCache, aiConfig, enrich, clearingRanks>>

-----------------------------------------------------------------------------
(* The goroutine, batch by batch, and Service.Rank.                        *)

Ends(c) == enrich' = [enrich EXCEPT ![c] = NotRunning] /\ aiStatus' = [aiStatus EXCEPT !.running = FALSE]
At(c, e) == enrich' = [enrich EXCEPT ![c] = e]
Elsewhere == UNCHANGED <<version, aiConfig, caller, clearingRanks>>

Capped(e) == aiConfig.primary = "ollama" /\ e.used + Cardinality(e.batch) > FallbackLimit

NextBatch(c) ==
  /\ enrich[c].pc = "next"
  /\ IF enrich[c].todo = {} THEN Ends(c)
     ELSE /\ \E b \in enrich[c].todo :
               At(c, [enrich[c] EXCEPT !.todo = @ \ {b}, !.batch = b, !.pieces = {b},
                                         !.pc = IF aiConfig.primary = "openai" THEN "openai" ELSE "check"])
          /\ UNCHANGED aiStatus
  /\ UNCHANGED <<ranks, rankCache>> /\ Elsewhere

\* A host that does not answer, or lacks the model, ends the enrichment: it is
\* no reason to fall back to OpenAI.
CheckOllama(c) ==
  /\ enrich[c].pc = "check"
  /\ \/ At(c, [enrich[c] EXCEPT !.pc = "ollama"]) /\ UNCHANGED aiStatus
     \/ Ends(c)
  /\ UNCHANGED <<ranks, rankCache>> /\ Elsewhere

\* What Ollama failed at goes to OpenAI where that is allowed; if not, the next
\* batch is tried after a rejection, and none after another failure.
OllamaFails(c, rejected) ==
  IF aiConfig.fallback /\ ~Capped(enrich[c])
  THEN At(c, [enrich[c] EXCEPT !.pc = "openai"]) /\ UNCHANGED aiStatus
  ELSE IF rejected THEN At(c, [enrich[c] EXCEPT !.pc = "next"]) /\ UNCHANGED aiStatus
  ELSE Ends(c)

\* A piece of the batch gets three attempts, the last of which decides; one
\* that does not fit the output limit is cut in two.
AskOllama(c) ==
  /\ enrich[c].pc = "ollama"
  /\ \E p \in enrich[c].pieces :
       \/ LET rest == enrich[c].pieces \ {p} IN
          /\ At(c, [enrich[c] EXCEPT !.pieces = rest, !.pc = IF rest = {} THEN "save" ELSE @])
          /\ UNCHANGED aiStatus
       \/ \E rejected \in BOOLEAN : OllamaFails(c, rejected)
       \/ /\ Cardinality(p) >= 2
          /\ \E x \in p : At(c, [enrich[c] EXCEPT !.pieces = (@ \ {p}) \cup {{x}, p \ {x}}])
          /\ UNCHANGED aiStatus
  /\ UNCHANGED <<ranks, rankCache>> /\ Elsewhere

\* Mutant. What OpenAI was asked about is not counted.
Uncounted(e) == [e EXCEPT !.pc = "save", !.spent = @ + Cardinality(e.batch)]

\* "spent" is history: the candidates OpenAI was asked about.
Charged(e) == [e EXCEPT !.pc = "save", !.used = @ + Cardinality(e.batch), !.spent = @ + Cardinality(e.batch)]

\* Two attempts; a failure ends the enrichment, a rejection too.
AskOpenAI(c) ==
  /\ enrich[c].pc = "openai"
  /\ \/ At(c, Charged(enrich[c])) /\ UNCHANGED aiStatus
     \/ Ends(c)
  /\ UNCHANGED <<ranks, rankCache>> /\ Elsewhere

\* SaveDiscoveryAIRanks saves the batch or nothing.
SaveRanks(c) ==
  /\ enrich[c].pc = "save"
  /\ LET e == enrich[c] IN
     \/ /\ ranks' = [x \in Discoverable |-> IF x \in e.batch THEN e.ask.version ELSE ranks[x]]
        /\ At(c, [e EXCEPT !.combined = @ \cup e.batch, !.pc = "cache"]) /\ UNCHANGED aiStatus
     \/ Ends(c) /\ UNCHANGED ranks
  /\ UNCHANGED rankCache /\ Elsewhere

PublishBatch(c) ==
  /\ enrich[c].pc = "cache"
  /\ rankCache' = With(rankCache, enrich[c].ask, enrich[c].combined)
  /\ At(c, [enrich[c] EXCEPT !.pc = "next"])
  /\ UNCHANGED <<ranks, aiStatus>> /\ Elsewhere

-----------------------------------------------------------------------------
(* clearDiscoveryAIRankings looks whether an enrichment runs, deletes the  *)
(* rankings, and drops the cache.                                          *)

ClearRankings ==
  /\ \/ clearingRanks = "new" /\ clearingRanks' = (IF aiStatus.running THEN "over" ELSE "delete") /\ UNCHANGED <<ranks, rankCache>>
     \/ clearingRanks = "delete" /\ clearingRanks' = "drop" /\ ranks' = [x \in Discoverable |-> 0] /\ UNCHANGED rankCache
     \/ clearingRanks = "drop" /\ clearingRanks' = "over" /\ rankCache' = <<>> /\ UNCHANGED ranks
  /\ UNCHANGED <<version, aiStatus, aiConfig, caller, enrich>>

EnrichNext ==
  \/ Revise
  \/ \E c \in Sweeps : Reserve(c)
  \/ \E c \in Callers : Load(c) \/ ReadRanks(c) \/ LookUp(c) \/ Start(c) \/ Publish(c) \/ GiveUp(c)
  \/ \E c \in Callers : NextBatch(c) \/ CheckOllama(c) \/ AskOllama(c) \/ AskOpenAI(c) \/ SaveRanks(c) \/ PublishBatch(c)
  \/ ClearRankings

EnrichSpec == EnrichInit /\ [][EnrichNext]_enrichVars

-----------------------------------------------------------------------------
(* Properties.                                                             *)

Enriching(c) == caller[c].pc = "publish" \/ enrich[c].pc # "off"
Preparing(c) == c \in Sweeps /\ caller[c].pc \in {"load", "ranks", "cache", "start", "leave"}

\* One enrichment runs at a time, and discoveryAIStatus says that one does as
\* long as it does and no longer: whoever set it, a sweep that has yet to find
\* its candidates or the enrichment itself, is still there to take it back.
OneEnrichment ==
  /\ \A c, d \in Callers : Enriching(c) /\ Enriching(d) => c = d
  /\ (\E c \in Callers : Enriching(c)) => aiStatus.running
  /\ aiStatus.running => \E c \in Callers : Enriching(c) \/ Preparing(c)

\* An enrichment by Ollama asks OpenAI about no more candidates than the run
\* may: whatever fails, is rejected or is asked again.
FallbackWithinLimit ==
  aiConfig.primary = "ollama" => \A c \in Callers : enrich[c].spent <= FallbackLimit
=============================================================================
