---------------------------- MODULE BoundedRuntime ----------------------------
(***************************************************************************)
(* createBoundedApplicationRuntime                                         *)
(* (src/src/runtime/bounded-application-runtime.ts): the result cache and  *)
(* the sharing of identical analyses, composed with the execution          *)
(* coordinator that runs them.                                             *)
(*                                                                         *)
(* A request is a member of the call that carries it.  A request that      *)
(* neither hits the cache nor finds an analysis of its key in flight       *)
(* starts a shared operation, which is named after it and which is the     *)
(* member the coordinator runs.  Every other variable of this module is a  *)
(* variable of the closure; origin, which is not, remembers the deployment *)
(* under which an operation was started.                                   *)
(*                                                                         *)
(* What the byte-weighted cache evicts is left open: any set of entries    *)
(* may go when one is added, and a result may be too large to stay.        *)
(***************************************************************************)
EXTENDS AnalysisCoordinator

CONSTANTS Keys,             \* cache keys
          KeyOf,            \* the key of each request
          BuildOfKey,       \* the analysis build a key names
          Deployments,      \* deployment identities
          BuildOf,          \* the analysis build of a deployment
          None

ASSUME RuntimeAssumption ==
  /\ KeyOf \in [Members -> Keys]
  /\ DOMAIN BuildOfKey = Keys
  /\ DOMAIN BuildOf = Deployments
  /\ None \notin Members
  /\ None \notin Deployments

VARIABLES deployment,   \* inner.currentAnalysis()
          known,        \* activeDeploymentIdentity
          generation,   \* cacheGeneration
          cache,        \* analysisCache: the operation behind each entry
          inFlight,     \* analyses
          waiters,      \* shared.waiters
          started,      \* the generation an operation captured at its start
          origin,       \* the deployment it was started under
          abandoned,    \* operations whose controller finishWaiting aborted
          resolved,     \* operations whose then handler has run
          settled,      \* shared.settled
          joined,       \* the operation a request waits for
          answer        \* what a request was answered, "none" before

cacheVars == <<deployment, known, generation, cache>>
operationVars == <<started, origin, abandoned, resolved, settled>>
requestVars == <<joined, answer>>
sharingVars == <<cacheVars, inFlight, waiters, operationVars, requestVars>>
runtimeVars == <<vars, sharingVars>>

RuntimeInit ==
  /\ Init
  /\ deployment \in Deployments
  /\ known = None
  /\ generation = 0
  /\ cache = [k \in Keys |-> None]
  /\ inFlight = [k \in Keys |-> None]
  /\ waiters = [r \in Members |-> 0]
  /\ started = [r \in Members |-> 0]
  /\ origin = [r \in Members |-> None]
  /\ abandoned = {}
  /\ resolved = {}
  /\ settled = {}
  /\ joined = [r \in Members |-> None]
  /\ answer = [r \in Members |-> "none"]

-----------------------------------------------------------------------------
(* Fault: the caches survive a change of the deployment.                   *)
SynchronizeKeepingCache ==
  /\ known' = deployment
  /\ generation' = IF deployment = known THEN generation ELSE generation + 1
  /\ cache' = cache

(* synchronizeActiveDeployment.                                            *)
Synchronize ==
  \/ /\ deployment = known
     /\ UNCHANGED <<known, generation, cache>>
  \/ /\ deployment # known
     /\ known' = deployment
     /\ generation' = generation + 1
     /\ cache' = [k \in Keys |-> None]

(* The requests of a batch that start an operation: the first one of each  *)
(* key that has none in flight.                                            *)
Creators(missing) ==
  {r \in missing : /\ inFlight[KeyOf[r]] = None
                   /\ \A s \in missing : KeyOf[s] = KeyOf[r] => r <= s}

(* The operation a request waits for.                                      *)
Joins(r, missing) ==
  IF inFlight[KeyOf[r]] # None
  THEN inFlight[KeyOf[r]]
  ELSE CHOOSE c \in Creators(missing) : KeyOf[c] = KeyOf[r]

(* Of the accepted requests of a batch: those for another build go to the  *)
(* inner runtime directly, some are in the cache, the others are missing.  *)
Bypassed(accepted) ==
  {r \in accepted : BuildOfKey[KeyOf[r]] # BuildOf[deployment]}
Hits(accepted) ==
  {r \in accepted \ Bypassed(accepted) : cache'[KeyOf[r]] # None}
Missing(accepted) == accepted \ (Bypassed(accepted) \cup Hits(accepted))

(* startSharedOperation for the first request of each key, and             *)
(* waitForSharedOperation for all that miss.                               *)
Share(missing) ==
  /\ inFlight' = [k \in Keys |->
       IF \E c \in Creators(missing) : KeyOf[c] = k
       THEN CHOOSE c \in Creators(missing) : KeyOf[c] = k
       ELSE inFlight[k]]
  /\ joined' = [r \in Members |->
       IF r \in missing THEN Joins(r, missing) ELSE joined[r]]
  /\ waiters' = [o \in Members |->
       waiters[o] + Cardinality({r \in missing : Joins(r, missing) = o})]
  /\ started' = [r \in Members |->
       IF r \in Creators(missing) THEN generation' ELSE started[r]]
  /\ origin' = [r \in Members |->
       IF r \in Creators(missing) THEN deployment ELSE origin[r]]

(* executeAnalysis for every request of call g, then seal: one turn.  Some *)
(* requests are refused at once (aborted, over the rate limit, over the    *)
(* input budget, malformed).                                               *)
Call(g) ==
  /\ state[g] = "collecting"
  /\ \E refused \in SUBSET MembersOf(g) :
       LET accepted == MembersOf(g) \ refused
       IN  /\ IF accepted = {} THEN UNCHANGED <<known, generation, cache>>
                               ELSE Synchronize
           /\ Share(Missing(accepted))
           /\ answer' = [r \in Members |->
                IF r \in refused THEN "refused"
                ELSE IF r \in Bypassed(accepted) THEN "bypass"
                ELSE IF r \in Hits(accepted) THEN "hit"
                ELSE answer[r]]
           /\ Submit(g, Creators(Missing(accepted)))
  /\ UNCHANGED <<deployment, abandoned, resolved, settled>>

-----------------------------------------------------------------------------
Abortable(o) ==
  \/ state[GroupOf[o]] = "queued" /\ o \in roster[GroupOf[o]]
  \/ o \in ToSet(memberQueue)
  \/ o \in worker \ aborted /\ outcome[o] = "none"

(* Fault: the coordinator is not told, only the signal is set.             *)
AbortControllerSilently(o) ==
  /\ aborted' = aborted \cup {o}
  /\ UNCHANGED <<groupVars, memberVars, outcome, timedOut>>

(* shared.controller.abort(): the listeners of the coordinator run, unless *)
(* the member is already aborted or its promise has settled.               *)
AbortController(o) ==
  \/ Abort(o)
  \/ ~ Abortable(o) /\ UNCHANGED vars

(* Fault: whatever is in flight for the key is removed.                    *)
WithoutAnyOperation(o) == [inFlight EXCEPT ![KeyOf[o]] = None]

(* shared.remove(): only the operation's own entry.                        *)
WithoutOperation(o) ==
  [inFlight EXCEPT ![KeyOf[o]] = IF @ = o THEN None ELSE @]

(* Fault: one leaving waiter cancels the analysis for all.                 *)
LeaveCancelling(r) ==
  LET o == joined[r]
  IN  /\ o # None
      /\ answer[r] = "none"
      /\ answer' = [answer EXCEPT ![r] = "cancelled"]
      /\ waiters' = [waiters EXCEPT ![o] = @ - 1]
      /\ o \notin settled
      /\ inFlight' = WithoutOperation(o)
      /\ abandoned' = abandoned \cup {o}
      /\ AbortController(o)
      /\ UNCHANGED <<cacheVars, started, origin, resolved, settled, joined>>

(* onAbort and finishWaiting: the client of a waiting request disconnects. *)
(* The last one to leave a running analysis removes and aborts it.  (The   *)
(* waiters of one batch share a signal and leave one after the other.)     *)
Leave(r) ==
  LET o == joined[r]
  IN  /\ o # None
      /\ answer[r] = "none"
      /\ answer' = [answer EXCEPT ![r] = "cancelled"]
      /\ waiters' = [waiters EXCEPT ![o] = @ - 1]
      /\ \/ /\ waiters[o] = 1
            /\ o \notin settled
            /\ inFlight' = WithoutOperation(o)
            /\ abandoned' = abandoned \cup {o}
            /\ AbortController(o)
         \/ /\ waiters[o] # 1 \/ o \in settled
            /\ UNCHANGED <<inFlight, abandoned, vars>>
      /\ UNCHANGED <<cacheVars, started, origin, resolved, settled, joined>>

(* analysisCache.set(key, result): other entries may have to go.           *)
Stored(o) ==
  {[k \in Keys |-> IF k = KeyOf[o] THEN o
                   ELSE IF k \in evicted THEN None ELSE cache[k]] :
     evicted \in SUBSET Keys}

(* Fault: the promise of an aborted operation never settles.               *)
ResolveUnlessAborted(o) ==
  /\ outcome[o] # "none"
  /\ o \notin resolved \cup aborted
  /\ resolved' = resolved \cup {o}
  /\ UNCHANGED <<vars, deployment, known, generation, cache, inFlight, waiters,
                 started, origin, abandoned, settled, requestVars>>

(* The then handler of the operation.  Only a completed result that is not *)
(* aborted and is of the current generation is admitted to the cache; it   *)
(* may also be incomplete (nothing happens) or larger than the cache (an   *)
(* older entry of the key goes).                                           *)
Resolve(o) ==
  /\ outcome[o] # "none"
  /\ o \notin resolved
  /\ resolved' = resolved \cup {o}
  /\ \/ /\ outcome[o] = "value"
        /\ o \notin aborted \cup abandoned
        /\ started[o] = generation
        /\ cache' \in Stored(o) \cup {[cache EXCEPT ![KeyOf[o]] = None]}
     \/ cache' = cache
  /\ UNCHANGED <<vars, deployment, known, generation, inFlight, waiters,
                 started, origin, abandoned, settled, requestVars>>

(* Its finally handler, a microtask later.                                 *)
Finish(o) ==
  /\ o \in resolved \ settled
  /\ settled' = settled \cup {o}
  /\ inFlight' = WithoutOperation(o)
  /\ UNCHANGED <<vars, cacheVars, waiters, started, origin, abandoned,
                 resolved, requestVars>>

(* The waiter's own then handler, later still.                             *)
Deliver(r) ==
  LET o == joined[r]
  IN  /\ o \in settled
      /\ answer[r] = "none"
      /\ answer' = [answer EXCEPT ![r] = outcome[o]]
      /\ waiters' = [waiters EXCEPT ![o] = @ - 1]
      /\ UNCHANGED <<vars, cacheVars, inFlight, operationVars, joined>>

(* The inner runtime serves another deployment from now on.                *)
Deploy ==
  /\ deployment' \in Deployments \ {deployment}
  /\ UNCHANGED <<vars, known, generation, cache, inFlight, waiters,
                 operationVars, requestVars>>

-----------------------------------------------------------------------------
TimeoutOf(g) == QueueTimeout(g) /\ UNCHANGED sharingVars
ExecutionTimeoutOf(o) == ExecutionTimeout(o) /\ UNCHANGED sharingVars
ReleaseOf(o) == Release(o) /\ UNCHANGED sharingVars
SettleOf(o) ==
  \E result \in {"value", "error"} : Settle(o, result) /\ UNCHANGED sharingVars

RuntimeNext ==
  \/ \E g \in Groups : Call(g) \/ TimeoutOf(g)
  \/ \E r \in Members : \/ Leave(r) \/ Resolve(r) \/ Finish(r) \/ Deliver(r)
                        \/ ExecutionTimeoutOf(r) \/ SettleOf(r) \/ ReleaseOf(r)
  \/ Deploy

RuntimeSpec == RuntimeInit /\ [][RuntimeNext]_runtimeVars

(* As for the coordinator; and microtasks run.                             *)
RuntimeFairness ==
  /\ \A g \in Groups : WF_runtimeVars(TimeoutOf(g))
  /\ \A r \in Members :
       /\ WF_runtimeVars(ExecutionTimeoutOf(r))
       /\ WF_runtimeVars(ReleaseOf(r))
       /\ WF_runtimeVars(r \in aborted /\ SettleOf(r))
       /\ WF_runtimeVars(Resolve(r))
       /\ WF_runtimeVars(Finish(r))
       /\ WF_runtimeVars(Deliver(r))

RuntimeFairSpec == RuntimeSpec /\ RuntimeFairness

-----------------------------------------------------------------------------
WaitersOf(o) == {r \in Members : joined[r] = o /\ answer[r] = "none"}

(* Operations that were started and are neither settled nor given up.      *)
Live == {o \in Members : origin[o] # None /\ o \notin settled \cup abandoned}

(* "A disconnected waiter does not cancel shared work while another waiter *)
(* remains": an operation that was given up has no waiter and can get      *)
(* none, and shared.waiters counts exactly those who wait.                 *)
SharedWorkSurvives ==
  /\ \A o \in Members : waiters[o] = Cardinality(WaitersOf(o))
  /\ \A o \in abandoned : WaitersOf(o) = {} /\ inFlight[KeyOf[o]] # o

(* Identical requests share one computation: there is never a second live  *)
(* operation of a key, although an abandoned one may settle late and       *)
(* remove entries of the map; and no analysis runs for nobody.             *)
OneLiveOperation ==
  /\ \A o \in Members : o \in Live <=> inFlight[KeyOf[o]] = o
  /\ \A o \in Live : waiters[o] > 0

(* A request is served from the cache only with a result of the deployment *)
(* that is active at that moment, however often it changed in between.     *)
HitsAreCurrent ==
  [][\A r \in Members : answer[r] = "none" /\ answer'[r] = "hit"
       => origin[cache'[KeyOf[r]]] = deployment]_runtimeVars

(* The composed system uses the coordinator only as its callers may: every *)
(* step is a step of the coordinator or leaves it alone.                   *)
UsesCoordinator == Spec

(* Every request is answered, whoever else shares its analysis or leaves.  *)
EveryRequestAnswered ==
  \A r \in Members : joined[r] # None ~> answer[r] # "none"
=============================================================================
