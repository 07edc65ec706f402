---------------------------- MODULE PartsProofs ----------------------------
(***************************************************************************)
(* Proofs about components that stand on their own: the DuckDB connection  *)
(* pool, the account requests, the lease and migration of the operational  *)
(* store, the limit on anonymous sources, the source status poller,        *)
(* the candidate market page with its search controls and the opportunity  *)
(* feed, for any number of connections, requests, instances, migrators,    *)
(* records, sources, statuses, visited locations and candidates.           *)
(***************************************************************************)
EXTENDS Integers, DistinctSequences

CONSTANTS Null, Requests, Connections, MaxStatements, Products, Threshold, MaxRequests,
          Instances, Migrators, Records, LeaseSeconds, MaxTime,
          Sources, Paced, Token, Capacity, Refill, MaxSources, Retention, Costs,
          Keys, Weights, MaxBytes, MaxSets, Release, Other, MaxKept, WarnAfter, MaxLoops,
          Inputs, Candidates, Ranking, MaxBuild, MaxVisited, Texts, TooLong,
          Exporters, Filters, CohortOf(_, _), PageLimit

VARIABLES state, connection, aborted, retrying, left, outcome, available, waiters, closed
VARIABLES account, lastId, credential, sessions, tokens, portfolio, audit, req, requested
VARIABLES now, lease, instance, file, sealed, copy, target, migration
VARIABLES steppedBack, buckets, promise, spent, nextStartAt, sent, travelling, refused,
          entries, bytes, recent, sets, deadline
VARIABLES store, polledAt, loop, current, failures, warning, served, kept
VARIABLES server, manifest, inputs, url, visited, restoring, analyzed, status, loaded, resolved,
          selected, market, manifestCall, analysisCall, marketCall
VARIABLES scope, required, pending, due, feed, feedCall
VARIABLES kind, address, told, text, chosen, list, open, note, edited, search, restore

Pool == INSTANCE DuckDbPool
Accounts == INSTANCE AccountAccess
Store == INSTANCE StoreLifecycle
Bounds == INSTANCE RuntimeLimits
Poller == INSTANCE SourceStatusPoller
Discovery == INSTANCE DiscoveryWorkspace
Feed == INSTANCE OpportunityFeed
-----------------------------------------------------------------------------
(* The steps of a request for a connection.                                *)
PoolStates == {"new", "waiting", "granted", "between", "executing", "ended"}

(* Every connection is in one place, every waiter waits once, and a timer  *)
(* interrupts the connection that its own, aborted request holds.          *)
PoolInv ==
  /\ state \in [Requests -> PoolStates]
  /\ connection \in [Requests -> Connections \cup {Null}]
  /\ closed \in BOOLEAN
  /\ available \in Seq(Connections) /\ IsInjective(available)
  /\ waiters \in Seq(Requests) /\ IsInjective(waiters)
  /\ ToSet(waiters) = {r \in Requests : state[r] = "waiting"}
  /\ \A r \in Pool!Holders :
       /\ connection[r] \in Connections /\ connection[r] \notin ToSet(available)
       /\ \A q \in Pool!Holders : connection[q] = connection[r] => q = r
  /\ ~closed => \A c \in Connections :
       c \in ToSet(available) \/ \E r \in Pool!Holders : connection[r] = c
  /\ \A r \in aborted : r \in Requests /\ state[r] # "waiting"
  /\ \A t \in retrying : \E r \in aborted :
       t = <<r, connection[r]>> /\ state[r] \in {"between", "executing"}
  /\ \A r \in Requests : outcome[r] # "interrupted"

(* What the standard modules define is the same in the instance.           *)
LEMMA PoolOperators ==
  /\ \A S : Pool!Cardinality(S) = Cardinality(S) /\ Pool!SetToSeq(S) = SetToSeq(S)
  /\ \A s : Pool!Range(s) = ToSet(s)
  /\ \A s, x : Pool!Without(s, x) = Without(s, x)
<1>1. \A S : Pool!Cardinality(S) = Cardinality(S)
  BY DEF Pool!Cardinality, Cardinality
<1>2. \A S : Pool!SetToSeq(S) = SetToSeq(S)
  BY <1>1, Zenon DEF Pool!SetToSeq, SetToSeq, Pool!IsInjective, IsInjective
<1>3. \A s : Pool!Range(s) = ToSet(s)
  BY DEF Pool!Range, ToSet
<1>4. \A s, x : Pool!Without(s, x) = Without(s, x)
  BY DEF Pool!Without, Without, Pool!RemoveAt, RemoveAt
<1> QED BY <1>1, <1>2, <1>3, <1>4

(* The connections of a new pool, in some order.                           *)
LEMMA SetToSeqElements ==
  ASSUME NEW S, IsFiniteSet(S)
  PROVE  SetToSeq(S) \in Seq(S) /\ IsInjective(SetToSeq(S)) /\ ToSet(SetToSeq(S)) = S
<1> DEFINE n == Cardinality(S)
           f == SetToSeq(S)
<1>1. n \in Nat
  BY FS_CardinalityType
<1>2. ExistsBijection(1..n, S)
  BY <1>1, FS_CountingElements, FS_NatBijection
<1>3. \E g \in [1..n -> S] : IsInjective(g)
  BY <1>2 DEF ExistsBijection, Bijection, Injection, IsInjective
<1>4. f \in [1..n -> S] /\ IsInjective(f)
  BY <1>3 DEF SetToSeq
<1>5. f \in Injection(1..n, S)
  BY <1>4 DEF Injection, IsInjective
<1>6. IsFiniteSet(1..n) /\ Cardinality(1..n) = n
  BY <1>1, FS_Interval
<1>7. f \in Surjection(1..n, S)
  BY <1>5, <1>6, FS_Injection
<1>8. f \in Seq(S)
  BY <1>1, <1>4
<1> QED BY <1>4, <1>7, <1>8 DEF Surjection, ToSet

(* A new pool: every connection is free.                                   *)
LEMMA InitPoolInv ==
  ASSUME IsFiniteSet(Connections), Null # "interrupted", Pool!Init
  PROVE  PoolInv
<1>1. /\ available \in Seq(Connections) /\ IsInjective(available)
      /\ ToSet(available) = Connections
  BY SetToSeqElements, PoolOperators DEF Pool!Init
<1>2. ToSet(<<>>) = {} /\ <<>> \in Seq(Requests) /\ IsInjective(<<>>)
  BY DEF ToSet, IsInjective
<1>3. /\ state = [r \in Requests |-> "new"] /\ connection = [r \in Requests |-> Null]
      /\ outcome = [r \in Requests |-> Null]
      /\ aborted = {} /\ retrying = {} /\ waiters = <<>> /\ closed = FALSE
  BY DEF Pool!Init
<1>4. Pool!Holders = {} /\ {r \in Requests : state[r] = "waiting"} = {}
  BY <1>3 DEF Pool!Holders, Pool!Holding
<1>5. state \in [Requests -> PoolStates] /\ connection \in [Requests -> Connections \cup {Null}]
  BY <1>3 DEF PoolStates
<1> QED BY <1>1, <1>2, <1>3, <1>4, <1>5 DEF PoolInv

(* acquire: the first free connection, or a place in the queue.            *)
LEMMA AcquireKeepsPoolInv ==
  ASSUME PoolInv, NEW r \in Requests, Pool!Acquire(r)
  PROVE  PoolInv'
<1> USE DEF Pool!Holders, Pool!Holding, PoolStates
<1>1. CASE closed \/ r \in aborted
  <2>1. /\ state' = [q \in Requests |-> IF q = r THEN "ended" ELSE state[q]]
        /\ outcome' = [q \in Requests |-> IF q = r THEN IF closed THEN "closed" ELSE "aborted"
                                                  ELSE outcome[q]]
        /\ state[r] = "new"
        /\ UNCHANGED <<connection, aborted, retrying, available, waiters, closed>>
    BY <1>1 DEF Pool!Acquire, Pool!Ended, Pool!Answered
  <2> QED BY <2>1 DEF PoolInv
<1>2. CASE ~closed /\ r \notin aborted /\ available # <<>>
  <2> DEFINE c == Head(available)
  <2>1. /\ state' = [state EXCEPT ![r] = "granted"]
        /\ connection' = [connection EXCEPT ![r] = c]
        /\ available' = Tail(available)
        /\ state[r] = "new"
        /\ UNCHANGED <<outcome, aborted, retrying, waiters, closed>>
    BY <1>2 DEF Pool!Acquire
  <2>2. /\ c \in Connections /\ c \in ToSet(available)
        /\ available' \in Seq(Connections) /\ IsInjective(available')
        /\ ToSet(available') = ToSet(available) \ {c}
    BY <1>2, <2>1, TailElements DEF PoolInv
  <2> HIDE DEF c
  <2> QED BY <2>1, <2>2, <1>2 DEF PoolInv
<1>3. CASE ~closed /\ r \notin aborted /\ available = <<>>
  <2>1. /\ state' = [state EXCEPT ![r] = "waiting"]
        /\ waiters' = Append(waiters, r)
        /\ state[r] = "new"
        /\ UNCHANGED <<connection, outcome, aborted, retrying, available, closed>>
    BY <1>3 DEF Pool!Acquire
  <2>2. /\ waiters' \in Seq(Requests) /\ IsInjective(waiters')
        /\ ToSet(waiters') = ToSet(waiters) \cup {r}
    <3>1. r \notin ToSet(waiters)
      BY <2>1 DEF PoolInv
    <3> QED BY <2>1, <3>1, AppendElements DEF PoolInv
  <2> QED BY <2>1, <2>2, <1>3 DEF PoolInv
<1> QED BY <1>1, <1>2, <1>3 DEF PoolInv

(* The abort listeners: of a waiter, and of a query under way.             *)
LEMMA AbortKeepsPoolInv ==
  ASSUME PoolInv, NEW r \in Requests, Pool!Abort(r)
  PROVE  PoolInv'
<1> USE DEF Pool!Holders, Pool!Holding, PoolStates
<1>1. /\ aborted' = aborted \union {r} /\ UNCHANGED <<connection, available, closed>>
      /\ state[r] # "ended" /\ r \notin aborted
  BY DEF Pool!Abort
<1>2. CASE state[r] = "waiting"
  <2>1. /\ waiters' = Without(waiters, r)
        /\ state' = [q \in Requests |-> IF q = r THEN "ended" ELSE state[q]]
        /\ outcome' = [q \in Requests |-> IF q = r THEN "aborted" ELSE outcome[q]]
        /\ retrying' = retrying
    BY <1>2, PoolOperators DEF Pool!Abort, Pool!Ended, Pool!Answered
  <2>2. /\ waiters' \in Seq(Requests) /\ IsInjective(waiters')
        /\ ToSet(waiters') = ToSet(waiters) \ {r}
    <3>1. /\ r \in ToSet(waiters)
          /\ waiters \in Seq(Requests) /\ IsInjective(waiters)
      BY <1>2 DEF PoolInv
    <3>2. /\ Without(waiters, r) \in Seq(Requests) /\ IsInjective(Without(waiters, r))
          /\ ToSet(Without(waiters, r)) = ToSet(waiters) \ {r}
      BY <3>1, WithoutElements
    <3> QED BY <2>1, <3>2
  <2>3. Pool!Holders' = Pool!Holders
    BY <1>1, <1>2, <2>1 DEF PoolInv
  <2>4. /\ state' \in [Requests -> PoolStates]
        /\ ToSet(waiters') = {q \in Requests : state'[q] = "waiting"}
        /\ \A q \in aborted' : q \in Requests /\ state'[q] # "waiting"
        /\ \A q \in Requests : outcome'[q] # "interrupted"
    BY <1>1, <1>2, <2>1, <2>2 DEF PoolInv
  <2>5. \A t \in retrying' : \E q \in aborted' :
          t = <<q, connection'[q]>> /\ state'[q] \in {"between", "executing"}
    BY <1>1, <1>2, <2>1 DEF PoolInv
  <2> HIDE DEF Pool!Holders
  <2> QED BY <1>1, <2>2, <2>3, <2>4, <2>5 DEF PoolInv
<1>3. CASE state[r] \in {"between", "executing"}
  <2>1. /\ retrying' = retrying \union {<<r, connection[r]>>}
        /\ UNCHANGED <<state, outcome, waiters>>
    BY <1>3 DEF Pool!Abort
  <2> QED BY <1>1, <1>3, <2>1 DEF PoolInv
<1>4. CASE state[r] \in {"new", "granted"}
  <2>1. UNCHANGED <<state, outcome, waiters, retrying>>
    BY <1>4 DEF Pool!Abort
  <2> QED BY <1>1, <1>4, <2>1 DEF PoolInv
<1> QED BY <1>1, <1>2, <1>3, <1>4 DEF PoolInv

(* What happens within a query keeps its connection.                       *)
LEMMA QueryKeepsPoolInv ==
  ASSUME PoolInv, NEW r \in Requests,
         Pool!Enter(r) \/ Pool!Execute(r) \/ Pool!EndStatement(r)
  PROVE  PoolInv'
<1> USE DEF Pool!Holders, Pool!Holding, PoolStates
<1>1. CASE Pool!Enter(r)
  BY <1>1 DEF Pool!Enter, PoolInv
<1>2. CASE Pool!Execute(r)
  BY <1>2 DEF Pool!Execute, PoolInv
<1>3. CASE Pool!EndStatement(r)
  BY <1>3 DEF Pool!EndStatement, PoolInv
<1> QED BY <1>1, <1>2, <1>3

(* withConnection's finally and release: the timer is cleared first, and   *)
(* the connection goes to the waiter in front or back to the free ones.    *)
LEMMA SettleKeepsPoolInv ==
  ASSUME PoolInv, NEW r \in Requests, NEW result, Pool!Settle(r, result),
         state[r] \in {"between", "executing"},
         result = "interrupted" => r \in aborted
  PROVE  PoolInv'
<1> USE DEF Pool!Holders, Pool!Holding, PoolStates
<1> DEFINE c == connection[r]
<1>1. /\ outcome' = [q \in Requests |-> IF q = r THEN IF r \in aborted THEN "aborted" ELSE result
                                                 ELSE outcome[q]]
      /\ retrying' = {t \in retrying : t[1] # r}
      /\ UNCHANGED <<aborted, closed>>
  BY DEF Pool!Settle, Pool!Answered, Pool!TimerCleared
<1>2. \A q \in Requests : outcome'[q] # "interrupted"
  BY <1>1 DEF PoolInv
<1>3. c \in Connections /\ c \notin ToSet(available)
  BY DEF PoolInv
<1>4. CASE ~closed /\ waiters # <<>>
  <2> DEFINE h == Head(waiters)
  <2>1. /\ state' = [q \in Requests |-> IF q = r THEN "ended" ELSE
                                        IF q = h THEN "granted" ELSE state[q]]
        /\ connection' = [q \in Requests |-> IF q = r THEN Null ELSE
                                             IF q = h THEN c ELSE connection[q]]
        /\ waiters' = Tail(waiters) /\ available' = available
    <3> DEFINE next == IF ~closed /\ waiters # <<>> THEN {Head(waiters)} ELSE {}
    <3>1. /\ state' = [q \in Requests |-> CASE q = r -> "ended"
                                            [] q \in next -> "granted"
                                            [] OTHER -> state[q]]
          /\ connection' = [q \in Requests |-> CASE q = r -> Null
                                                 [] q \in next -> c
                                                 [] OTHER -> connection[q]]
          /\ waiters' = Tail(waiters) /\ available' = available
      BY <1>4 DEF Pool!Settle, Pool!Handed
    <3>2. next = {h}
      BY <1>4
    <3>3. h # r
      BY <1>4, TailElements DEF PoolInv
    <3> HIDE DEF next, h
    <3> QED BY <3>1, <3>2, <3>3
  <2>2. /\ h \in Requests /\ h \in ToSet(waiters)
        /\ waiters' \in Seq(Requests) /\ IsInjective(waiters')
        /\ ToSet(waiters') = ToSet(waiters) \ {h}
    BY <1>4, <2>1, TailElements DEF PoolInv
  <2> HIDE DEF h
  <2>3. state[h] = "waiting" /\ h # r /\ h \notin aborted
    BY <2>2 DEF PoolInv
  <2>4. Pool!Holders' = (Pool!Holders \ {r}) \cup {h}
    BY <2>1, <2>2, <2>3 DEF PoolInv
  <2>5. \A k \in Connections : k \in ToSet(available) \/ \E q \in Pool!Holders' : connection'[q] = k
    BY <1>4, <2>1, <2>2, <2>3, <2>4 DEF PoolInv
  <2>6. /\ state' \in [Requests -> PoolStates]
        /\ connection' \in [Requests -> Connections \cup {Null}]
        /\ ToSet(waiters') = {q \in Requests : state'[q] = "waiting"}
        /\ \A q \in aborted' : q \in Requests /\ state'[q] # "waiting"
    BY <1>1, <1>3, <2>1, <2>2, <2>3 DEF PoolInv
  <2>7. \A q \in Pool!Holders' :
          /\ connection'[q] \in Connections /\ connection'[q] \notin ToSet(available)
          /\ \A p \in Pool!Holders' : connection'[p] = connection'[q] => p = q
    BY <1>3, <2>1, <2>2, <2>3, <2>4 DEF PoolInv
  <2>8. \A t \in retrying' : \E q \in aborted' :
          t = <<q, connection'[q]>> /\ state'[q] \in {"between", "executing"}
    BY <1>1, <2>1, <2>3 DEF PoolInv
  <2> QED BY <1>1, <1>2, <1>4, <2>1, <2>2, <2>5, <2>6, <2>7, <2>8 DEF PoolInv
<1>5. CASE closed \/ waiters = <<>>
  <2>1. /\ state' = [q \in Requests |-> IF q = r THEN "ended" ELSE state[q]]
        /\ connection' = [q \in Requests |-> IF q = r THEN Null ELSE connection[q]]
        /\ waiters' = waiters
        /\ available' = IF closed THEN available ELSE Append(available, c)
    BY <1>5 DEF Pool!Settle, Pool!Handed
  <2>2. CASE closed
    BY <1>1, <1>2, <1>3, <2>1, <2>2 DEF PoolInv
  <2>3. CASE ~closed
    <3>1. /\ available' \in Seq(Connections) /\ IsInjective(available')
          /\ ToSet(available') = ToSet(available) \cup {c}
      BY <1>3, <2>1, <2>3, AppendElements DEF PoolInv
    <3>2. Pool!Holders' = Pool!Holders \ {r}
      BY <2>1 DEF PoolInv
    <3>3. \A k \in Connections : k \in ToSet(available') \/ \E q \in Pool!Holders' : connection'[q] = k
      BY <2>1, <2>3, <3>1, <3>2 DEF PoolInv
    <3>4. \A q \in Pool!Holders' :
            /\ connection'[q] \in Connections /\ connection'[q] \notin ToSet(available')
            /\ \A p \in Pool!Holders' : connection'[p] = connection'[q] => p = q
      BY <2>1, <3>1, <3>2 DEF PoolInv
    <3>5. /\ state' \in [Requests -> PoolStates]
          /\ connection' \in [Requests -> Connections \cup {Null}]
          /\ ToSet(waiters') = {q \in Requests : state'[q] = "waiting"}
          /\ \A q \in aborted' : q \in Requests /\ state'[q] # "waiting"
      BY <1>1, <2>1 DEF PoolInv
    <3>6. \A t \in retrying' : \E q \in aborted' :
            t = <<q, connection'[q]>> /\ state'[q] \in {"between", "executing"}
      BY <1>1, <2>1 DEF PoolInv
    <3> QED BY <1>1, <1>2, <2>1, <3>1, <3>3, <3>4, <3>5, <3>6 DEF PoolInv
  <2> QED BY <2>2, <2>3, <1>5
<1> QED BY <1>4, <1>5 DEF PoolInv

(* close refuses the waiters and closes the connections.                   *)
LEMMA CloseKeepsPoolInv ==
  ASSUME PoolInv, Pool!Close
  PROVE  PoolInv'
<1>1. /\ closed' = TRUE /\ waiters' = <<>> /\ available' = <<>>
      /\ state' = [r \in Requests |-> IF r \in ToSet(waiters) THEN "ended"
                                      ELSE IF state[r] = "executing" THEN "between" ELSE state[r]]
      /\ outcome' = [r \in Requests |-> IF r \in ToSet(waiters) THEN "closed" ELSE outcome[r]]
      /\ UNCHANGED <<connection, aborted, retrying>>
  BY PoolOperators DEF Pool!Close, Pool!Answered
<1>2. /\ ToSet(<<>>) = {} /\ <<>> \in Seq(Requests) /\ IsInjective(<<>>)
      /\ <<>> \in Seq(Connections)
  BY DEF ToSet, IsInjective
<1> QED BY <1>1, <1>2 DEF PoolInv, Pool!Holders, Pool!Holding, PoolStates

(* The invariant is inductive.                                             *)
LEMMA NextKeepsPoolInv == PoolInv /\ [Pool!Next]_Pool!vars => PoolInv'
<1> SUFFICES ASSUME PoolInv, [Pool!Next]_Pool!vars PROVE PoolInv'
  OBVIOUS
<1>1. ASSUME NEW r \in Requests, Pool!Finish(r) PROVE PoolInv'
  <2>1. Pool!Settle(r, IF closed THEN "closed" ELSE "ok") /\ state[r] = "between"
    BY <1>1 DEF Pool!Finish
  <2> QED BY <2>1, SettleKeepsPoolInv
<1>2. ASSUME NEW r \in Requests, Pool!Interrupt(r) PROVE PoolInv'
  <2>1. PICK t \in retrying, q \in Requests :
          t[1] = r /\ state[q] = "executing" /\ connection[q] = t[2] /\ Pool!Settle(q, "interrupted")
    BY <1>2 DEF Pool!Interrupt, Pool!Strikes
  <2>2. PICK p \in aborted : t = <<p, connection[p]>> /\ state[p] \in {"between", "executing"}
    BY <2>1 DEF PoolInv
  <2>3. q = p
    BY <2>1, <2>2 DEF PoolInv, Pool!Holders, Pool!Holding
  <2> QED BY <2>1, <2>2, <2>3, SettleKeepsPoolInv
<1>3. CASE UNCHANGED Pool!vars
  BY <1>3 DEF Pool!vars, PoolInv, Pool!Holders
<1> QED BY <1>1, <1>2, <1>3, CloseKeepsPoolInv, AcquireKeepsPoolInv, AbortKeepsPoolInv,
           QueryKeepsPoolInv DEF Pool!Next

(* Counting the places of one connection.                                  *)
LEMMA PoolIsCounted == PoolInv => Pool!PoolAccounting
<1> SUFFICES ASSUME PoolInv, ~closed, NEW c \in Connections
             PROVE  Cardinality({i \in DOMAIN available : available[i] = c})
                    + Cardinality({r \in Pool!Holders : connection[r] = c}) = 1
  BY PoolOperators DEF Pool!PoolAccounting
<1> DEFINE free == {i \in DOMAIN available : available[i] = c}
           held == {r \in Pool!Holders : connection[r] = c}
<1>1. CASE c \in ToSet(available)
  <2>1. PICK i \in DOMAIN available : available[i] = c
    BY <1>1 DEF ToSet
  <2>2. Cardinality(free) = 1
    <3>1. free = {i}
      BY <2>1 DEF PoolInv, IsInjective
    <3> QED BY <3>1, FS_Singleton
  <2>3. Cardinality(held) = 0
    <3>1. held = {}
      BY <1>1 DEF PoolInv
    <3> QED BY <3>1, FS_EmptySet
  <2> QED BY <2>2, <2>3
<1>2. CASE c \notin ToSet(available)
  <2>1. Cardinality(free) = 0
    <3>1. free = {}
      BY <1>2 DEF ToSet
    <3> QED BY <3>1, FS_EmptySet
  <2>2. PICK r \in Pool!Holders : connection[r] = c
    BY <1>2 DEF PoolInv
  <2>3. Cardinality(held) = 1
    <3>1. held = {r}
      BY <2>2 DEF PoolInv
    <3> QED BY <3>1, FS_Singleton
  <2> QED BY <2>1, <2>3
<1> QED BY <1>1, <1>2

(* DuckDbConnectionPool (acquire, release, the abort listeners): while the *)
(* pool is open a connection is free once or held by one request, and the  *)
(* interrupts that an aborted query keeps sending never reach the query    *)
(* that has its connection next.                                           *)
THEOREM ConnectionsAreExact ==
  ASSUME IsFiniteSet(Connections), Null # "interrupted"
  PROVE  Pool!Spec => []Pool!PoolIsSound
<1>1. PoolInv => Pool!PoolIsSound
  BY PoolIsCounted DEF PoolInv, Pool!PoolIsSound, Pool!OnlyOwnInterrupts
<1>2. Pool!Init => PoolInv
  BY InitPoolInv
<1> QED BY <1>1, <1>2, NextKeepsPoolInv, PTL DEF Pool!Spec
-----------------------------------------------------------------------------
(* What a credential, a step and an answer of the store may be.            *)
Credentials == [account : Nat, password : {"first", "second"}, count : Nat,
                lock : {"none", "active", "expired"}]
RequestSteps == {"start", "attempts", "token", "account", "session", "credential", "verifier",
                 "revoke", "list", "write", "audit", "done"}
Readings == {Null} \cup Credentials \cup SUBSET Products
AccountRequests == [op : Accounts!Operations \cup {Null}, at : RequestSteps, account : Nat,
                    seen : Readings]

(* What the store holds: rows of the live account only, tokens that let    *)
(* one request through, and no live account with the trail of a deleted    *)
(* one.                                                                    *)
AccountStoreOK ==
  /\ lastId \in Nat /\ account \in 0..lastId /\ requested \in Nat
  /\ credential = Null <=> account = 0
  /\ credential # Null => credential \in Credentials /\ credential.account = account
  /\ sessions \in SUBSET [account : {account}, number : Nat]
  /\ tokens \in SUBSET [account : {account}, number : Nat, used : 0..1]
  /\ portfolio \in SUBSET [account : {account}, product : Products]
  /\ account = 0 => sessions = {} /\ tokens = {} /\ portfolio = {}
  /\ \A e \in audit : e.kind = "delete" => e.account \in 1..lastId /\ e.account # account

(* What a request has read may be stale, but names an account there was.   *)
RequestOK(q, last) ==
  /\ q \in AccountRequests
  /\ q.at \notin {"start", "done", "audit"} => q.account \in 1..last
  /\ q.at = "attempts" => q.seen \in Credentials /\ q.seen.account = q.account
  /\ q.at = "write" /\ q.op.kind \in {"confirm", "remove"} => q.seen \in SUBSET Products
  /\ q.at # "done" => q.op \in Accounts!Operations
  /\ q.at = "audit" => q.op.kind # "delete"

(* The inductive invariant.                                                *)
AccountInv ==
  /\ AccountStoreOK
  /\ req \in [Requests -> AccountRequests]
  /\ \A r \in Requests : RequestOK(req[r], lastId)

(* A request that goes on, and what is left alone.                         *)
LEMMA RequestMoves ==
  ASSUME AccountInv, NEW r \in Requests, NEW q, req' = [req EXCEPT ![r] = q],
         lastId' \in Nat, lastId <= lastId', RequestOK(q, lastId')
  PROVE  /\ req' \in [Requests -> AccountRequests]
         /\ \A p \in Requests : RequestOK(req'[p], lastId')
<1>1. ASSUME NEW p \in Requests PROVE RequestOK(req[p], lastId')
  <2>1. RequestOK(req[p], lastId) /\ lastId \in Nat
    BY DEF AccountInv, AccountStoreOK
  <2> QED BY <2>1 DEF RequestOK, AccountRequests
<1> QED BY <1>1 DEF AccountInv, RequestOK

(* A step that writes nothing.                                             *)
LEMMA StoreStays ==
  ASSUME AccountInv, UNCHANGED <<Accounts!store, audit>>, requested' \in Nat
  PROVE  AccountStoreOK'
BY DEF AccountInv, AccountStoreOK, Accounts!store

(* A request that is answered, or whose last call adds to the trail of an  *)
(* account that exists or to none.                                         *)
LEMMA RequestEnds ==
  ASSUME AccountInv, NEW r \in Requests, lastId' \in Nat, lastId <= lastId',
         \/ Accounts!Answers(r)
         \/ \E id \in Nat : Accounts!ToAudit(r, id) /\ req[r].at # "done" /\ req[r].op.kind # "delete"
  PROVE  /\ req' \in [Requests -> AccountRequests]
         /\ \A p \in Requests : RequestOK(req'[p], lastId')
<1>0. req \in [Requests -> AccountRequests]
  BY DEF AccountInv
<1>1. CASE Accounts!Answers(r)
  <2> DEFINE q == Accounts!Nothing
  <2>1. q = [op |-> Null, at |-> "done", account |-> 0, seen |-> Null]
    BY DEF Accounts!Nothing, Accounts!Request
  <2>2. RequestOK(q, lastId')
    BY <2>1 DEF RequestOK, AccountRequests, RequestSteps, Readings
  <2>3. req' = [req EXCEPT ![r] = q]
    BY <1>1 DEF Accounts!Answers
  <2> HIDE DEF q
  <2> QED BY <2>2, <2>3, RequestMoves
<1>2. ASSUME NEW id \in Nat, Accounts!ToAudit(r, id), req[r].at # "done", req[r].op.kind # "delete"
      PROVE  /\ req' \in [Requests -> AccountRequests]
             /\ \A p \in Requests : RequestOK(req'[p], lastId')
  <2> DEFINE q == [req[r] EXCEPT !.at = "audit", !.account = id]
  <2>1. req' = [req EXCEPT ![r] = q]
    BY <1>0, <1>2 DEF Accounts!ToAudit
  <2>2. RequestOK(q, lastId')
    <3>1. req[r].op \in Accounts!Operations
      BY <1>2 DEF AccountInv, RequestOK
    <3> QED BY <1>0, <1>2, <3>1 DEF RequestOK, AccountRequests, RequestSteps
  <2> HIDE DEF q
  <2> QED BY <2>1, <2>2, RequestMoves
<1> QED BY <1>1, <1>2

(* What every step has to establish.                                       *)
AccountStep == AccountInv' /\ Accounts!NoLateEvent

(* A request that goes on with nothing written.                            *)
LEMMA NothingWritten ==
  ASSUME AccountInv, UNCHANGED <<Accounts!store, audit>>, requested' \in Nat,
         req' \in [Requests -> AccountRequests],
         \A p \in Requests : RequestOK(req'[p], lastId)
  PROVE  AccountStep
<1>1. AccountStoreOK'
  BY StoreStays
<1>2. lastId' = lastId /\ audit' = audit
  BY DEF Accounts!store
<1> QED BY <1>1, <1>2 DEF AccountStep, AccountInv, Accounts!NoLateEvent

(* A request that is refused.                                              *)
LEMMA FailsKeeps ==
  ASSUME AccountInv, NEW r \in Requests, Accounts!Fails(r), UNCHANGED requested
  PROVE  AccountStep
<1>1. lastId' = lastId /\ lastId \in Nat /\ requested \in Nat
  BY DEF Accounts!Fails, Accounts!store, AccountInv, AccountStoreOK
<1>2. /\ req' \in [Requests -> AccountRequests]
      /\ \A p \in Requests : RequestOK(req'[p], lastId)
  BY <1>1, RequestEnds DEF Accounts!Fails
<1> QED BY <1>1, <1>2, NothingWritten DEF Accounts!Fails

(* The last call of a request adds to the trail of an account that exists. *)
LEMMA AuditKeeps ==
  ASSUME AccountInv, NEW r \in Requests, Accounts!Audit(r), UNCHANGED requested
  PROVE  AccountStep
<1>1. CASE Accounts!Fails(r)
  BY <1>1, FailsKeeps
<1>2. CASE ~Accounts!Fails(r)
  <2> DEFINE e == [account |-> req[r].account, kind |-> req[r].op.kind]
  <2>1. /\ req[r].account = 0 \/ account = req[r].account
        /\ audit' = audit \union {e}
        /\ Accounts!Answers(r) /\ UNCHANGED Accounts!store
        /\ req[r].at = "audit"
    BY <1>2 DEF Accounts!Audit, Accounts!RequireAccount
  <2>2. req[r].op.kind # "delete"
    BY <2>1 DEF AccountInv, RequestOK
  <2>3. lastId' = lastId /\ lastId \in Nat
    BY <2>1 DEF Accounts!store, AccountInv, AccountStoreOK
  <2>4. /\ req' \in [Requests -> AccountRequests]
        /\ \A p \in Requests : RequestOK(req'[p], lastId')
    BY <2>1, <2>3, RequestEnds
  <2>5. AccountStoreOK'
    BY <2>1, <2>2 DEF AccountInv, AccountStoreOK, Accounts!store
  <2>6. Accounts!NoLateEvent
    <3>1. \A d \in audit : d.kind = "delete" => d.account # e.account
      BY <2>1 DEF AccountInv, AccountStoreOK
    <3> QED BY <2>1, <3>1 DEF Accounts!NoLateEvent
  <2> QED BY <2>4, <2>5, <2>6 DEF AccountStep, AccountInv
<1> QED BY <1>1, <1>2

(* A new account has a number that was never used.                         *)
LEMMA RegisterKeeps ==
  ASSUME AccountInv, Null \notin Credentials,
         NEW r \in Requests, Accounts!Register(r), UNCHANGED requested
  PROVE  AccountStep
<1>0. lastId \in Nat /\ requested \in Nat /\ req[r].at = "start" /\ req[r].op.kind # "delete"
  BY DEF AccountInv, AccountStoreOK, Accounts!Register, Accounts!At
<1>1. CASE credential # Null
  <2>1. Accounts!Answers(r) /\ UNCHANGED <<Accounts!store, audit>>
    BY <1>1 DEF Accounts!Register
  <2> QED BY <2>1, FailsKeeps DEF Accounts!Fails
<1>2. CASE credential = Null
  <2>1. /\ lastId' = lastId + 1 /\ account' = lastId'
        /\ credential' = [account |-> lastId', password |-> "first", count |-> 0, lock |-> "none"]
        /\ Accounts!ToAudit(r, lastId')
        /\ UNCHANGED <<sessions, tokens, portfolio, audit>>
    BY <1>2 DEF Accounts!Register, Accounts!Credential
  <2>2. /\ req' \in [Requests -> AccountRequests]
        /\ \A p \in Requests : RequestOK(req'[p], lastId')
    BY <1>0, <2>1, RequestEnds
  <2>3. account = 0 /\ sessions = {} /\ tokens = {} /\ portfolio = {}
    BY <1>2 DEF AccountInv, AccountStoreOK
  <2>4. credential' \in Credentials
    BY <1>0, <2>1 DEF Credentials
  <2>5. AccountStoreOK'
    BY <1>0, <2>1, <2>3, <2>4 DEF AccountInv, AccountStoreOK
  <2> QED BY <2>1, <2>2, <2>5 DEF AccountStep, AccountInv, Accounts!NoLateEvent
<1> QED BY <1>1, <1>2

(* The calls that only read.                                               *)
LEMMA ReadsKeep ==
  ASSUME AccountInv, NEW r \in Requests, UNCHANGED requested,
         \/ Accounts!FindCredential(r) \/ Accounts!FindAccount(r)
         \/ Accounts!FindCredentialByAccount(r) \/ Accounts!ListProducts(r)
  PROVE  AccountStep
<1>0. /\ req \in [Requests -> AccountRequests] /\ RequestOK(req[r], lastId)
      /\ lastId \in Nat /\ requested \in Nat /\ account \in Nat
  BY DEF AccountInv, AccountStoreOK
<1>1. UNCHANGED <<Accounts!store, audit>> /\ lastId' = lastId
  BY DEF Accounts!FindCredential, Accounts!FindAccount, Accounts!FindCredentialByAccount,
         Accounts!ListProducts, Accounts!store
<1>2. ASSUME NEW q, req' = [req EXCEPT ![r] = q], RequestOK(q, lastId) PROVE AccountStep
  <2>1. RequestOK(q, lastId') /\ lastId' \in Nat /\ lastId <= lastId'
    BY <1>0, <1>1, <1>2
  <2>2. /\ req' \in [Requests -> AccountRequests]
        /\ \A p \in Requests : RequestOK(req'[p], lastId')
    BY <1>2, <2>1, RequestMoves
  <2> QED BY <1>0, <1>1, <2>2, NothingWritten
<1>3. ASSUME NEW id \in Nat, Accounts!ToAudit(r, id), req[r].at # "done", req[r].op.kind # "delete"
      PROVE  AccountStep
  BY <1>0, <1>1, <1>3, RequestEnds, NothingWritten
<1>4. ASSUME Accounts!Answers(r) PROVE AccountStep
  BY <1>0, <1>1, <1>4, RequestEnds, NothingWritten
<1>5. CASE Accounts!FindCredential(r)
  <2>1. req[r].at = "start" /\ req[r].op.kind \in {"signIn", "issue"}
    BY <1>5 DEF Accounts!FindCredential, Accounts!At
  <2>2. credential # Null => credential \in Credentials /\ credential.account \in 1..lastId
    BY DEF AccountInv, AccountStoreOK
  <2>3. CASE Accounts!ToAudit(r, 0)
    BY <1>3, <2>1, <2>3
  <2>4. CASE credential # Null /\ Accounts!ToAudit(r, credential.account)
    BY <1>0, <1>3, <2>1, <2>2, <2>4
  <2>5. ASSUME credential # Null, NEW at \in {"attempts", "token"},
               req' = [req EXCEPT ![r].at = at,
                                  ![r].account = credential.account, ![r].seen = credential]
        PROVE  AccountStep
    <3> DEFINE q == [req[r] EXCEPT !.at = at, !.account = credential.account, !.seen = credential]
    <3>1. req' = [req EXCEPT ![r] = q]
      BY <1>0, <2>5
    <3>2. q \in AccountRequests
      <4>1. credential \in Readings /\ credential.account \in Nat
        BY <1>0, <2>2, <2>5 DEF Readings
      <4> QED BY <1>0, <2>5, <4>1 DEF AccountRequests, RequestSteps
    <3>3. /\ q.at = at /\ q.account = credential.account /\ q.seen = credential
          /\ q.op = req[r].op
      BY <1>0 DEF AccountRequests
    <3>4. RequestOK(q, lastId)
      <4> HIDE DEF q
      <4> QED BY <1>0, <2>1, <2>2, <2>5, <3>2, <3>3 DEF RequestOK
    <3> HIDE DEF q
    <3> QED BY <1>2, <3>1, <3>4
  <2> QED BY <1>5, <2>3, <2>4, <2>5 DEF Accounts!FindCredential
<1>6. CASE Accounts!FindAccount(r)
  <2>1. req[r].at = "account" /\ req[r].op.kind = "signIn"
    BY <1>6 DEF Accounts!FindAccount, Accounts!At
  <2>2. CASE Accounts!ToAudit(r, 0)
    BY <1>3, <2>1, <2>2
  <2>3. CASE Accounts!Goes(r, "session")
    <3> DEFINE q == [req[r] EXCEPT !.at = "session"]
    <3>1. req' = [req EXCEPT ![r] = q]
      BY <1>0, <2>3 DEF Accounts!Goes
    <3>2. RequestOK(q, lastId)
      BY <1>0, <2>1 DEF RequestOK, AccountRequests, RequestSteps
    <3> HIDE DEF q
    <3> QED BY <1>2, <3>1, <3>2
  <2> QED BY <1>6, <2>2, <2>3 DEF Accounts!FindAccount
<1>7. CASE Accounts!FindCredentialByAccount(r)
  <2>1. req[r].at = "credential" /\ req[r].op.kind = "recover"
    BY <1>7 DEF Accounts!FindCredentialByAccount, Accounts!At
  <2>2. CASE Accounts!Answers(r)
    BY <1>4, <2>2
  <2>3. CASE Accounts!Goes(r, "verifier")
    <3> DEFINE q == [req[r] EXCEPT !.at = "verifier"]
    <3>1. req' = [req EXCEPT ![r] = q]
      BY <1>0, <2>3 DEF Accounts!Goes
    <3>2. RequestOK(q, lastId)
      BY <1>0, <2>1 DEF RequestOK, AccountRequests, RequestSteps
    <3> HIDE DEF q
    <3> QED BY <1>2, <3>1, <3>2
  <2> QED BY <1>7, <2>2, <2>3 DEF Accounts!FindCredentialByAccount
<1>8. CASE Accounts!ListProducts(r)
  <2> DEFINE rows == {e.product : e \in portfolio}
             q == [req[r] EXCEPT !.at = "write", !.seen = rows]
  <2>1. req[r].at = "list"
    BY <1>8 DEF Accounts!ListProducts, Accounts!At
  <2>2. rows \in SUBSET Products
    BY DEF AccountInv, AccountStoreOK
  <2>3. req' = [req EXCEPT ![r] = q]
    BY <1>0, <1>8 DEF Accounts!ListProducts
  <2> HIDE DEF rows
  <2>4. RequestOK(q, lastId)
    <3>1. rows \in Readings
      BY <2>2 DEF Readings
    <3> QED BY <1>0, <2>1, <2>2, <3>1 DEF RequestOK, AccountRequests, RequestSteps
  <2> HIDE DEF q
  <2> QED BY <1>2, <2>3, <2>4
<1> QED BY <1>5, <1>6, <1>7, <1>8

(* A call that writes rows of the live account, and the request after it.  *)
LEMMA Written ==
  ASSUME AccountInv, NEW r \in Requests, UNCHANGED <<lastId, audit>>, AccountStoreOK',
         \/ Accounts!Answers(r)
         \/ \E id \in Nat : Accounts!ToAudit(r, id) /\ req[r].at # "done" /\ req[r].op.kind # "delete"
         \/ \E at \in {"revoke", "account"} : Accounts!Goes(r, at) /\ req[r].at \in {"verifier", "attempts"}
  PROVE  AccountStep
<1>0. /\ req \in [Requests -> AccountRequests] /\ RequestOK(req[r], lastId)
      /\ lastId \in Nat /\ lastId' = lastId
  BY DEF AccountInv, AccountStoreOK
<1>1. CASE \/ Accounts!Answers(r)
           \/ \E id \in Nat : Accounts!ToAudit(r, id) /\ req[r].at # "done" /\ req[r].op.kind # "delete"
  <2>1. /\ req' \in [Requests -> AccountRequests]
        /\ \A p \in Requests : RequestOK(req'[p], lastId')
    BY <1>0, <1>1, RequestEnds
  <2> QED BY <2>1 DEF AccountStep, AccountInv, Accounts!NoLateEvent
<1>2. ASSUME NEW at \in {"revoke", "account"}, Accounts!Goes(r, at),
             req[r].at \in {"verifier", "attempts"}
      PROVE  AccountStep
  <2> DEFINE q == [req[r] EXCEPT !.at = at]
  <2>1. req' = [req EXCEPT ![r] = q]
    BY <1>0, <1>2 DEF Accounts!Goes
  <2>2. RequestOK(q, lastId')
    BY <1>0, <1>2 DEF RequestOK, AccountRequests, RequestSteps
  <2> HIDE DEF q
  <2>3. /\ req' \in [Requests -> AccountRequests]
        /\ \A p \in Requests : RequestOK(req'[p], lastId')
    <3>1. lastId' \in Nat /\ lastId <= lastId'
      BY <1>0
    <3> QED BY <2>1, <2>2, <3>1, RequestMoves
  <2> QED BY <2>3 DEF AccountStep, AccountInv, Accounts!NoLateEvent
<1> QED BY <1>1, <1>2

(* The credential is written back from what was read.                      *)
LEMMA AttemptsKeeps ==
  ASSUME AccountInv, Null \notin Credentials,
         NEW r \in Requests, Accounts!Attempts(r), UNCHANGED requested
  PROVE  AccountStep
<1> DEFINE seen == req[r].seen
           count == (IF seen.lock = "expired" THEN 0 ELSE seen.count) + 1
<1>0. req[r].at = "attempts" /\ req[r].op.kind = "signIn"
  BY DEF Accounts!Attempts, Accounts!At
<1>1. seen \in Credentials /\ seen.account \in Nat /\ count \in Nat
  BY <1>0 DEF AccountInv, RequestOK, Credentials
<1>2. CASE Accounts!Fails(r)
  BY <1>2, FailsKeeps
<1>3. CASE ~Accounts!Fails(r)
  <2>1. /\ account = seen.account /\ credential # Null
        /\ UNCHANGED <<account, lastId, sessions, tokens, portfolio, audit>>
        /\ \E n \in {0, count}, l \in {"none", "active"} :
              credential' = [credential EXCEPT !.count = n, !.lock = l]
        /\ Accounts!Goes(r, "account") \/ Accounts!ToAudit(r, seen.account)
    BY <1>3 DEF Accounts!Attempts, Accounts!RequireAccount
  <2>2. credential \in Credentials /\ credential.account = account
    BY <2>1 DEF AccountInv, AccountStoreOK
  <2>3. credential' \in Credentials /\ credential'.account = account
    <3> HIDE DEF count
    <3>1. PICK n \in {0, count}, l \in {"none", "active"} :
            credential' = [credential EXCEPT !.count = n, !.lock = l]
      BY <2>1
    <3>2. n \in Nat
      BY <1>1
    <3> QED BY <2>2, <3>1, <3>2 DEF Credentials
  <2>4. AccountStoreOK'
    BY <2>1, <2>2, <2>3 DEF AccountInv, AccountStoreOK
  <2> HIDE DEF seen
  <2> QED BY <1>0, <1>1, <2>1, <2>4, Written
<1> QED BY <1>2, <1>3

(* A session or a token is created for the live account only.              *)
LEMMA CreateSessionKeeps ==
  ASSUME AccountInv, NEW r \in Requests, UNCHANGED requested,
         Accounts!CreateSession(r) \/ Accounts!IssueToken(r)
  PROVE  AccountStep
<1>0. /\ req[r].at \in {"session", "token"} /\ req[r].op.kind \in {"signIn", "issue"}
      /\ req[r].account \in 1..lastId /\ lastId \in Nat /\ requested \in Nat
  BY DEF Accounts!CreateSession, Accounts!IssueToken, Accounts!At, AccountInv, AccountStoreOK,
         RequestOK
<1>1. CASE Accounts!Fails(r)
  BY <1>1, FailsKeeps
<1>2. CASE ~Accounts!Fails(r)
  <2>1. /\ account = req[r].account
        /\ Accounts!ToAudit(r, req[r].account)
        /\ UNCHANGED <<account, lastId, credential, portfolio, audit>>
        /\ \/ /\ sessions' = sessions \union {[account |-> account, number |-> requested]}
              /\ tokens' = tokens
           \/ /\ tokens' = tokens \union {[account |-> account, number |-> requested, used |-> 0]}
              /\ sessions' = sessions
    BY <1>2 DEF Accounts!CreateSession, Accounts!IssueToken, Accounts!RequireAccount
  <2>2. AccountStoreOK'
    BY <1>0, <2>1 DEF AccountInv, AccountStoreOK
  <2> QED BY <1>0, <2>1, <2>2, Written
<1> QED BY <1>1, <1>2

(* A token is consumed before anything else is done for its request.       *)
LEMMA ConsumeTokenKeeps ==
  ASSUME AccountInv, NEW r \in Requests, Accounts!ConsumeToken(r), UNCHANGED requested
  PROVE  AccountStep
<1>0. /\ req \in [Requests -> AccountRequests] /\ RequestOK(req[r], lastId)
      /\ lastId \in Nat /\ account \in 0..lastId
      /\ req[r].at = "start" /\ req[r].op.kind = "recover"
  BY DEF AccountInv, AccountStoreOK, Accounts!ConsumeToken, Accounts!At
<1>1. CASE Accounts!Answers(r) /\ UNCHANGED <<Accounts!store, audit>>
  BY <1>1, FailsKeeps DEF Accounts!Fails
<1>2. ASSUME NEW t \in tokens, Accounts!Consumable(t),
             tokens' = (tokens \ {t}) \union {[t EXCEPT !.used = @ + 1]},
             req' = [req EXCEPT ![r].at = "credential", ![r].account = t.account],
             UNCHANGED <<account, lastId, credential, sessions, portfolio, audit>>
      PROVE  AccountStep
  <2>1. /\ t \in [account : {account}, number : Nat, used : 0..1] /\ t.used = 0
        /\ account # 0
    BY <1>2 DEF AccountInv, AccountStoreOK, Accounts!Consumable
  <2>2. [t EXCEPT !.used = @ + 1] \in [account : {account}, number : Nat, used : 0..1]
    BY <2>1
  <2>3. AccountStoreOK'
    BY <1>2, <2>1, <2>2 DEF AccountInv, AccountStoreOK
  <2> DEFINE id == t.account
             q == [req[r] EXCEPT !.at = "credential", !.account = id]
  <2>4. req' = [req EXCEPT ![r] = q]
    BY <1>0, <1>2
  <2>5. RequestOK(q, lastId')
    <3>1. id \in 1..lastId /\ id \in Nat
      BY <1>0, <2>1
    <3> HIDE DEF id
    <3>2. q \in AccountRequests /\ q.at = "credential" /\ q.op = req[r].op /\ q.account = id
      BY <1>0, <3>1 DEF AccountRequests, RequestSteps
    <3> HIDE DEF q
    <3> QED BY <1>0, <1>2, <3>1, <3>2 DEF RequestOK
  <2> HIDE DEF q
  <2>6. /\ req' \in [Requests -> AccountRequests]
        /\ \A p \in Requests : RequestOK(req'[p], lastId')
    <3>1. lastId' \in Nat /\ lastId <= lastId'
      BY <1>0, <1>2
    <3> QED BY <2>4, <2>5, <3>1, RequestMoves
  <2> QED BY <1>2, <2>3, <2>6 DEF AccountStep, AccountInv, Accounts!NoLateEvent
<1> QED BY <1>1, <1>2 DEF Accounts!ConsumeToken

(* The verifier and the sessions of the live account.                      *)
LEMMA RecoverKeeps ==
  ASSUME AccountInv, Null \notin Credentials, NEW r \in Requests, UNCHANGED requested,
         Accounts!UpdateVerifier(r) \/ Accounts!RevokeSessions(r)
  PROVE  AccountStep
<1>0. /\ req[r].at \in {"verifier", "revoke"} /\ req[r].op.kind = "recover"
      /\ req[r].account \in Nat
  BY DEF Accounts!UpdateVerifier, Accounts!RevokeSessions, Accounts!At, AccountInv, AccountRequests
<1>1. CASE Accounts!Fails(r)
  BY <1>1, FailsKeeps
<1>2. CASE Accounts!UpdateVerifier(r) /\ ~Accounts!Fails(r)
  <2>1. /\ credential # Null /\ req[r].at = "verifier"
        /\ credential' = [account |-> credential.account, password |-> "second",
                          count |-> 0, lock |-> "none"]
        /\ Accounts!Goes(r, "revoke")
        /\ UNCHANGED <<account, lastId, sessions, tokens, portfolio, audit>>
    BY <1>2 DEF Accounts!UpdateVerifier, Accounts!Credential, Accounts!At
  <2>2. credential' \in Credentials /\ credential'.account = credential.account
    BY <2>1 DEF Credentials, AccountInv, AccountStoreOK
  <2>3. AccountStoreOK'
    BY <2>1, <2>2 DEF AccountInv, AccountStoreOK
  <2> QED BY <2>1, <2>3, Written
<1>3. CASE Accounts!RevokeSessions(r) /\ ~Accounts!Fails(r)
  <2>1. /\ sessions' = Accounts!Revoked(req[r].account)
        /\ Accounts!ToAudit(r, req[r].account)
        /\ UNCHANGED <<account, lastId, credential, tokens, portfolio, audit>>
    BY <1>3 DEF Accounts!RevokeSessions
  <2>2. AccountStoreOK'
    BY <2>1 DEF AccountInv, AccountStoreOK, Accounts!Revoked
  <2> QED BY <1>0, <2>1, <2>2, Written
<1> QED BY <1>1, <1>2, <1>3

(* Sign-out revokes the session it came with; a request about the account  *)
(* goes on with the account of its session.                                *)
LEMMA ResolveSessionKeeps ==
  ASSUME AccountInv, NEW r \in Requests, Accounts!ResolveSession(r), UNCHANGED requested
  PROVE  AccountStep
<1>0. /\ req \in [Requests -> AccountRequests] /\ RequestOK(req[r], lastId)
      /\ lastId \in Nat /\ account \in 0..lastId /\ req[r].at = "start"
  BY DEF AccountInv, AccountStoreOK, Accounts!ResolveSession, Accounts!At
<1>1. CASE Accounts!Answers(r) /\ UNCHANGED <<Accounts!store, audit>>
  BY <1>1, FailsKeeps DEF Accounts!Fails
<1>2. ASSUME NEW s \in sessions, sessions' = sessions \ {s}, Accounts!Answers(r),
             UNCHANGED <<account, lastId, credential, tokens, portfolio, audit>>
      PROVE  AccountStep
  <2>1. AccountStoreOK'
    BY <1>2 DEF AccountInv, AccountStoreOK
  <2> QED BY <1>2, <2>1, Written
<1>3. ASSUME NEW s \in sessions, UNCHANGED <<Accounts!store, audit>>,
             req' = [req EXCEPT ![r].at = IF req[r].op.kind \in {"confirm", "remove"}
                                          THEN "list" ELSE "write",
                                ![r].account = s.account]
      PROVE  AccountStep
  <2> DEFINE id == s.account
             at == IF req[r].op.kind \in {"confirm", "remove"} THEN "list" ELSE "write"
             q == [req[r] EXCEPT !.at = at, !.account = id]
  <2>1. id \in 1..lastId /\ id \in Nat
    BY <1>0 DEF AccountInv, AccountStoreOK
  <2>2. req' = [req EXCEPT ![r] = q]
    BY <1>0, <1>3
  <2>3. at \in {"list", "write"} /\ (at = "write" => req[r].op.kind \notin {"confirm", "remove"})
    OBVIOUS
  <2> HIDE DEF id, at
  <2>4. RequestOK(q, lastId)
    <3>1. q \in AccountRequests /\ q.at = at /\ q.op = req[r].op /\ q.account = id
      BY <1>0, <2>1, <2>3 DEF AccountRequests, RequestSteps
    <3> HIDE DEF q
    <3> QED BY <1>0, <2>1, <2>3, <3>1 DEF RequestOK
  <2> HIDE DEF q
  <2>5. lastId' = lastId /\ lastId' \in Nat /\ lastId <= lastId' /\ requested' \in Nat
    BY <1>0, <1>3 DEF Accounts!store, AccountInv, AccountStoreOK
  <2>6. /\ req' \in [Requests -> AccountRequests]
        /\ \A p \in Requests : RequestOK(req'[p], lastId')
    BY <2>2, <2>4, <2>5, RequestMoves
  <2> QED BY <1>3, <2>5, <2>6, NothingWritten
<1> QED BY <1>1, <1>2, <1>3 DEF Accounts!ResolveSession

(* The list as it was read, one edit further, for the live account.        *)
LEMMA ConfirmPortfolioKeeps ==
  ASSUME AccountInv, NEW r \in Requests, Accounts!ConfirmPortfolio(r), UNCHANGED requested
  PROVE  AccountStep
<1>0. /\ req[r].at = "write" /\ req[r].op.kind \in {"confirm", "remove"}
      /\ req[r].account \in 1..lastId /\ lastId \in Nat /\ RequestOK(req[r], lastId)
  BY DEF Accounts!ConfirmPortfolio, Accounts!At, AccountInv, AccountStoreOK, RequestOK
<1>1. CASE Accounts!Fails(r)
  BY <1>1, FailsKeeps
<1>2. CASE ~Accounts!Fails(r)
  <2>1. /\ account = req[r].account
        /\ portfolio' = {[account |-> req[r].account, product |-> p] : p \in Accounts!Edited(r)}
        /\ Accounts!ToAudit(r, req[r].account)
        /\ UNCHANGED <<account, lastId, credential, sessions, tokens, audit>>
    BY <1>2 DEF Accounts!ConfirmPortfolio, Accounts!RequireAccount
  <2>2. Accounts!Edited(r) \in SUBSET Products
    <3>1. req[r].op \in Accounts!Operations /\ req[r].seen \in SUBSET Products
      BY <1>0 DEF RequestOK
    <3>2. req[r].op.kind = "confirm" => req[r].op.product \in Products
      BY <3>1 DEF Accounts!Operations, Accounts!Passwords
    <3> QED BY <3>1, <3>2 DEF Accounts!Edited
  <2>3. AccountStoreOK'
    BY <1>0, <2>1, <2>2 DEF AccountInv, AccountStoreOK
  <2> QED BY <1>0, <2>1, <2>3, Written
<1> QED BY <1>1, <1>2

(* The default exporter, of the live account only.                         *)
LEMMA SetExporterKeeps ==
  ASSUME AccountInv, NEW r \in Requests, Accounts!SetExporter(r), UNCHANGED requested
  PROVE  AccountStep
<1>1. CASE Accounts!Fails(r)
  BY <1>1, FailsKeeps
<1>2. CASE ~Accounts!Fails(r)
  <2>1. /\ Accounts!ToAudit(r, req[r].account) /\ UNCHANGED <<Accounts!store, audit>>
        /\ req[r].at = "write" /\ req[r].op.kind = "setExporter" /\ req[r].account \in Nat
    BY <1>2 DEF Accounts!SetExporter, Accounts!At, AccountInv, AccountRequests
  <2>2. requested' \in Nat
    BY DEF AccountInv, AccountStoreOK
  <2>3. AccountStoreOK'
    BY <2>1, <2>2, StoreStays
  <2> QED BY <2>1, <2>3, Written DEF Accounts!store
<1> QED BY <1>1, <1>2

(* Everything of the account goes, and its trail ends.                     *)
LEMMA DeleteKeeps ==
  ASSUME AccountInv, NEW r \in Requests, Accounts!Delete(r), UNCHANGED requested
  PROVE  AccountStep
<1>1. CASE Accounts!Fails(r)
  BY <1>1, FailsKeeps
<1>2. CASE ~Accounts!Fails(r)
  <2> DEFINE e == [account |-> account, kind |-> "delete"]
  <2>1. /\ account = req[r].account
        /\ account' = 0 /\ credential' = Null
        /\ sessions' = {} /\ tokens' = {} /\ portfolio' = {}
        /\ audit' = audit \union {e}
        /\ Accounts!Answers(r) /\ UNCHANGED lastId
    BY <1>2 DEF Accounts!Delete
  <2>2. account \in 1..lastId /\ lastId \in Nat
    BY <2>1 DEF AccountInv, AccountStoreOK, RequestOK, Accounts!Delete, Accounts!At
  <2>3. AccountStoreOK'
    BY <2>1, <2>2 DEF AccountInv, AccountStoreOK
  <2>4. Accounts!NoLateEvent
    BY <2>1 DEF Accounts!NoLateEvent, AccountInv, AccountStoreOK
  <2>5. /\ req' \in [Requests -> AccountRequests]
        /\ \A p \in Requests : RequestOK(req'[p], lastId')
    BY <2>1, <2>2, RequestEnds
  <2> QED BY <2>3, <2>4, <2>5 DEF AccountStep, AccountInv
<1> QED BY <1>1, <1>2

(* A request arrives and has read nothing yet.                             *)
LEMMA ArriveKeeps ==
  ASSUME AccountInv, NEW r \in Requests, NEW op \in Accounts!Operations, Accounts!Arrive(r, op)
  PROVE  AccountStep
<1> DEFINE q == Accounts!Request(op)
<1>1. /\ req' = [req EXCEPT ![r] = q] /\ requested' = requested + 1
      /\ UNCHANGED <<Accounts!store, audit>>
  BY DEF Accounts!Arrive
<1>2. q = [op |-> op, at |-> "start", account |-> 0, seen |-> Null]
  BY DEF Accounts!Request
<1> HIDE DEF q
<1>3. RequestOK(q, lastId)
  BY <1>2 DEF RequestOK, AccountRequests, RequestSteps, Readings
<1>4. lastId' = lastId /\ lastId' \in Nat /\ lastId <= lastId' /\ requested' \in Nat
  BY <1>1 DEF Accounts!store, AccountInv, AccountStoreOK
<1>5. /\ req' \in [Requests -> AccountRequests]
      /\ \A p \in Requests : RequestOK(req'[p], lastId')
  BY <1>1, <1>3, <1>4, RequestMoves
<1> QED BY <1>1, <1>4, <1>5, NothingWritten

(* Locks, sessions and tokens run out.                                     *)
LEMMA ExpireKeeps ==
  ASSUME AccountInv, Null \notin Credentials, Accounts!Expire
  PROVE  AccountStep
<1>1. UNCHANGED <<account, lastId, portfolio, audit, req, requested>>
  BY DEF Accounts!Expire
<1>2. AccountStoreOK'
  <2>1. CASE credential # Null /\ credential' = [credential EXCEPT !.lock = "expired"]
             /\ UNCHANGED <<sessions, tokens>>
    <3>1. credential \in Credentials /\ credential.account = account
      BY <2>1 DEF AccountInv, AccountStoreOK
    <3>2. credential' \in Credentials /\ credential'.account = account
      BY <2>1, <3>1 DEF Credentials
    <3> QED BY <1>1, <2>1, <3>1, <3>2 DEF AccountInv, AccountStoreOK
  <2>2. CASE credential' = credential /\ sessions' \in SUBSET sessions /\ tokens' \in SUBSET tokens
    BY <1>1, <2>2 DEF AccountInv, AccountStoreOK
  <2> QED BY <2>1, <2>2 DEF Accounts!Expire
<1> QED BY <1>1, <1>2 DEF AccountStep, AccountInv, Accounts!NoLateEvent

(* The invariant is inductive, and every step is allowed.                  *)
LEMMA NextKeepsAccountInv ==
  ASSUME Null \notin Credentials
  PROVE  AccountInv /\ [Accounts!Next]_Accounts!vars => AccountStep
<1> SUFFICES ASSUME AccountInv, [Accounts!Next]_Accounts!vars PROVE AccountStep
  OBVIOUS
<1>1. ASSUME NEW r \in Requests, UNCHANGED requested,
             \/ Accounts!Audit(r) \/ Accounts!Register(r) \/ Accounts!FindCredential(r)
             \/ Accounts!Attempts(r) \/ Accounts!FindAccount(r) \/ Accounts!CreateSession(r)
             \/ Accounts!IssueToken(r) \/ Accounts!ConsumeToken(r)
             \/ Accounts!FindCredentialByAccount(r)
             \/ Accounts!UpdateVerifier(r) \/ Accounts!RevokeSessions(r)
             \/ Accounts!ResolveSession(r) \/ Accounts!ListProducts(r)
             \/ Accounts!ConfirmPortfolio(r) \/ Accounts!SetExporter(r) \/ Accounts!Delete(r)
             \/ Accounts!Outage(r)
      PROVE  AccountStep
  BY <1>1, AuditKeeps, RegisterKeeps, ReadsKeep, AttemptsKeeps, CreateSessionKeeps,
     ConsumeTokenKeeps, RecoverKeeps, ResolveSessionKeeps, ConfirmPortfolioKeeps,
     SetExporterKeeps, DeleteKeeps, FailsKeeps DEF Accounts!Outage
<1>2. CASE UNCHANGED Accounts!vars
  BY <1>2 DEF Accounts!vars, AccountStep, AccountInv, AccountStoreOK, Accounts!NoLateEvent
<1> QED BY <1>1, <1>2, ArriveKeeps, ExpireKeeps DEF Accounts!Next

(* A store with one account.                                               *)
LEMMA InitAccountInv ==
  ASSUME Null \notin Credentials, Accounts!Init
  PROVE  AccountInv
<1>1. Accounts!Nothing = [op |-> Null, at |-> "done", account |-> 0, seen |-> Null]
  BY DEF Accounts!Nothing, Accounts!Request
<1>2. RequestOK(Accounts!Nothing, lastId) /\ Accounts!Nothing \in AccountRequests
  BY <1>1 DEF RequestOK, AccountRequests, RequestSteps, Readings
<1>3. credential = [account |-> 1, password |-> "first", count |-> 0, lock |-> "none"]
  BY DEF Accounts!Init, Accounts!Credential
<1>4. credential \in Credentials /\ credential.account = 1
  BY <1>3 DEF Credentials
<1>5. AccountStoreOK
  BY <1>4 DEF Accounts!Init, AccountStoreOK
<1> QED BY <1>2, <1>5 DEF Accounts!Init, AccountInv

(* Account requests interleave call by call, so that one may delete the    *)
(* account under another: no row of a deleted account is left or comes     *)
(* back, its audit trail gets no further event, and a recovery token lets  *)
(* one request through.                                                    *)
THEOREM DeletionIsFinal ==
  ASSUME Null \notin Credentials
  PROVE  Accounts!Spec =>
           [][/\ Accounts!NoLateEvent
              /\ Accounts!NothingOutlivesTheAccount'
              /\ Accounts!TokenUsedOnce']_Accounts!vars
<1>1. AccountInv => Accounts!NothingOutlivesTheAccount /\ Accounts!TokenUsedOnce
  BY DEF AccountInv, AccountStoreOK, Accounts!NothingOutlivesTheAccount, Accounts!TokenUsedOnce
<1>2. AccountInv /\ [Accounts!Next]_Accounts!vars => AccountInv' /\ Accounts!NoLateEvent
  BY NextKeepsAccountInv DEF AccountStep
<1>3. Accounts!Init => AccountInv
  BY InitAccountInv
<1> QED BY <1>1, <1>2, <1>3, PTL DEF Accounts!Spec
-----------------------------------------------------------------------------
(* The lease, the backup and the steps of a migration.                     *)
Leases == [by : Instances, until : Nat]
Copies == [records : SUBSET Records, stripped : BOOLEAN]
MigrationSteps ==
  {"idle", "read", "importing", "imported", "valid", "committed", "sealed", "failed"}

(* The lease in the file is that of the instance whose own has not run     *)
(* out.                                                                    *)
LeaseOK ==
  /\ now \in Nat /\ lease \in Leases \cup {Null}
  /\ instance \in [Instances -> [at : {"closed", "open", "maintenance"}, until : Nat]]
  /\ \A i \in Instances :
       instance[i].at # "closed" /\ instance[i].until > now
       => lease = [by |-> i, until |-> instance[i].until]

(* Migrators read a file that only grows, so that of two one has read what *)
(* the other has; two whose rows are not yet committed would collide on    *)
(* the rows they share, so that one of them has none.                      *)
ImportOK ==
  /\ file \in SUBSET Records /\ copy \in Copies \cup {Null}
  /\ migration \in [Migrators -> [at : MigrationSteps, records : SUBSET Records]]
  /\ \A m \in Migrators :
       /\ migration[m].records \subseteq IF migration[m].at = "idle" THEN {} ELSE file
       /\ migration[m].at = "valid" =>
            migration[m].records = {} \/ target \subseteq migration[m].records
       /\ \A n \in Migrators :
            /\ \/ migration[m].records \subseteq migration[n].records
               \/ migration[n].records \subseteq migration[m].records
            /\ {migration[m].at, migration[n].at} \subseteq {"imported", "valid"} /\ m # n =>
                 migration[m].records \cap migration[n].records = {}
  /\ Store!ImportIsWhole

(* The inductive invariant: of the lease, and of the import.               *)
StoreInv == LeaseOK /\ ImportOK

(* A lease has a length in seconds, and Null is neither lease nor backup.  *)
StoreAssumption == LeaseSeconds \in Nat /\ Null \notin Leases \cup Copies

(* A step of the instances that touches neither file nor target.           *)
LEMMA ImportStays ==
  ASSUME ImportOK, UNCHANGED <<file, target, migration>>, copy' \in Copies \cup {Null}
  PROVE  ImportOK'
BY DEF ImportOK, Store!ImportIsWhole

(* A step that touches no lease.                                           *)
LEMMA LeaseStays ==
  ASSUME LeaseOK, UNCHANGED <<now, lease, instance>>
  PROVE  LeaseOK'
BY DEF LeaseOK

(* Instances open, write, back up, close and die.                          *)
LEMMA InstancesKeepStoreInv ==
  ASSUME StoreAssumption, StoreInv, NEW i \in Instances,
         \/ Store!Open(i) \/ Store!EnterMaintenance(i) \/ Store!Close(i) \/ Store!Crash(i)
         \/ Store!Backup(i) \/ Store!Strip(i) \/ \E x \in Records : Store!Write(i, x)
  PROVE  StoreInv'
<1> USE DEF StoreInv
<1>1. CASE Store!Open(i)
  <2>1. now + LeaseSeconds \in Nat
    BY DEF StoreAssumption, LeaseOK
  <2>2. \A j \in Instances : ~(instance[j].at # "closed" /\ instance[j].until > now)
    BY <1>1 DEF Store!Open, Store!MayLease, LeaseOK, StoreAssumption, Leases
  <2>3. LeaseOK'
    BY <1>1, <2>1, <2>2 DEF Store!Open, LeaseOK, Leases
  <2>4. ImportOK'
    BY <1>1, ImportStays DEF Store!Open, ImportOK
  <2> QED BY <2>3, <2>4
<1>2. CASE Store!EnterMaintenance(i)
  <2>1. LeaseOK'
    BY <1>2 DEF Store!EnterMaintenance, LeaseOK
  <2> QED BY <1>2, <2>1, ImportStays DEF Store!EnterMaintenance, ImportOK
<1>3. CASE Store!Close(i) \/ Store!Crash(i)
  <2>1. /\ instance' = [instance EXCEPT ![i] = [at |-> "closed", until |-> 0]]
        /\ lease' \in {lease, Null}
        /\ lease' = lease \/ lease.by = i
        /\ UNCHANGED <<now, file, sealed, copy, target, migration>>
    BY <1>3 DEF Store!Close, Store!Crash, Store!Closed
  <2>2. LeaseOK'
    BY <2>1 DEF LeaseOK, Leases
  <2>3. ImportOK'
    BY <2>1, ImportStays DEF ImportOK
  <2> QED BY <2>2, <2>3
<1>4. CASE Store!Backup(i) \/ Store!Strip(i)
  <2>1. UNCHANGED <<now, lease, instance, file, target, migration>>
    BY <1>4 DEF Store!Backup, Store!Strip
  <2>2. copy' \in Copies
    <3>1. CASE Store!Backup(i)
      BY <3>1 DEF Store!Backup, ImportOK, Copies
    <3>2. CASE Store!Strip(i)
      <4>1. copy \in Copies /\ copy' = [copy EXCEPT !.stripped = TRUE]
        BY <3>2 DEF Store!Strip, ImportOK
      <4> QED BY <4>1 DEF Copies
    <3> QED BY <1>4, <3>1, <3>2
  <2> QED BY <2>1, <2>2, LeaseStays, ImportStays
<1>5. ASSUME NEW x \in Records, Store!Write(i, x) PROVE StoreInv'
  <2>1. file' = file \union {x} /\ UNCHANGED <<now, lease, instance, copy, target, migration>>
    BY <1>5 DEF Store!Write
  <2>2. ImportOK'
    BY <2>1 DEF ImportOK, Store!ImportIsWhole
  <2> QED BY <2>1, <2>2, LeaseStays
<1> QED BY <1>1, <1>2, <1>3, <1>4, <1>5

(* A backup is restored before any migrator has read the file.             *)
LEMMA RestoreKeepsStoreInv ==
  ASSUME StoreAssumption, StoreInv, Store!Restore
  PROVE  StoreInv'
<1>1. /\ file' = copy.records /\ lease' = Null /\ copy # Null
      /\ UNCHANGED <<now, instance, copy, target, migration>>
      /\ \A i \in Instances : instance[i].at = "closed"
      /\ \A m \in Migrators : migration[m].at = "idle"
  BY DEF Store!Restore
<1>2. LeaseOK'
  BY <1>1 DEF StoreInv, LeaseOK
<1>3. ImportOK'
  BY <1>1 DEF StoreInv, ImportOK, Store!ImportIsWhole, Copies
<1> QED BY <1>2, <1>3 DEF StoreInv

(* A migrator that goes on without writing the target.                     *)
LEMMA MigratorMoves ==
  ASSUME ImportOK, NEW m \in Migrators, NEW at \in MigrationSteps,
         migration' = [migration EXCEPT ![m].at = at], UNCHANGED <<file, copy, target>>,
         migration[m].at # "idle", at # "idle",
         migration[m].at = "committed" => at = "sealed",
         migration[m].at # "sealed",
         at = "valid" => migration[m].at = "imported" /\ target \subseteq migration[m].records,
         at = "imported" => \A n \in Migrators \ {m} :
           migration[n].at \in {"imported", "valid"} =>
             migration[n].records \cap migration[m].records = {}
  PROVE  ImportOK'
<1>1. \A n \in Migrators :
        /\ migration'[n].records = migration[n].records
        /\ migration'[n].at = IF n = m THEN at ELSE migration[n].at
  BY DEF ImportOK
<1>2. migration' \in [Migrators -> [at : MigrationSteps, records : SUBSET Records]]
  BY DEF ImportOK
<1>3. Store!ImportIsWhole'
  <2> SUFFICES ASSUME target # {}
               PROVE  \E n \in Migrators : migration'[n].at \in {"committed", "sealed"}
                                           /\ target = migration'[n].records
    BY DEF Store!ImportIsWhole
  <2>1. PICK n \in Migrators : migration[n].at \in {"committed", "sealed"}
                               /\ target = migration[n].records
    BY DEF ImportOK, Store!ImportIsWhole
  <2> QED BY <1>1, <2>1
<1> QED BY <1>1, <1>2, <1>3 DEF ImportOK

(* migrateSqliteToPostgres, step by step.                                  *)
LEMMA MigratorsKeepStoreInv ==
  ASSUME StoreInv, NEW m \in Migrators,
         \/ Store!ReadSource(m) \/ Store!Begin(m) \/ Store!Import(m) \/ Store!Validate(m)
         \/ Store!Commit(m) \/ Store!Rollback(m) \/ Store!Seal(m)
  PROVE  StoreInv'
<1>0. UNCHANGED <<now, lease, instance, file, copy>>
  BY DEF Store!ReadSource, Store!Begin, Store!Import, Store!Validate, Store!Commit,
         Store!Rollback, Store!Seal
<1>1. CASE Store!ReadSource(m)
  <2>1. /\ migration' = [migration EXCEPT ![m] = [at |-> "read", records |-> file]]
        /\ migration[m].at = "idle" /\ target' = target
    BY <1>1 DEF Store!ReadSource
  <2>2. \A n \in Migrators : migration[n].records \subseteq file
    BY DEF StoreInv, ImportOK
  <2>3. Store!ImportIsWhole'
    BY <2>1 DEF StoreInv, ImportOK, Store!ImportIsWhole
  <2> QED BY <1>0, <2>1, <2>2, <2>3, LeaseStays DEF StoreInv, ImportOK, MigrationSteps
<1>2. CASE Store!Begin(m)
  <2>1. \E at \in {"importing", "failed"} : migration' = [migration EXCEPT ![m].at = at]
    BY <1>2 DEF Store!Begin
  <2> QED BY <1>0, <1>2, <2>1, MigratorMoves, LeaseStays DEF Store!Begin, StoreInv, MigrationSteps
<1>3. CASE Store!Import(m)
  <2>1. \E at \in {"imported", "failed"} : migration' = [migration EXCEPT ![m].at = at]
    BY <1>3 DEF Store!Import
  <2> QED BY <1>0, <1>3, <2>1, MigratorMoves, LeaseStays DEF Store!Import, StoreInv, MigrationSteps
<1>4. CASE Store!Validate(m)
  <2>1. \/ migration' = [migration EXCEPT ![m].at = "failed"]
        \/ migration' = [migration EXCEPT ![m].at = "valid"] /\ target \subseteq migration[m].records
    BY <1>4 DEF Store!Validate, Store!Parity
  <2> QED BY <1>0, <1>4, <2>1, MigratorMoves, LeaseStays DEF Store!Validate, StoreInv, MigrationSteps
<1>5. CASE Store!Rollback(m)
  <2>1. target' = target
    BY <1>5 DEF Store!Rollback, Store!RolledBack
  <2> QED BY <1>0, <1>5, <2>1, MigratorMoves, LeaseStays DEF Store!Rollback, StoreInv, MigrationSteps
<1>6. CASE Store!Seal(m)
  BY <1>0, <1>6, MigratorMoves, LeaseStays DEF Store!Seal, StoreInv, MigrationSteps
<1>7. CASE Store!Commit(m)
  <2> DEFINE R == migration[m].records
  <2>1. /\ target' = target \union R /\ migration[m].at = "valid"
        /\ migration' = [migration EXCEPT ![m].at = "committed"]
    BY <1>7 DEF Store!Commit
  <2>2. \A n \in Migrators :
          /\ migration'[n].records = migration[n].records
          /\ migration'[n].at = IF n = m THEN "committed" ELSE migration[n].at
    BY <2>1 DEF StoreInv, ImportOK
  <2>3. R = {} \/ target \subseteq R
    BY <2>1 DEF StoreInv, ImportOK
  <2>4. Store!ImportIsWhole'
    <3>1. CASE R = {}
      <4>1. target' = target
        BY <2>1, <3>1
      <4> SUFFICES ASSUME target # {}
                   PROVE  \E n \in Migrators : migration'[n].at \in {"committed", "sealed"}
                                               /\ target = migration'[n].records
        BY <4>1 DEF Store!ImportIsWhole
      <4>2. PICK n \in Migrators : migration[n].at \in {"committed", "sealed"}
                                   /\ target = migration[n].records
        BY DEF StoreInv, ImportOK, Store!ImportIsWhole
      <4> QED BY <2>2, <4>2
    <3>2. CASE target \subseteq R
      <4>1. target' = R /\ migration'[m].at = "committed" /\ migration'[m].records = R
        BY <2>1, <2>2, <3>2
      <4> QED BY <4>1 DEF Store!ImportIsWhole
    <3> QED BY <2>3, <3>1, <3>2
  <2>5. ASSUME NEW n \in Migrators, migration'[n].at = "valid"
        PROVE  migration[n].records = {} \/ target' \subseteq migration[n].records
    <3>1. n # m /\ migration[n].at = "valid"
      BY <2>2, <2>5
    <3>2. R = {} \/ migration[n].records = {}
      BY <2>1, <3>1 DEF StoreInv, ImportOK
    <3> QED BY <2>1, <3>1, <3>2 DEF StoreInv, ImportOK
  <2>6. migration' \in [Migrators -> [at : MigrationSteps, records : SUBSET Records]]
    BY <2>1 DEF StoreInv, ImportOK, MigrationSteps
  <2>7. ImportOK'
    BY <1>0, <2>2, <2>4, <2>5, <2>6 DEF StoreInv, ImportOK
  <2> QED BY <1>0, <2>7, LeaseStays DEF StoreInv
<1> QED BY <1>1, <1>2, <1>3, <1>4, <1>5, <1>6, <1>7

(* The invariant is inductive.                                             *)
LEMMA NextKeepsStoreInv ==
  ASSUME StoreAssumption
  PROVE  StoreInv /\ [Store!Next]_Store!vars => StoreInv'
<1> SUFFICES ASSUME StoreInv, [Store!Next]_Store!vars PROVE StoreInv'
  OBVIOUS
<1>1. CASE Store!Tick
  <2>1. LeaseOK'
    BY <1>1 DEF Store!Tick, StoreInv, LeaseOK
  <2> QED BY <1>1, <2>1, ImportStays DEF Store!Tick, StoreInv, ImportOK
<1>2. CASE UNCHANGED Store!vars
  BY <1>2, ImportStays, LeaseStays DEF Store!vars, StoreInv, ImportOK
<1> QED BY <1>1, <1>2, InstancesKeepStoreInv, RestoreKeepsStoreInv, MigratorsKeepStoreInv
        DEF Store!Next

LEMMA StoreInvSuffices == StoreInv => Store!StoreIsWhole
BY DEF StoreInv, LeaseOK, ImportOK, Store!StoreIsWhole, Store!LeaseIsHonoured, Store!Unlocked

(* acquireApplicationLease and migrateSqliteToPostgres: an instance that   *)
(* has the file open within its lease is the one the lease row names,      *)
(* whatever closes, dies, outlives its own or is restored; and what        *)
(* PostgreSQL holds is, whole, what one migrator read, however migrations  *)
(* overlap, fail and are retried while an instance writes.                 *)
THEOREM OneLeaseOneImport ==
  ASSUME StoreAssumption
  PROVE  Store!Spec => []Store!StoreIsWhole
<1>1. Store!Init => StoreInv
  BY DEF Store!Init, StoreInv, LeaseOK, ImportOK, Store!ImportIsWhole, Store!Closed, MigrationSteps
<1> QED BY <1>1, NextKeepsStoreInv, StoreInvSuffices, PTL DEF Store!Spec

-----------------------------------------------------------------------------
(* A policy: a bucket holds a token, and is full again when its source is  *)
(* forgotten.                                                              *)
LimiterAssumption ==
  /\ Token \in Nat /\ Capacity \in Nat /\ Refill \in Nat \ {0} /\ Retention \in Nat
  /\ MaxSources \in Nat \ {0} /\ Token <= Capacity /\ Capacity <= (Retention + 1) * Refill
  /\ Null \notin Nat /\ Paced \in Sources

(* What a bucket is.                                                       *)
Buckets == [tokens : 0..Capacity, refilledAt : Nat, accessedAt : Nat]

(* What a source has spent and what is left in its bucket make no more     *)
(* than a full bucket and its refills; a source that was refused was told  *)
(* when, counted from its last refill, there is a token again.             *)
BucketOK(s) ==
  LET b == buckets[s] IN
  /\ b \in Buckets /\ b.accessedAt = b.refilledAt
  /\ promise[s] # Null => promise[s] = b.refilledAt + Bounds!RetryAfter(b.tokens)
  /\ ~steppedBack =>
       /\ spent[s].since <= b.refilledAt /\ b.refilledAt <= now
       /\ spent[s].units + b.tokens <= Capacity + Refill * (b.refilledAt - spent[s].since)

(* The inductive invariant.                                                *)
LimiterInv ==
  /\ now \in Nat
  /\ IsFiniteSet(DOMAIN buckets) /\ Cardinality(DOMAIN buckets) <= MaxSources
  /\ DOMAIN buckets \subseteq Sources
  /\ promise \in [Sources -> Nat \cup {Null}]
  /\ spent \in [Sources -> [since : Nat, units : Nat]]
  /\ \A s \in DOMAIN buckets : BucketOK(s)

(* Arithmetic of refills.                                                  *)
LEMMA LesserOfTwo ==
  ASSUME NEW a \in Int, NEW b \in Int
  PROVE  Bounds!Min({a, b}) = IF a <= b THEN a ELSE b
<1> DEFINE m == IF a <= b THEN a ELSE b
<1>1. m \in {a, b} /\ \A y \in {a, b} : m <= y
  OBVIOUS
<1>2. \A x \in {a, b} : (\A y \in {a, b} : x <= y) => x = m
  OBVIOUS
<1> QED BY <1>1, <1>2 DEF Bounds!Min

LEMMA GreaterOfTwo ==
  ASSUME NEW a \in Int, NEW b \in Int
  PROVE  Bounds!Max({a, b}) = IF a >= b THEN a ELSE b
<1> DEFINE m == IF a >= b THEN a ELSE b
<1>1. m \in {a, b} /\ \A y \in {a, b} : m >= y
  OBVIOUS
<1>2. \A x \in {a, b} : (\A y \in {a, b} : x >= y) => x = m
  OBVIOUS
<1> QED BY <1>1, <1>2 DEF Bounds!Max

LEMMA ProductsGrow ==
  ASSUME NEW a \in Nat, NEW b \in Nat, NEW c \in Nat, a <= b
  PROVE  a * c <= b * c /\ c * a <= c * b /\ a * c \in Nat
<1>1. b * c = a * c + (b - a) * c /\ (b - a) * c >= 0 /\ a * c >= 0
  OBVIOUS
<1> QED BY <1>1

(* The seconds a source is told to wait bring it a token.                  *)
LEMMA RoundedUp ==
  ASSUME NEW a \in Int, NEW r \in Nat \ {0}
  PROVE  ((a + r - 1) \div r) * r >= a /\ (a + r - 1) \div r \in Int
<1> DEFINE x == a + r - 1
           q == x \div r
<1>1. x = r * q + (x % r) /\ x % r \in 0..(r - 1) /\ q \in Int
  OBVIOUS
<1> QED BY <1>1

(* What is in a bucket after its refill.                                   *)
Elapsed(s) == IF now >= buckets[s].refilledAt THEN now - buckets[s].refilledAt ELSE 0

LEMMA Refills ==
  ASSUME LimiterAssumption, LimiterInv, NEW s \in DOMAIN buckets
  PROVE  /\ Elapsed(s) \in Nat /\ Elapsed(s) * Refill \in Nat
         /\ Bounds!Refilled(s) = IF Capacity <= buckets[s].tokens + Elapsed(s) * Refill
                                 THEN Capacity ELSE buckets[s].tokens + Elapsed(s) * Refill
         /\ Bounds!Refilled(s) \in 0..Capacity
<1> DEFINE b == buckets[s]
           d == now - b.refilledAt
<1>1. b.tokens \in 0..Capacity /\ b.refilledAt \in Nat /\ now \in Nat /\ d \in Int
  BY DEF LimiterInv, BucketOK, Buckets
<1>2. Bounds!Max({0, d}) = Elapsed(s) /\ Elapsed(s) \in Nat
  BY <1>1, GreaterOfTwo DEF Elapsed
<1>3. Elapsed(s) * Refill \in Nat /\ Capacity \in Nat
  BY <1>2, ProductsGrow DEF LimiterAssumption
<1> DEFINE e == Elapsed(s) * Refill
<1>4. b.tokens + e \in Nat
  BY <1>1, <1>3
<1>5. Bounds!Refilled(s) = Bounds!Min({Capacity, b.tokens + e})
  BY <1>2 DEF Bounds!Refilled
<1> HIDE DEF e
<1>6. Bounds!Refilled(s) = IF Capacity <= b.tokens + e THEN Capacity ELSE b.tokens + e
  BY <1>3, <1>4, <1>5, LesserOfTwo
<1>7. Bounds!Refilled(s) \in 0..Capacity
  BY <1>3, <1>4, <1>6
<1> QED BY <1>2, <1>3, <1>6, <1>7 DEF e

(* A source that waits as told has a token then.                           *)
LEMMA Waits ==
  ASSUME LimiterAssumption, NEW units \in 0..Capacity
  PROVE  /\ Bounds!RetryAfter(units) \in Nat \ {0}
         /\ units + Bounds!RetryAfter(units) * Refill >= Token
<1> DEFINE a == Token - units
           q == (a + Refill - 1) \div Refill
           k == Bounds!RetryAfter(units)
<1>1. a \in Int /\ Refill \in Nat \ {0} /\ units \in Nat /\ Token \in Nat
  BY DEF LimiterAssumption
<1>2. q * Refill >= a /\ q \in Int
  BY <1>1, RoundedUp
<1>3. k = IF 1 >= q THEN 1 ELSE q
  BY <1>2, GreaterOfTwo DEF Bounds!RetryAfter
<1> HIDE DEF q, k
<1>4. k \in Nat \ {0} /\ q <= k
  BY <1>2, <1>3
<1>5. k * Refill = q * Refill + (k - q) * Refill /\ (k - q) * Refill >= 0
  BY <1>1, <1>2, <1>4
<1>6. k * Refill >= a /\ k * Refill \in Int
  BY <1>1, <1>2, <1>4, <1>5
<1> DEFINE f == k * Refill
<1>7. units + f >= Token
  <2>1. f \in Int /\ f >= Token - units
    BY <1>6
  <2> HIDE DEF f
  <2> QED BY <1>1, <2>1
<1> QED BY <1>4, <1>7 DEF k

(* The invariant says what the limiter promises.                           *)
LEMMA BucketsSuffice ==
  ASSUME LimiterAssumption, LimiterInv
  PROVE  Bounds!SourcesAreLimited
<1>0. /\ now \in Nat /\ Token \in Nat /\ Capacity \in Nat /\ Refill \in Nat \ {0} /\ Retention \in Nat
      /\ \A s \in DOMAIN buckets : BucketOK(s)
      /\ Bounds!Active \subseteq DOMAIN buckets
  BY DEF LimiterAssumption, LimiterInv, Bounds!Active
<1>1. Bounds!Cardinality(DOMAIN buckets) <= MaxSources
  <2>1. Bounds!Cardinality(DOMAIN buckets) = Cardinality(DOMAIN buckets)
    BY DEF Bounds!Cardinality, Cardinality
  <2> QED BY <2>1 DEF LimiterInv
<1>2. ASSUME NEW s \in Sources, promise[s] # Null, now >= promise[s]
      PROVE  Bounds!Available(s) >= Token
  <2>1. CASE s \notin Bounds!Active
    BY <2>1 DEF Bounds!Available, LimiterAssumption
  <2>2. CASE s \in Bounds!Active
    <3> DEFINE b == buckets[s]
               k == Bounds!RetryAfter(b.tokens)
    <3>1. b.tokens \in 0..Capacity /\ b.refilledAt \in Nat /\ promise[s] = b.refilledAt + k
      BY <1>0, <1>2, <2>2 DEF BucketOK, Buckets
    <3>2. k \in Nat \ {0} /\ b.tokens + k * Refill >= Token
      BY <3>1, Waits
    <3> HIDE DEF k
    <3>3. Elapsed(s) \in Nat /\ k <= Elapsed(s)
      BY <1>0, <1>2, <3>1, <3>2 DEF Elapsed
    <3>4. k * Refill <= Elapsed(s) * Refill /\ k * Refill \in Nat /\ Elapsed(s) * Refill \in Nat
      BY <1>0, <3>2, <3>3, ProductsGrow
    <3> DEFINE e == Elapsed(s) * Refill
               f == k * Refill
    <3>5. b.tokens + e >= Token
      <4>1. f \in Nat /\ e \in Nat /\ f <= e /\ b.tokens + f >= Token /\ b.tokens \in Nat /\ Token \in Nat
        BY <1>0, <3>1, <3>2, <3>4
      <4> HIDE DEF e, f
      <4> QED BY <4>1
    <3>6. Bounds!Refilled(s) = IF Capacity <= b.tokens + e THEN Capacity ELSE b.tokens + e
      BY <1>0, <2>2, Refills
    <3> HIDE DEF e
    <3>7. Bounds!Refilled(s) >= Token
      BY <3>5, <3>6 DEF LimiterAssumption
    <3> QED BY <2>2, <3>7 DEF Bounds!Available
  <2> QED BY <2>1, <2>2
<1>3. ASSUME ~steppedBack, NEW s \in Bounds!Active
      PROVE  spent[s].units <= Capacity + Refill * (now - spent[s].since)
  <2> DEFINE b == buckets[s]
             since == spent[s].since
             x == b.refilledAt - since
             y == now - since
  <2>1. /\ b.tokens \in Nat /\ b.refilledAt \in Nat /\ since \in Nat /\ spent[s].units \in Nat
        /\ since <= b.refilledAt /\ b.refilledAt <= now
        /\ spent[s].units + b.tokens <= Capacity + Refill * x
    BY <1>0, <1>3 DEF BucketOK, Buckets, LimiterInv
  <2>2. x \in Nat /\ y \in Nat /\ x <= y
    BY <1>0, <2>1
  <2> HIDE DEF x, y
  <2>3. Refill * x <= Refill * y /\ Refill * x \in Nat /\ Refill * y \in Nat
    <3>1. Refill \in Nat
      BY <1>0
    <3>2. Refill * x <= Refill * y
      BY <2>2, <3>1, ProductsGrow
    <3>3. Refill * x \in Nat /\ Refill * y \in Nat
      BY <2>2, <3>1, ProductsGrow
    <3> QED BY <3>2, <3>3
  <2> DEFINE e == Refill * x
             f == Refill * y
  <2>4. spent[s].units <= Capacity + f
    <3>1. /\ e \in Nat /\ f \in Nat /\ e <= f
          /\ spent[s].units + b.tokens <= Capacity + e
      BY <2>1, <2>3 DEF x
    <3> HIDE DEF e, f
    <3> QED BY <1>0, <2>1, <3>1
  <2> QED BY <2>4 DEF y
<1>4. ASSUME NEW s \in DOMAIN buckets \ Bounds!Active
      PROVE  Bounds!Refilled(s) = Capacity
  <2> DEFINE b == buckets[s]
             e == Elapsed(s) * Refill
             f == (Retention + 1) * Refill
  <2>1. b.tokens \in Nat /\ b.refilledAt \in Nat /\ now - b.refilledAt > Retention
    BY <1>0, <1>4 DEF BucketOK, Buckets, Bounds!Active
  <2>2. Elapsed(s) \in Nat /\ Retention + 1 <= Elapsed(s) /\ Retention + 1 \in Nat
    BY <1>0, <2>1 DEF Elapsed
  <2>3. f <= e /\ f \in Nat /\ e \in Nat
    <3>1. Refill \in Nat
      BY <1>0
    <3> QED BY <2>2, <3>1, ProductsGrow
  <2>4. Capacity <= f
    BY DEF LimiterAssumption
  <2>5. Bounds!Refilled(s) = IF Capacity <= b.tokens + e THEN Capacity ELSE b.tokens + e
    BY <1>4, Refills
  <2> HIDE DEF e, f
  <2> QED BY <1>0, <2>1, <2>3, <2>4, <2>5
<1> QED BY <1>1, <1>2, <1>3, <1>4
        DEF Bounds!SourcesAreLimited, Bounds!RetryAfterSuffices, Bounds!NeverMoreThanTheLimit,
            Bounds!InactiveAreFull

(* consume: a bucket is refilled, or a new one makes room for itself.      *)
LEMMA ConsumeKeepsLimiterInv ==
  ASSUME LimiterAssumption, LimiterInv, NEW source \in Sources, Bounds!Consume(source),
         UNCHANGED <<now, steppedBack>>
  PROVE  LimiterInv'
<1> DEFINE units == Bounds!Available(source)
           admitted == units >= Token
           rest == IF admitted THEN units - Token ELSE units
           before == IF source \in Bounds!Active THEN spent[source] ELSE [since |-> now, units |-> 0]
<1>1. PICK gone \in Bounds!Evictions(source) :
        /\ buckets' = [s \in (Bounds!Active \ gone) \cup {source} |->
                          IF s = source
                          THEN [tokens |-> rest, refilledAt |-> now, accessedAt |-> now]
                          ELSE buckets[s]]
        /\ promise' = [promise EXCEPT ![source] =
                          IF admitted THEN Null ELSE now + Bounds!RetryAfter(units)]
        /\ spent' = [spent EXCEPT ![source] =
                        [before EXCEPT !.units = @ + IF admitted THEN Token ELSE 0]]
  BY DEF Bounds!Consume
<1> DEFINE D == (Bounds!Active \ gone) \cup {source}
<1>2. /\ now \in Nat /\ Token \in Nat /\ Capacity \in Nat /\ Refill \in Nat /\ Token <= Capacity
      /\ Bounds!Active \subseteq DOMAIN buckets /\ DOMAIN buckets \subseteq Sources
      /\ promise \in [Sources -> Nat \cup {Null}]
      /\ spent \in [Sources -> [since : Nat, units : Nat]]
      /\ \A s \in DOMAIN buckets : BucketOK(s)
  BY DEF LimiterAssumption, LimiterInv, Bounds!Active
<1>3. units \in 0..Capacity
  <2>1. CASE source \in Bounds!Active
    <3>1. Bounds!Refilled(source) \in 0..Capacity
      BY <1>2, <2>1, Refills
    <3> QED BY <2>1, <3>1 DEF Bounds!Available
  <2>2. CASE source \notin Bounds!Active
    BY <1>2, <2>2 DEF Bounds!Available
  <2> QED BY <2>1, <2>2
<1>4. before \in [since : Nat, units : Nat]
  BY <1>2
<1>5. Bounds!RetryAfter(units) \in Nat
  BY <1>3, Waits
<1>6. ~steppedBack =>
        /\ before.since <= now
        /\ before.units + units <= Capacity + Refill * (now - before.since)
  <2>1. ASSUME ~steppedBack, source \in Bounds!Active
        PROVE  /\ before.since <= now
               /\ before.units + units <= Capacity + Refill * (now - before.since)
    <3> DEFINE b == buckets[source]
               x == b.refilledAt - before.since
               e == Elapsed(source)
               f == Refill * x
               g == e * Refill
    <3>1. /\ b.tokens \in Nat /\ b.refilledAt \in Nat
          /\ before.since <= b.refilledAt /\ b.refilledAt <= now
          /\ before.units + b.tokens <= Capacity + f
      BY <1>2, <2>1 DEF BucketOK, Buckets
    <3>2. x \in Nat /\ e \in Nat /\ e = now - b.refilledAt
      <4>1. before.since \in Nat
        BY <1>4
      <4>2. e = now - b.refilledAt
        BY <1>2, <3>1 DEF Elapsed
      <4> HIDE DEF e, before
      <4> QED BY <1>2, <3>1, <4>1, <4>2
    <3>3. units = IF Capacity <= b.tokens + g THEN Capacity ELSE b.tokens + g
      BY <1>2, <2>1, Refills DEF Bounds!Available
    <3>4. f \in Nat /\ g \in Nat
      <4>1. f \in Nat
        BY <1>2, <3>2, ProductsGrow
      <4>2. g \in Nat
        BY <1>2, <3>2, ProductsGrow
      <4> QED BY <4>1, <4>2
    <3>5. Refill * (now - before.since) = f + g
      <4>1. now - before.since = x + e
        BY <1>2, <1>4, <3>1, <3>2
      <4> HIDE DEF x, e
      <4>2. Refill * (x + e) = Refill * x + e * Refill
        BY <1>2, <3>2
      <4> QED BY <4>1, <4>2
    <3>6. before.units + units <= Capacity + (f + g)
      <4>1. before.units \in Nat /\ units \in Nat
        BY <1>3, <1>4
      <4> HIDE DEF f, g, before, units
      <4> QED BY <1>2, <3>1, <3>3, <3>4, <4>1
    <3> QED BY <1>2, <3>1, <3>5, <3>6
  <2>2. ASSUME source \notin Bounds!Active
        PROVE  /\ before.since <= now
               /\ before.units + units <= Capacity + Refill * (now - before.since)
    <3>1. before = [since |-> now, units |-> 0] /\ units = Capacity
      BY <2>2 DEF Bounds!Available
    <3>2. Refill * (now - now) = 0
      BY <1>2
    <3> QED BY <1>2, <3>1, <3>2
  <2> QED BY <2>1, <2>2
<1> HIDE DEF units, before
<1>7. rest \in 0..Capacity /\ rest \in Nat
  BY <1>2, <1>3
<1>8. /\ DOMAIN buckets' = D /\ D \subseteq Sources
      /\ promise' \in [Sources -> Nat \cup {Null}]
      /\ spent' \in [Sources -> [since : Nat, units : Nat]]
  <2>1. spent'[source] \in [since : Nat, units : Nat]
    BY <1>1, <1>2, <1>4
  <2> QED BY <1>1, <1>2, <1>5, <2>1
<1>9. IsFiniteSet(D) /\ Cardinality(D) <= MaxSources
  <2> DEFINE A == Bounds!Active
  <2>1. /\ IsFiniteSet(A) /\ Cardinality(A) <= MaxSources
        /\ Cardinality(A) \in Nat /\ MaxSources \in Nat \ {0}
    <3>1. IsFiniteSet(DOMAIN buckets) /\ Cardinality(DOMAIN buckets) \in Nat
      BY FS_CardinalityType DEF LimiterInv
    <3>2. IsFiniteSet(A) /\ Cardinality(A) <= Cardinality(DOMAIN buckets)
      BY <1>2, <3>1, FS_Subset
    <3>3. Cardinality(A) \in Nat
      BY <3>2, FS_CardinalityType
    <3> QED BY <3>1, <3>2, <3>3 DEF LimiterInv, LimiterAssumption
  <2>2. Bounds!Cardinality(A) = Cardinality(A)
    BY DEF Bounds!Cardinality, Cardinality
  <2>3. \/ gone = {} /\ (source \in A \/ Cardinality(A) < MaxSources)
        \/ source \notin A /\ \E s \in A : gone = {s}
    BY <1>1, <2>2 DEF Bounds!Evictions, Bounds!Oldest
  <2> HIDE DEF A
  <2>4. CASE source \in A /\ gone = {}
    <3>1. D = A
      BY <2>4 DEF A
    <3> QED BY <2>1, <3>1
  <2>5. CASE source \notin A /\ gone = {} /\ Cardinality(A) < MaxSources
    <3>1. D = A \cup {source}
      BY <2>5 DEF A
    <3>2. IsFiniteSet(A \cup {source}) /\ Cardinality(A \cup {source}) = Cardinality(A) + 1
      BY <2>1, <2>5, FS_AddElement
    <3> HIDE DEF D
    <3>3. MaxSources \in Int /\ Cardinality(A) + 1 <= MaxSources
      BY <2>1, <2>5
    <3> QED BY <3>1, <3>2, <3>3
  <2>6. ASSUME source \notin A, NEW s \in A, gone = {s}
        PROVE  IsFiniteSet(D) /\ Cardinality(D) <= MaxSources
    <3>1. D = (A \ {s}) \cup {source} /\ source \notin A \ {s}
      BY <2>6 DEF A
    <3>2. IsFiniteSet(A \ {s}) /\ Cardinality(A \ {s}) = Cardinality(A) - 1
      BY <2>1, <2>6, FS_RemoveElement
    <3>3. /\ IsFiniteSet((A \ {s}) \cup {source})
          /\ Cardinality((A \ {s}) \cup {source}) = Cardinality(A \ {s}) + 1
      BY <3>1, <3>2, FS_AddElement
    <3> QED BY <2>1, <3>1, <3>2, <3>3
  <2> QED BY <2>3, <2>4, <2>5, <2>6
<1>10. ASSUME NEW s \in D PROVE BucketOK(s)'
  <2>1. CASE s # source
    <3>1. /\ buckets'[s] = buckets[s] /\ promise'[s] = promise[s] /\ spent'[s] = spent[s]
          /\ s \in DOMAIN buckets
      BY <1>1, <1>2, <2>1
    <3> QED BY <1>2, <3>1 DEF BucketOK, Bounds!RetryAfter
  <2>2. CASE s = source
    <3>1. /\ buckets'[s] = [tokens |-> rest, refilledAt |-> now, accessedAt |-> now]
          /\ promise'[s] = IF admitted THEN Null ELSE now + Bounds!RetryAfter(units)
          /\ spent'[s].since = before.since
          /\ spent'[s].units = before.units + IF admitted THEN Token ELSE 0
      BY <1>1, <1>2, <1>4, <2>2
    <3>2. buckets'[s] \in Buckets
      BY <1>2, <1>7, <3>1 DEF Buckets
    <3>3. promise'[s] # Null => promise'[s] = now + Bounds!RetryAfter(rest)
      BY <3>1
    <3>4. ~steppedBack =>
            before.since <= now
            /\ spent'[s].units + rest <= Capacity + Refill * (now - before.since)
      <4>1. spent'[s].units + rest = before.units + units
        BY <1>2, <1>3, <1>4, <3>1
      <4> QED BY <1>6, <4>1
    <3>5. \A k : Bounds!RetryAfter(k)' = Bounds!RetryAfter(k)
      BY DEF Bounds!RetryAfter
    <3> HIDE DEF rest
    <3> QED BY <1>2, <3>1, <3>2, <3>3, <3>4, <3>5 DEF BucketOK
  <2> QED BY <2>1, <2>2
<1> HIDE DEF D
<1> QED BY <1>2, <1>8, <1>9, <1>10 DEF LimiterInv

(* Time passes, and may go back once.                                      *)
LEMMA ClockKeepsLimiterInv ==
  ASSUME LimiterInv, UNCHANGED <<buckets, promise, spent>>, now' \in Nat,
         ~steppedBack' => ~steppedBack /\ now' >= now
  PROVE  LimiterInv'
<1>1. ASSUME NEW s \in DOMAIN buckets PROVE BucketOK(s)'
  <2>1. BucketOK(s) /\ now \in Nat /\ buckets[s].refilledAt \in Nat
    BY DEF LimiterInv, BucketOK, Buckets
  <2>2. buckets'[s] = buckets[s] /\ promise'[s] = promise[s] /\ spent'[s] = spent[s]
    OBVIOUS
  <2> QED BY <2>1, <2>2 DEF BucketOK, Bounds!RetryAfter
<1> QED BY <1>1 DEF LimiterInv

(* The invariant is inductive.                                             *)
LEMMA NextKeepsLimiterInv ==
  ASSUME LimiterAssumption
  PROVE  LimiterInv /\ [Bounds!LimitNext]_Bounds!limitVars => LimiterInv'
<1> SUFFICES ASSUME LimiterInv, [Bounds!LimitNext]_Bounds!limitVars PROVE LimiterInv'
  OBVIOUS
<1>1. ASSUME NEW s \in Sources, Bounds!Request(s) PROVE LimiterInv'
  BY <1>1, ConsumeKeepsLimiterInv DEF Bounds!Request
<1>2. CASE Bounds!ArrivePaced
  BY <1>2, ConsumeKeepsLimiterInv DEF Bounds!ArrivePaced, LimiterAssumption
<1>3. CASE Bounds!StartPaced \/ Bounds!Tick \/ Bounds!StepBack \/ UNCHANGED Bounds!limitVars
  <2>1. now \in Nat
    BY DEF LimiterInv
  <2>2. UNCHANGED <<buckets, promise, spent>> /\ now' \in Nat
    BY <1>3, <2>1 DEF Bounds!StartPaced, Bounds!Tick, Bounds!StepBack, Bounds!limitVars
  <2>3. ~steppedBack' => ~steppedBack /\ now' >= now
    BY <1>3, <2>1 DEF Bounds!StartPaced, Bounds!Tick, Bounds!StepBack, Bounds!limitVars
  <2> QED BY <2>2, <2>3, ClockKeepsLimiterInv
<1> QED BY <1>1, <1>2, <1>3 DEF Bounds!LimitNext

(* AnonymousSourceRateLimiter.consume, for every policy that lets a bucket *)
(* hold a token and forgets a source only when its bucket is full again,   *)
(* which the default policy does: the table stays within maxTrackedSources,*)
(* a source that comes back when it was told is admitted, even if the      *)
(* clock was set back, no window admits more than the capacity and the     *)
(* refill of its length, and nothing is gained by being forgotten.         *)
THEOREM SourcesStayLimited ==
  ASSUME LimiterAssumption
  PROVE  Bounds!LimitSpec => []Bounds!SourcesAreLimited
<1>1. Bounds!LimitInit => LimiterInv
  <2> SUFFICES ASSUME Bounds!LimitInit PROVE LimiterInv
    OBVIOUS
  <2>1. DOMAIN buckets = {} /\ IsFiniteSet({}) /\ Cardinality({}) = 0
    BY FS_EmptySet DEF Bounds!LimitInit
  <2> QED BY <2>1 DEF Bounds!LimitInit, LimiterInv, LimiterAssumption
<1>2. LimiterInv => Bounds!SourcesAreLimited
  BY BucketsSuffice
<1> QED BY <1>1, <1>2, NextKeepsLimiterInv, PTL DEF Bounds!LimitSpec

-----------------------------------------------------------------------------
(* The published statuses, of the served release and of another.           *)
Statuses == [at : Int, release : {Release, Other}]

(* The poller's status is the runtime's, all that the runtime keeps is of  *)
(* the served release, and what it serves is among it.                     *)
PollerInv ==
  /\ store \in Seq(Statuses) /\ store # <<>>
  /\ served \in Statuses /\ current = served
  /\ served \in kept /\ \A s \in kept : s.release = Release

(* A poll whose answer is taken: the runtime keeps what the pointer does.  *)
LEMMA TakenKeepsPollerInv ==
  ASSUME PollerInv, Poller!IsTaken(Poller!Last(store)), Poller!PollSucceeds(Poller!Last(store)),
         store' = store
  PROVE  PollerInv' /\ Poller!NoRegress
<1> DEFINE s == Poller!Last(store)
<1>0. store \in Seq(Statuses) /\ store # <<>>
  BY DEF PollerInv
<1>1. s = store[Len(store)] /\ Len(store) \in 1..Len(store)
  <2>1. Poller!Len(store) = Len(store)
    OBVIOUS
  <2>2. Len(store) \in 1..Len(store)
    BY <1>0
  <2> QED BY <2>1, <2>2 DEF Poller!Last
<1>2. s \in Statuses /\ s \in Poller!Range(store)
  BY <1>1 DEF PollerInv, Poller!Range
<1>3. s.release = Release /\ s.at >= served.at
  BY DEF Poller!IsTaken, Poller!IsAcceptable, PollerInv
<1>4. /\ current' = s /\ served' = s
      /\ kept' = {served} \cup {t \in Poller!Range(store) : t.release = Release}
  BY DEF Poller!PollSucceeds, Poller!Kept
<1> HIDE DEF s
<1>5. PollerInv'
  BY <1>2, <1>3, <1>4 DEF PollerInv
<1>6. Poller!NoRegress
  BY <1>3, <1>4 DEF Poller!NoRegress, PollerInv
<1> QED BY <1>5, <1>6

(* A poll that fails, and all that is no poll, leave what is served.       *)
LEMMA OthersKeepPollerInv ==
  ASSUME PollerInv, UNCHANGED <<current, served, kept>>,
         store' \in Seq(Statuses), store' # <<>>
  PROVE  PollerInv' /\ Poller!NoRegress
<1>1. served.at \in Int
  BY DEF PollerInv, Statuses
<1> QED BY <1>1 DEF PollerInv, Poller!NoRegress

(* The invariant is inductive, and no step goes back.                      *)
LEMMA NextKeepsPollerInv ==
  PollerInv /\ [Poller!Next]_Poller!vars => PollerInv' /\ Poller!NoRegress
<1> SUFFICES ASSUME PollerInv, [Poller!Next]_Poller!vars PROVE PollerInv' /\ Poller!NoRegress
  OBVIOUS
<1>0. store \in Seq(Statuses) /\ store # <<>>
  BY DEF PollerInv
<1>1. CASE Poller!Answer
  <2>1. store' = store
    BY <1>1 DEF Poller!Answer, Poller!Polls
  <2>2. CASE Poller!PollFails
    BY <1>0, <2>1, <2>2, OthersKeepPollerInv DEF Poller!PollFails, Poller!Counted
  <2> QED BY <1>1, <2>1, <2>2, TakenKeepsPollerInv DEF Poller!Answer
<1>2. CASE Poller!TimeOut
  BY <1>0, <1>2, OthersKeepPollerInv
     DEF Poller!TimeOut, Poller!Polls, Poller!PollFails, Poller!Counted
<1>3. CASE Poller!Fire \/ Poller!Start \/ Poller!Stop \/ Poller!Tick \/ UNCHANGED Poller!vars
  BY <1>0, <1>3, OthersKeepPollerInv DEF Poller!Fire, Poller!Start, Poller!Stop, Poller!Tick, Poller!vars
<1>4. ASSUME NEW at \in 0 .. MaxTime + 1, NEW release \in {Release, Other},
             Poller!Publish(Poller!Status(at, release))
      PROVE  PollerInv' /\ Poller!NoRegress
  <2>1. Poller!Status(at, release) \in Statuses
    BY DEF Poller!Status, Statuses
  <2> DEFINE entry == Poller!Status(at, release)
  <2>2. store' = Append(store, entry) /\ UNCHANGED <<current, served, kept>>
    <3> HIDE DEF entry
    <3>1. Poller!Append(store, entry) = Append(store, entry)
      OBVIOUS
    <3> QED BY <1>4, <3>1 DEF Poller!Publish, entry
  <2>3. store' \in Seq(Statuses) /\ store' # <<>>
    BY <1>0, <2>1, <2>2
  <2> QED BY <2>2, <2>3, OthersKeepPollerInv
<1> QED BY <1>1, <1>2, <1>3, <1>4 DEF Poller!Next

(* performPoll and acceptSourceStatus: poller and runtime always agree on  *)
(* the status that is served, it can be resolved, it is replaced by a      *)
(* later one only, and what was served stays resolvable while the pointer  *)
(* retains it, whatever times out, fails, stops or is published meanwhile. *)
THEOREM ServedStatusMovesForward ==
  Poller!Spec => []Poller!PollerAgreesWithRuntime /\ Poller!StatusNeverRegresses
<1>1. Poller!Init => PollerInv
  <2> SUFFICES ASSUME Poller!Init PROVE PollerInv
    OBVIOUS
  <2>1. PICK at \in 0..1, release \in {Release, Other} : store = <<Poller!Status(at, release)>>
    BY DEF Poller!Init
  <2>2. PICK at1 \in 0..1 : current = Poller!Status(at1, Release)
    BY DEF Poller!Init
  <2>3. Poller!Status(at, release) \in Statuses /\ current \in Statuses /\ current.release = Release
    BY <2>2 DEF Poller!Status, Statuses
  <2>4. store \in Seq(Statuses) /\ store # <<>>
    BY <2>1, <2>3
  <2> QED BY <2>3, <2>4 DEF Poller!Init, PollerInv
<1>2. PollerInv => Poller!PollerAgreesWithRuntime
  BY DEF PollerInv, Poller!PollerAgreesWithRuntime
<1>3. PollerInv /\ [Poller!Next]_Poller!vars => [Poller!NoRegress]_<<served, kept>>
  BY NextKeepsPollerInv
<1> QED BY <1>1, <1>2, <1>3, NextKeepsPollerInv, PTL DEF Poller!Spec, Poller!StatusNeverRegresses
-----------------------------------------------------------------------------
(* A call or an answer about the market of the selected candidate.         *)
OfTheSelected(m) == m # Null => m.candidate = selected /\ m.build = loaded.build

(* The ranking that is loaded is of the build that was resolved; an        *)
(* analysis under way has inputs and a build, and nothing is loaded then;  *)
(* and once the location is restored there are inputs, so that the market  *)
(* analysis of whatever is selected is loaded.                             *)
PageInv ==
  /\ server \in Nat \ {0} /\ manifest \in Nat
  /\ analysisCall # Null => analysisCall.inputs # Null /\ analysisCall.build # 0 /\ loaded = Null
  /\ loaded # Null => resolved = loaded.build /\ resolved # 0
  /\ restoring \in {"no", "timer"} => inputs # Null
  /\ Discovery!UrlNamesTheRanking
  /\ status = "success" /\ restoring = "no" /\ loaded # Null /\ selected # Null
       => OfTheSelected(market) /\ OfTheSelected(marketCall)

(* Assumed of the pages: a record is not Null.                             *)
PageAssumption ==
  /\ Null \notin Inputs
  /\ \A i, b, k, f : [inputs |-> i, build |-> b, known |-> k, fresh |-> f] # Null
  /\ \A i, b, c : [inputs |-> i, build |-> b, candidate |-> c] # Null
  /\ \A i, b : [inputs |-> i, build |-> b] # Null

(* analyzeCandidateMarkets, for inputs that are there.                     *)
LEMMA AnalyzeKeepsPageInv ==
  ASSUME PageInv, NEW i, i # Null, NEW known \in Nat, NEW fresh \in BOOLEAN,
         fresh => known # 0, Discovery!Analyze(i, known, fresh),
         UNCHANGED <<server, url, inputs, resolved, market, marketCall>>,
         manifest' \in Nat, restoring' \in {restoring, "no"}, restoring' = restoring \/ restoring = "timer"
  PROVE  PageInv'
<1>1. CASE loaded' = Null /\ status' = "loading" /\ analysisCall'.inputs = i /\ analysisCall'.build # 0
  BY <1>1 DEF PageInv, Discovery!UrlNamesTheRanking
<1>2. CASE status' = "stale" /\ UNCHANGED <<analysisCall, loaded, selected>>
  BY <1>2 DEF PageInv, Discovery!UrlNamesTheRanking
<1> DEFINE build == IF fresh THEN known ELSE Discovery!PinnedBuild(url.pin)
<1>3. \/ /\ build # 0
         /\ analysisCall' = [inputs |-> i, build |-> build, known |-> known, fresh |-> fresh]
         /\ loaded' = Null /\ status' = "loading"
      \/ status' = "stale" /\ UNCHANGED <<analysisCall, loaded, selected>>
  BY DEF Discovery!Analyze
<1> HIDE DEF build
<1> QED BY <1>1, <1>2, <1>3

(* The page's steps that keep what is loaded, or unload it.                *)
LEMMA LoadingKeepsPageInv ==
  ASSUME PageInv,
         \/ Discovery!LoadManifest \/ Discovery!Recover \/ Discovery!ManifestArrives
         \/ Discovery!ManifestFails \/ Discovery!RestoreInputs \/ Discovery!RestoreAnalysis
         \/ Discovery!Submit \/ Discovery!AnalysisFails \/ Discovery!Activate
  PROVE  PageInv'
<1>1. CASE Discovery!LoadManifest
  BY <1>1 DEF PageInv, OfTheSelected, Discovery!LoadManifest, Discovery!UrlNamesTheRanking,
     Discovery!location, Discovery!page
<1>2. CASE Discovery!Recover
  BY <1>2 DEF PageInv, Discovery!Recover, Discovery!UrlNamesTheRanking, Discovery!location
<1>3. CASE Discovery!ManifestArrives
  <2>1. manifest' = server /\ server \in Nat \ {0}
    BY <1>3 DEF Discovery!ManifestArrives, PageInv
  <2>2. CASE ~manifestCall.recovers
    BY <1>3, <2>1, <2>2 DEF PageInv, OfTheSelected, Discovery!ManifestArrives,
       Discovery!UrlNamesTheRanking,
       Discovery!location, Discovery!page
  <2>3. CASE manifestCall.recovers /\ manifestCall.inputs = Null
    BY <1>3, <2>1, <2>3 DEF PageInv, OfTheSelected, Discovery!ManifestArrives,
       Discovery!Analyze,
       Discovery!UrlNamesTheRanking
  <2>4. CASE manifestCall.recovers /\ manifestCall.inputs # Null
    <3>1. /\ Discovery!Analyze(manifestCall.inputs, server, TRUE)
          /\ UNCHANGED <<server, url, visited, restoring, inputs, resolved, market, marketCall>>
      BY <1>3, <2>4 DEF Discovery!ManifestArrives
    <3> QED BY <2>1, <2>4, <3>1, AnalyzeKeepsPageInv
  <2> QED BY <1>3, <2>2, <2>3, <2>4 DEF Discovery!ManifestArrives
<1>4. CASE Discovery!ManifestFails
  BY <1>4 DEF PageInv, OfTheSelected, Discovery!ManifestFails,
     Discovery!UrlNamesTheRanking, Discovery!location
<1>5. CASE Discovery!RestoreInputs
  BY <1>5 DEF PageInv, OfTheSelected, Discovery!RestoreInputs, Discovery!UrlNamesTheRanking
<1>6. CASE Discovery!RestoreAnalysis
  <2>1. inputs # Null /\ manifest \in Nat
    BY <1>6 DEF PageInv, Discovery!RestoreAnalysis
  <2> QED BY <1>6, <2>1, AnalyzeKeepsPageInv DEF Discovery!RestoreAnalysis
<1>7. CASE Discovery!Submit
  <2>1. inputs # Null /\ manifest \in Nat
    BY <1>7 DEF PageInv, Discovery!Submit
  <2> QED BY <1>7, <2>1, AnalyzeKeepsPageInv DEF Discovery!Submit
<1>8. CASE Discovery!AnalysisFails
  BY <1>8 DEF PageInv, OfTheSelected, Discovery!AnalysisFails,
     Discovery!UrlNamesTheRanking, Discovery!location
<1>9. CASE Discovery!Activate
  BY <1>9 DEF PageInv, OfTheSelected, Discovery!Activate, Discovery!UrlNamesTheRanking,
     Discovery!location, Discovery!page
<1> QED BY <1>1, <1>2, <1>3, <1>4, <1>5, <1>6, <1>7, <1>8, <1>9

(* The market analysis of a candidate is asked for, for inputs that are    *)
(* there.                                                                  *)
LEMMA MarketIsAskedFor ==
  ASSUME NEW c, NEW i, NEW build, i # Null, build # 0, Discovery!LoadMarket(c, i, build)
  PROVE  market' = Null /\ marketCall'.candidate = c /\ marketCall'.build = build
BY DEF Discovery!LoadMarket

(* The ranking arrives.                                                    *)
LEMMA AnalysisKeepsPageInv ==
  ASSUME PageAssumption, PageInv, Discovery!AnalysisArrives
  PROVE  PageInv'
<1> DEFINE call == analysisCall
           ranked == Ranking[call.inputs][call.build]
           focus == IF url.focus \in ranked THEN url.focus ELSE Null
<1>1. /\ call # Null /\ analysisCall' = Null
      /\ loaded' = [inputs |-> call.inputs, build |-> call.build]
      /\ resolved' = call.build /\ selected' = focus
      /\ url' = Discovery!Location(call.inputs, call.build, focus)
      /\ \/ focus # Null /\ Discovery!LoadMarket(focus, call.inputs, call.build)
         \/ focus = Null
      /\ UNCHANGED <<server, manifest, restoring, inputs>>
  BY DEF Discovery!AnalysisArrives
<1>2. call.inputs # Null /\ call.build # 0
  BY <1>1 DEF PageInv
<1>3. url'.inputs = call.inputs /\ url'.pin = call.build /\ url'.focus = focus
  BY <1>1 DEF Discovery!Location
<1>4. selected' # Null => market' = Null /\ marketCall'.candidate = selected' /\ marketCall'.build = call.build
  BY <1>1, <1>2, MarketIsAskedFor
<1>5. loaded'.inputs = call.inputs /\ loaded'.build = call.build
  BY <1>1
<1>6. Discovery!UrlNamesTheRanking'
  BY <1>1, <1>3, <1>5 DEF Discovery!UrlNamesTheRanking
<1> HIDE DEF call, focus
<1> QED BY <1>1, <1>2, <1>4, <1>5, <1>6 DEF PageInv, OfTheSelected

(* The user selects, goes back, or waits for a market analysis.            *)
LEMMA SelectionKeepsPageInv ==
  ASSUME PageAssumption, PageInv,
         \/ Discovery!MarketArrives \/ Discovery!MarketFails \/ Discovery!RetryMarket \/ Discovery!ChangeScope
         \/ \E i \in Inputs : Discovery!SelectInputs(i)
         \/ \E c \in Candidates : Discovery!SelectCandidate(c)
         \/ \E u \in visited : Discovery!Back(u)
  PROVE  PageInv'
<1>1. CASE Discovery!MarketArrives
  BY <1>1 DEF PageInv, OfTheSelected, Discovery!MarketArrives,
     Discovery!UrlNamesTheRanking, Discovery!location
<1>2. CASE Discovery!MarketFails
  BY <1>2 DEF PageInv, OfTheSelected, Discovery!MarketFails, Discovery!UrlNamesTheRanking,
     Discovery!location, Discovery!page
<1>3. CASE Discovery!RetryMarket
  BY <1>3 DEF PageInv, OfTheSelected, Discovery!RetryMarket, Discovery!LoadMarket,
     Discovery!UrlNamesTheRanking, Discovery!location
<1>4. CASE Discovery!ChangeScope
  <2>1. url'.inputs = url.inputs /\ url'.pin = url.pin /\ url'.focus = Null
    BY <1>4 DEF Discovery!ChangeScope
  <2> QED BY <1>4, <2>1 DEF PageInv, OfTheSelected, Discovery!ChangeScope, Discovery!UrlNamesTheRanking
<1>5. ASSUME NEW i \in Inputs, Discovery!SelectInputs(i)
      PROVE  PageInv'
  BY <1>5 DEF PageInv, PageAssumption, OfTheSelected, Discovery!SelectInputs,
     Discovery!UrlNamesTheRanking
<1>6. ASSUME NEW c \in Candidates, Discovery!SelectCandidate(c)
      PROVE  PageInv'
  <2>1. /\ loaded # Null /\ inputs # Null /\ selected' = c /\ Discovery!LoadMarket(c, inputs, resolved)
        /\ c \in Ranking[loaded.inputs][loaded.build]
        /\ url' = Discovery!Location(loaded.inputs, loaded.build, c)
        /\ UNCHANGED <<server, manifest, restoring, inputs, status, loaded, resolved, analysisCall>>
    BY <1>6 DEF Discovery!SelectCandidate
  <2>2. market' = Null /\ marketCall'.candidate = c /\ marketCall'.build = loaded.build
    BY <2>1, MarketIsAskedFor DEF PageInv
  <2>3. url'.inputs = loaded.inputs /\ url'.pin = loaded.build /\ url'.focus = c
    BY <2>1 DEF Discovery!Location
  <2> QED BY <2>1, <2>2, <2>3 DEF PageInv, OfTheSelected, Discovery!UrlNamesTheRanking
<1>7. ASSUME NEW u \in visited, Discovery!Back(u)
      PROVE  PageInv'
  <2>0. url' = u /\ UNCHANGED <<server, manifest>>
    BY <1>7 DEF Discovery!Back
  <2>1. CASE Discovery!NamesLoaded(u)
    <3>1. /\ loaded # Null /\ u.inputs = loaded.inputs /\ u.pin \in {0, loaded.build}
          /\ UNCHANGED <<restoring, inputs, status, loaded, resolved, analysisCall>>
      <4>1. loaded # Null /\ u.inputs = loaded.inputs /\ Discovery!PinnedBuild(u.pin) = loaded.build
        BY <2>1 DEF Discovery!NamesLoaded
      <4>2. loaded.build # 0
        BY <4>1 DEF PageInv
      <4> QED BY <1>7, <2>1, <4>1, <4>2 DEF Discovery!Back, Discovery!PinnedBuild
    <3> DEFINE ranked == Ranking[loaded.inputs][loaded.build]
    <3>2. CASE u.focus = Null /\ selected' = Null
      BY <2>0, <3>1, <3>2 DEF PageInv, OfTheSelected, Discovery!UrlNamesTheRanking
    <3>3. CASE /\ u.focus \in ranked /\ selected' = u.focus
               /\ Discovery!LoadMarket(u.focus, inputs, resolved)
      <4>1. restoring = "no" =>
              market' = Null /\ marketCall'.candidate = u.focus /\ marketCall'.build = loaded.build
        BY <3>1, <3>3, MarketIsAskedFor DEF PageInv
      <4> QED BY <2>0, <3>1, <3>3, <4>1 DEF PageInv, OfTheSelected, Discovery!UrlNamesTheRanking
    <3>4. CASE u.focus \notin ranked \cup {Null} /\ UNCHANGED <<selected, market, marketCall>>
      BY <2>0, <3>1, <3>4 DEF PageInv, OfTheSelected, Discovery!UrlNamesTheRanking
    <3> QED BY <1>7, <2>1, <3>2, <3>3, <3>4 DEF Discovery!Back
  <2>2. CASE ~Discovery!NamesLoaded(u)
    <3>1. analysisCall' = Null /\ loaded' = Null /\ restoring' = "controls"
      BY <1>7, <2>2 DEF Discovery!Back
    <3> QED BY <2>0, <3>1 DEF PageInv, Discovery!UrlNamesTheRanking
  <2> QED BY <2>1, <2>2
<1> QED BY <1>1, <1>2, <1>3, <1>4, <1>5, <1>6, <1>7

(* The invariant is inductive.                                             *)
LEMMA NextKeepsPageInv ==
  ASSUME PageAssumption
  PROVE  PageInv /\ [Discovery!Next]_Discovery!vars => PageInv'
<1> SUFFICES ASSUME PageInv, [Discovery!Next]_Discovery!vars PROVE PageInv'
  OBVIOUS
<1>1. CASE UNCHANGED Discovery!vars
  BY <1>1 DEF PageInv, OfTheSelected, Discovery!vars, Discovery!UrlNamesTheRanking,
     Discovery!location, Discovery!page
<1> QED BY <1>1, LoadingKeepsPageInv, AnalysisKeepsPageInv, SelectionKeepsPageInv
           DEF Discovery!Next

(* discovery-workspace.tsx: the page shows the market analysis of what is  *)
(* selected and its URL names the ranking that is shown, whatever answers  *)
(* arrive late, is refreshed, activated or returned to.                    *)
THEOREM PageShowsWhatItsUrlNames ==
  ASSUME PageAssumption
  PROVE  Discovery!Spec => [](Discovery!MarketIsTheSelected /\ Discovery!UrlNamesTheRanking)
<1>1. Discovery!Init => PageInv
  BY DEF Discovery!Init, PageInv, Discovery!UrlNamesTheRanking
<1>2. PageInv => Discovery!MarketIsTheSelected /\ Discovery!UrlNamesTheRanking
  BY DEF PageInv, OfTheSelected, Discovery!MarketIsTheSelected
<1> QED BY <1>1, <1>2, NextKeepsPageInv, PTL DEF Discovery!Spec
-----------------------------------------------------------------------------
(* A search under way.                                                     *)
Searches == [text : DOMAIN Texts, at : {"timer", "server"}, cancelled : BOOLEAN]

(* No code, search or list is Null; an empty text is one of the texts.     *)
ControlAssumption ==
  /\ Null \notin Discovery!Codes /\ Null \notin Searches /\ "" \in DOMAIN Texts
  /\ \A t \in DOMAIN Texts : [text |-> t, codes |-> Texts[t]] # Null

(* The shape of a control.                                                 *)
ControlTypeOK ==
  /\ kind \in {"economy", "product"} /\ text \in DOMAIN Texts
  /\ edited \in BOOLEAN /\ open \in BOOLEAN /\ search \in Searches \cup {Null}

(* A search is of the text in the box; an economy box that was not edited  *)
(* restores the code of the URL; a product box that has a choice, or was   *)
(* not edited, searches and lists nothing.                                 *)
SearchOK == search # Null => search.text = text
RestoreOK == kind = "economy" /\ restore # Null /\ edited = FALSE => restore = address
ProductOK ==
  kind = "product" =>
    /\ search # Null => search.cancelled = FALSE /\ text # ""
    /\ chosen # Null => search = Null /\ list = Null
    /\ edited = FALSE => text = "" /\ search = Null /\ list = Null

(* The inductive invariant.                                                *)
ControlInv ==
  ControlTypeOK /\ SearchOK /\ RestoreOK /\ ProductOK /\ Discovery!ControlsNameTheirChoice

(* What the search effect starts for a text and a choice.                  *)
StartedFor(s, t, code) ==
  /\ s \in Searches \cup {Null}
  /\ s # Null => s.text = t /\ s.cancelled = FALSE /\ t # "" /\ code = Null
  /\ kind = "product" /\ code = Null /\ t # "" => s # Null

LEMMA SearchedOfText ==
  ASSUME ControlAssumption, NEW t \in DOMAIN Texts, NEW code, kind \in {"economy", "product"}
  PROVE  StartedFor(Discovery!Searched(t, code), t, code)
<1> DEFINE new == [text |-> t, at |-> "timer", cancelled |-> FALSE]
<1>1. new \in Searches /\ new.text = t /\ new.cancelled = FALSE
  <2>1. new \in Searches
    BY Zenon DEF Searches
  <2> QED BY <2>1
<1>2. new # Null
  BY <1>1 DEF ControlAssumption
<1>3. Discovery!Searched(t, code) =
        IF code = Null /\ t # "" /\ ~(kind = "economy" /\ t \in TooLong) THEN new ELSE Null
  BY DEF Discovery!Searched
<1> HIDE DEF new
<1> QED BY <1>1, <1>2, <1>3 DEF StartedFor

(* A search that is made or cancelled.                                     *)
LEMMA SearchChanged ==
  ASSUME ControlAssumption, search \in Searches
  PROVE  LET made == [search EXCEPT !.at = "server"]
             cut == [search EXCEPT !.cancelled = TRUE]
         IN  /\ made \in Searches /\ made # Null /\ made.text = search.text /\ made.cancelled = search.cancelled
             /\ cut \in Searches /\ cut # Null /\ cut.text = search.text
BY DEF ControlAssumption, Searches

(* Each step of a control.                                                 *)
LEMMA StepKeepsControlInv ==
  ASSUME ControlAssumption, ControlInv, Discovery!BoxNext
  PROVE  ControlInv'
<1>0. kind \in {"economy", "product"} /\ text \in DOMAIN Texts /\ kind' = kind
  BY DEF ControlInv, ControlTypeOK, Discovery!BoxNext, Discovery!Remount,
     Discovery!Rebuild, Discovery!RestoreArrives,
     Discovery!RestoreFails, Discovery!ChangeProduct, Discovery!Focus, Discovery!Blur,
     Discovery!SearchTimer,
     Discovery!SearchArrives, Discovery!SearchFails, Discovery!Edit, Discovery!Choose
<1>s. /\ Discovery!Rebuild => StartedFor(search', text, chosen)
      /\ Discovery!RestoreArrives => search' = search \/ StartedFor(search', text, restore)
      /\ Discovery!ChangeProduct => StartedFor(search', "", Null)
      /\ \A t \in DOMAIN Texts : Discovery!Edit(t) => StartedFor(search', t, Null)
      /\ \A code : Discovery!Choose(code) => StartedFor(search', text, code)
  <2>1. "" \in DOMAIN Texts
    BY DEF ControlAssumption
  <2>2. Discovery!Rebuild => StartedFor(search', text, chosen)
    BY <1>0, SearchedOfText DEF Discovery!Rebuild
  <2>3. Discovery!RestoreArrives => search' = search \/ StartedFor(search', text, restore)
    BY <1>0, SearchedOfText DEF Discovery!RestoreArrives
  <2>4. Discovery!ChangeProduct => StartedFor(search', "", Null)
    <3>1. \A t \in DOMAIN Texts : \A code : StartedFor(Discovery!Searched(t, code), t, code)
      BY <1>0, SearchedOfText
    <3>2. StartedFor(Discovery!Searched("", Null), "", Null)
      BY <2>1, <3>1, Zenon
    <3>3. Discovery!ChangeProduct => search' = Discovery!Searched("", Null)
      BY DEF Discovery!ChangeProduct
    <3> QED BY <3>2, <3>3, Zenon
  <2>5. \A t \in DOMAIN Texts : Discovery!Edit(t) => StartedFor(search', t, Null)
    BY <1>0, SearchedOfText DEF Discovery!Edit
  <2>6. \A code : Discovery!Choose(code) => StartedFor(search', text, code)
    BY <1>0, SearchedOfText DEF Discovery!Choose
  <2> QED BY <2>2, <2>3, <2>4, <2>5, <2>6
<1> USE DEF ControlInv, ControlTypeOK, SearchOK, RestoreOK, ProductOK,
        Discovery!ControlsNameTheirChoice
<1>1. CASE Discovery!Remount
  <2>1. ControlTypeOK'
    BY <1>1, <1>0 DEF Discovery!Remount, ControlAssumption
  <2>2. SearchOK'
    BY <1>1, <1>0 DEF Discovery!Remount, ControlAssumption
  <2>3. RestoreOK'
    BY <1>1, <1>0 DEF Discovery!Remount, ControlAssumption
  <2>4. ProductOK'
    BY <1>1, <1>0 DEF Discovery!Remount, ControlAssumption
  <2>5. Discovery!ControlsNameTheirChoice'
    BY <1>1, <1>0 DEF Discovery!Remount, ControlAssumption
  <2> QED BY <2>1, <2>2, <2>3, <2>4, <2>5
<1>2. CASE Discovery!Rebuild
  <2>1. ControlTypeOK'
    BY <1>2, <1>0, <1>s DEF StartedFor, Discovery!Rebuild
  <2>2. SearchOK'
    BY <1>2, <1>0, <1>s DEF StartedFor, Discovery!Rebuild
  <2>3. RestoreOK'
    BY <1>2, <1>0, <1>s DEF StartedFor, Discovery!Rebuild
  <2>4. ProductOK'
    BY <1>2, <1>0, <1>s DEF StartedFor, Discovery!Rebuild
  <2>5. Discovery!ControlsNameTheirChoice'
    BY <1>2, <1>0, <1>s DEF StartedFor, Discovery!Rebuild
  <2> QED BY <2>1, <2>2, <2>3, <2>4, <2>5
<1>3. CASE Discovery!RestoreArrives
  <2>1. ControlTypeOK'
    BY <1>3, <1>0, <1>s DEF StartedFor, Discovery!RestoreArrives
  <2>2. SearchOK'
    BY <1>3, <1>0, <1>s DEF StartedFor, Discovery!RestoreArrives
  <2>3. RestoreOK'
    BY <1>3, <1>0, <1>s DEF StartedFor, Discovery!RestoreArrives
  <2>4. ProductOK'
    BY <1>3, <1>0, <1>s DEF StartedFor, Discovery!RestoreArrives
  <2>5. Discovery!ControlsNameTheirChoice'
    BY <1>3, <1>0, <1>s DEF StartedFor, Discovery!RestoreArrives
  <2> QED BY <2>1, <2>2, <2>3, <2>4, <2>5
<1>4. CASE Discovery!RestoreFails
  <2>1. ControlTypeOK'
    BY <1>4, <1>0 DEF Discovery!RestoreFails
  <2>2. SearchOK'
    BY <1>4, <1>0 DEF Discovery!RestoreFails
  <2>3. RestoreOK'
    BY <1>4, <1>0 DEF Discovery!RestoreFails
  <2>4. ProductOK'
    BY <1>4, <1>0 DEF Discovery!RestoreFails
  <2>5. Discovery!ControlsNameTheirChoice'
    BY <1>4, <1>0 DEF Discovery!RestoreFails
  <2> QED BY <2>1, <2>2, <2>3, <2>4, <2>5
<1>5. CASE Discovery!ChangeProduct
  <2>1. ControlTypeOK'
    BY <1>5, <1>0, <1>s DEF StartedFor, Discovery!ChangeProduct, ControlAssumption
  <2>2. SearchOK'
    BY <1>5, <1>0, <1>s DEF StartedFor, Discovery!ChangeProduct, ControlAssumption
  <2>3. RestoreOK'
    BY <1>5, <1>0, <1>s DEF StartedFor, Discovery!ChangeProduct, ControlAssumption
  <2>4. ProductOK'
    BY <1>5, <1>0, <1>s DEF StartedFor, Discovery!ChangeProduct, ControlAssumption
  <2>5. Discovery!ControlsNameTheirChoice'
    BY <1>5, <1>0, <1>s DEF StartedFor, Discovery!ChangeProduct, ControlAssumption
  <2> QED BY <2>1, <2>2, <2>3, <2>4, <2>5
<1>6. CASE Discovery!Focus
  <2> DEFINE new == [text |-> "", at |-> "server", cancelled |-> FALSE]
  <2>1. new \in Searches /\ new.text = ""
    <3>1. "" \in DOMAIN Texts
      BY DEF ControlAssumption
    <3>2. new \in Searches
      BY <3>1, Zenon DEF Searches
    <3> QED BY <3>2
  <2>2. /\ UNCHANGED <<kind, address, told, text, chosen, list, edited, restore>>
        /\ \/ list # Null /\ open' = TRUE /\ UNCHANGED <<note, search>>
           \/ kind = "economy" /\ text = "" /\ search' = new /\ open' = open
    BY <1>6 DEF Discovery!Focus
  <2> HIDE DEF new
  <2>3. ControlTypeOK' /\ SearchOK'
    BY <2>1, <2>2
  <2>4. RestoreOK' /\ ProductOK'
    BY <2>2
  <2>5. Discovery!ControlsNameTheirChoice'
    <3>1. CASE list # Null /\ open' = TRUE /\ UNCHANGED <<note, search>>
      BY <2>2, <3>1
    <3>2. CASE kind = "economy" /\ open' = open
      BY <2>2, <3>2
    <3> QED BY <2>2, <3>1, <3>2
  <2> QED BY <2>3, <2>4, <2>5
<1>7. CASE Discovery!Blur
  <2>1. ControlTypeOK'
    BY <1>7, <1>0, SearchChanged DEF Discovery!Blur
  <2>2. SearchOK'
    BY <1>7, <1>0, SearchChanged DEF Discovery!Blur
  <2>3. RestoreOK'
    BY <1>7, <1>0, SearchChanged DEF Discovery!Blur
  <2>4. ProductOK'
    BY <1>7, <1>0, SearchChanged DEF Discovery!Blur
  <2>5. Discovery!ControlsNameTheirChoice'
    BY <1>7, <1>0, SearchChanged DEF Discovery!Blur
  <2> QED BY <2>1, <2>2, <2>3, <2>4, <2>5
<1>8. CASE Discovery!SearchTimer
  <2> DEFINE made == [search EXCEPT !.at = "server"]
  <2>1. /\ search \in Searches /\ search # Null /\ search.text = text
        /\ search' = Null \/ search' = made
        /\ search.cancelled = FALSE => search' = made
        /\ UNCHANGED <<kind, address, told, text, chosen, list, open, edited, restore>>
    BY <1>8 DEF Discovery!SearchTimer
  <2>2. made \in Searches /\ made # Null /\ made.text = text /\ made.cancelled = search.cancelled
    BY <2>1, SearchChanged
  <2> HIDE DEF made
  <2>3. kind = "product" => search.cancelled = FALSE /\ text # "" /\ search' = made
    BY <2>1
  <2>4. ControlTypeOK' /\ SearchOK' /\ RestoreOK'
    BY <2>1, <2>2
  <2>5. ProductOK'
    <3>1. kind = "product" => search'.cancelled = FALSE /\ text' # ""
      BY <2>1, <2>2, <2>3
    <3>2. kind = "product" => chosen' = Null /\ edited # FALSE
      BY <2>1
    <3>3. kind = "product" => (chosen' # Null => search' = Null /\ list' = Null)
                           /\ (edited' = FALSE => text' = "" /\ search' = Null /\ list' = Null)
      BY <2>1, <3>2
    <3> QED BY <2>1, <3>1, <3>3, Zenon DEF ProductOK
  <2>6. Discovery!ControlsNameTheirChoice'
    <3>1. kind' = "product" => search' # Null
      BY <2>1, <2>2, <2>3
    <3> QED BY <2>1, <3>1
  <2> QED BY <2>4, <2>5, <2>6
<1>9. CASE Discovery!SearchArrives
  <2>1. ControlTypeOK'
    BY <1>9, <1>0 DEF Discovery!SearchArrives
  <2>2. SearchOK'
    BY <1>9, <1>0 DEF Discovery!SearchArrives
  <2>3. RestoreOK'
    BY <1>9, <1>0 DEF Discovery!SearchArrives
  <2>4. ProductOK'
    BY <1>9, <1>0 DEF Discovery!SearchArrives
  <2>5. Discovery!ControlsNameTheirChoice'
    <3> DEFINE codes == Texts[search.text]
               found == [text |-> search.text, codes |-> codes]
    <3>1. /\ list' = IF codes = {} THEN Null ELSE found
          /\ open' = (codes # {}) /\ note' # "loading"
          /\ UNCHANGED <<kind, address, told, text, chosen, edited>>
      BY <1>9 DEF Discovery!SearchArrives
    <3>2. search.text = text /\ found.text = text
      BY <1>9 DEF Discovery!SearchArrives
    <3>3. found # Null
      BY <1>0, <3>2 DEF ControlAssumption
    <3> HIDE DEF codes, found
    <3> QED BY <3>1, <3>2, <3>3
  <2> QED BY <2>1, <2>2, <2>3, <2>4, <2>5
<1>10. CASE Discovery!SearchFails
  <2>1. ControlTypeOK'
    BY <1>10, <1>0 DEF Discovery!SearchFails
  <2>2. SearchOK'
    BY <1>10, <1>0 DEF Discovery!SearchFails
  <2>3. RestoreOK'
    BY <1>10, <1>0 DEF Discovery!SearchFails
  <2>4. ProductOK'
    BY <1>10, <1>0 DEF Discovery!SearchFails
  <2>5. Discovery!ControlsNameTheirChoice'
    BY <1>10, <1>0 DEF Discovery!SearchFails
  <2> QED BY <2>1, <2>2, <2>3, <2>4, <2>5
<1>11. ASSUME NEW t \in DOMAIN Texts, Discovery!Edit(t)
       PROVE  ControlInv'
  <2>1. ControlTypeOK'
    BY <1>11, <1>0, <1>s DEF StartedFor, Discovery!Edit
  <2>2. SearchOK'
    BY <1>11, <1>0, <1>s DEF StartedFor, Discovery!Edit
  <2>3. RestoreOK'
    BY <1>11, <1>0, <1>s DEF StartedFor, Discovery!Edit
  <2>4. ProductOK'
    BY <1>11, <1>0, <1>s DEF StartedFor, Discovery!Edit
  <2>5. Discovery!ControlsNameTheirChoice'
    BY <1>11, <1>0, <1>s DEF StartedFor, Discovery!Edit
  <2> QED BY <2>1, <2>2, <2>3, <2>4, <2>5
<1>12. ASSUME NEW code \in Discovery!Codes, Discovery!Choose(code)
       PROVE  ControlInv'
  <2>0. code # Null
    BY DEF ControlAssumption
  <2>1. ControlTypeOK'
    BY <1>12, <1>0, <1>s, <2>0 DEF StartedFor, Discovery!Choose
  <2>2. SearchOK'
    BY <1>12, <1>0, <1>s, <2>0 DEF StartedFor, Discovery!Choose
  <2>3. RestoreOK'
    BY <1>12, <1>0, <1>s, <2>0 DEF StartedFor, Discovery!Choose
  <2>4. ProductOK'
    <3>1. StartedFor(search', text, code)
      BY <1>12, <1>s
    <3>2. search' = Null
      BY <2>0, <3>1 DEF StartedFor
    <3>3. list' = Null /\ edited' = TRUE
      BY <1>12 DEF Discovery!Choose
    <3> QED BY <3>2, <3>3
  <2>5. Discovery!ControlsNameTheirChoice'
    BY <1>12, <1>0, <1>s, <2>0 DEF StartedFor, Discovery!Choose
  <2> QED BY <2>1, <2>2, <2>3, <2>4, <2>5
<1> QED BY <1>1, <1>2, <1>3, <1>4, <1>5, <1>6, <1>7, <1>8, <1>9, <1>10, <1>11, <1>12
           DEF Discovery!BoxNext

(* economy-combobox.tsx, product-combobox.tsx: what a control shows as its *)
(* choice is what the page was told and the URL names, and its list is of  *)
(* the text in the box, in whatever order restores and searches answer.    *)
THEOREM ControlShowsItsChoice ==
  ASSUME ControlAssumption
  PROVE  Discovery!BoxSpec => []Discovery!ControlsNameTheirChoice
<1>1. Discovery!BoxInit => ControlInv
  BY DEF Discovery!BoxInit, ControlInv, ControlTypeOK, SearchOK, RestoreOK, ProductOK,
     Discovery!ControlsNameTheirChoice, ControlAssumption
<1>2. ControlInv /\ [Discovery!BoxNext]_Discovery!boxVars => ControlInv'
  <2>1. ControlInv /\ UNCHANGED Discovery!boxVars => ControlInv'
    <3> SUFFICES ASSUME ControlInv, UNCHANGED Discovery!boxVars PROVE ControlInv'
      OBVIOUS
    <3>1. UNCHANGED <<kind, address, told, text, chosen, list, open, note, edited, search, restore>>
      BY DEF Discovery!boxVars
    <3> QED BY <3>1, Zenon DEF ControlInv, ControlTypeOK, SearchOK, RestoreOK, ProductOK,
          Discovery!ControlsNameTheirChoice
  <2> QED BY <2>1, StepKeepsControlInv
<1>3. ControlInv => Discovery!ControlsNameTheirChoice
  BY DEF ControlInv
<1> QED BY <1>1, <1>2, <1>3, PTL DEF Discovery!BoxSpec
-----------------------------------------------------------------------------
(* The rows of a feed: the cohort of its build, projected on its filter.   *)
Rows(s, build) == Feed!Project(CohortOf(s.exporter, build), s.filter)

(* The projected cohorts are in canonical order, and no cursor, call or    *)
(* feed is Null.  (That SelectSeq keeps an order is an induction.)         *)
Canonical(rows) ==
  /\ rows \in Seq(ToSet(rows))
  /\ \A m, n \in DOMAIN rows : Feed!After(rows[n], rows[m]) <=> m < n
FeedAssumption ==
  /\ PageLimit \in Nat \ {0}
  /\ \A s \in Feed!Scopes : \A build \in Nat : Canonical(Rows(s, build))
  /\ \A s, build, key : [scope |-> s, build |-> build, key |-> key] # Null
  /\ \A s, build, rows, next :
       [scope |-> s, build |-> build, candidates |-> rows, next |-> next] # Null
  /\ \A s, build, fresh, pages, read, more :
       [scope |-> s, build |-> build, fresh |-> fresh, pages |-> pages,
        read |-> read, more |-> more] # Null
  /\ \A refreshes, s : [refreshes |-> refreshes, scope |-> s] # Null
  /\ Null \notin Feed!Scopes

(* The first k rows of a feed, with the cursor that continues them.        *)
FirstRows(s, build, k) ==
  [scope |-> s, build |-> build, candidates |-> SubSeq(Rows(s, build), 1, k),
   next |-> IF k = Len(Rows(s, build)) THEN Null
            ELSE [scope |-> s, build |-> build, key |-> Rows(s, build)[k]]]
IsFirstRows(f) ==
  /\ f.scope \in Feed!Scopes /\ f.build \in Nat
  /\ \E k \in 0 .. Len(Rows(f.scope, f.build)) :
       /\ k > 0 \/ k = Len(Rows(f.scope, f.build))
       /\ f = FirstRows(f.scope, f.build, k)

(* What is shown is a prefix, of the feed that the URL names; a call that  *)
(* loads a feed has read a prefix of it that goes on, while none is shown; *)
(* a call for a next page continues what is shown.                         *)
CallOK(c) ==
  /\ c = [scope |-> c.scope, build |-> c.build, fresh |-> c.fresh, pages |-> c.pages,
          read |-> c.read, more |-> c.more]
  /\ c.scope \in Feed!Scopes /\ c.build \in Nat /\ c.more \in BOOLEAN
LoadOK(c) ==
  c.more = FALSE =>
    /\ feed = Null
    /\ c.read # Null => /\ IsFirstRows(c.read) /\ c.read.next # Null
                        /\ c.read.scope = c.scope /\ c.read.build = c.build
MoreOK(c) ==
  c.more = TRUE => feed # Null /\ c.read = feed /\ feed.next # Null /\ c.build = feed.build

FeedInv ==
  /\ server \in Nat /\ manifest \in Nat
  /\ scope \in Feed!Scopes \cup {Null}
  /\ \A u \in visited \cup {url} : u.scope \in Feed!Scopes \cup {Null}
  /\ manifestCall # Null => manifestCall.scope \in Feed!Scopes \cup {Null}
  /\ feed # Null => IsFirstRows(feed) /\ url = Feed!Location(feed.scope, feed.build)
  /\ feedCall # Null => CallOK(feedCall) /\ LoadOK(feedCall) /\ MoreOK(feedCall)

(* The rows after the k-th are those from the next one on.                 *)
LEMMA LaterRows ==
  ASSUME NEW rows, Canonical(rows), NEW k \in 0 .. Len(rows)
  PROVE  /\ Len(rows) \in Nat /\ DOMAIN rows = 1 .. Len(rows)
         /\ k > 0 => {n \in 1 .. Len(rows) : Feed!After(rows[n], rows[k])} = (k + 1) .. Len(rows)
<1>1. Len(rows) \in Nat /\ DOMAIN rows = 1 .. Len(rows)
  BY DEF Canonical
<1>2. ASSUME k > 0
      PROVE  \A n \in 1 .. Len(rows) : Feed!After(rows[n], rows[k]) <=> k < n
  <2>1. k \in DOMAIN rows
    BY <1>1, <1>2
  <2> QED BY <1>1, <2>1 DEF Canonical
<1>3. ASSUME k > 0
      PROVE  \A n : n \in 1 .. Len(rows) /\ k < n <=> n \in (k + 1) .. Len(rows)
  BY <1>1
<1> QED BY <1>1, <1>2, <1>3

(* What SubSeq returns.                                                    *)
LEMMA SubSeqElements ==
  ASSUME NEW T, NEW r \in Seq(T), NEW k \in Nat, NEW l \in Nat, k <= l, l <= Len(r)
  PROVE  /\ SubSeq(r, k + 1, l) \in Seq(T)
         /\ Len(SubSeq(r, k + 1, l)) = l - k
         /\ \A i \in 1 .. l - k : SubSeq(r, k + 1, l)[i] = r[k + i]
OBVIOUS

(* pageOpportunityCohort continues the first k rows.                       *)
LEMMA PageContinues ==
  ASSUME FeedAssumption, NEW s \in Feed!Scopes, NEW build \in Nat,
         NEW k \in 0 .. Len(Rows(s, build)), NEW cursor,
         k = 0 => cursor = Null,
         k > 0 => cursor # Null /\ cursor.key = Rows(s, build)[k]
  PROVE  LET rows == Rows(s, build)
             last == IF k + PageLimit < Len(rows) THEN k + PageLimit ELSE Len(rows)
         IN  /\ Len(rows) \in Nat /\ PageLimit \in Nat /\ PageLimit > 0
             /\ Feed!Page(s, build, cursor) =
                  [candidates |-> SubSeq(rows, k + 1, last),
                   next |-> IF last = Len(rows) THEN Null
                            ELSE [scope |-> s, build |-> build, key |-> rows[last]]]
<1> DEFINE rows == Rows(s, build)
           after == IF cursor = Null THEN 1 .. Len(rows)
                    ELSE {n \in 1 .. Len(rows) : Feed!After(rows[n], cursor.key)}
           first == IF after = {} THEN Len(rows) + 1
                    ELSE CHOOSE n \in after : \A m \in after : n <= m
           end == IF first + PageLimit - 1 < Len(rows) THEN first + PageLimit - 1 ELSE Len(rows)
           window == SubSeq(rows, first, end)
           last == IF k + PageLimit < Len(rows) THEN k + PageLimit ELSE Len(rows)
<1>1. Canonical(rows)
  BY DEF FeedAssumption
<1>2. /\ Len(rows) \in Nat /\ DOMAIN rows = 1 .. Len(rows)
      /\ rows \in Seq(ToSet(rows))
  BY <1>1, LaterRows DEF Canonical
<1>3. PageLimit \in Nat /\ PageLimit > 0
  BY DEF FeedAssumption
<1>4. Feed!Page(s, build, cursor) =
        [candidates |-> window,
         next |-> IF first + PageLimit <= Len(rows) /\ window # <<>>
                  THEN [scope |-> s, build |-> build, key |-> Feed!Last(window)] ELSE Null]
  BY DEF Feed!Page, Rows
<1>5. after = (k + 1) .. Len(rows)
  <2>1. CASE k = 0
    BY <2>1
  <2>2. CASE k > 0
    <3>1. {n \in 1 .. Len(rows) : Feed!After(rows[n], rows[k])} = (k + 1) .. Len(rows)
      BY <1>1, <2>2, LaterRows
    <3> QED BY <2>2, <3>1
  <2>3. k = 0 \/ k > 0
    <3>1. k \in 0 .. Len(rows)
      OBVIOUS
    <3> HIDE DEF rows
    <3> QED BY <1>2, <3>1
  <2> HIDE DEF after
  <2> QED BY <2>1, <2>2, <2>3
<1> HIDE DEF rows, after
<1>6. first = k + 1
  <2>1. k \in 0 .. Len(rows)
    BY DEF rows
  <2>2. CASE k = Len(rows)
    BY <1>2, <1>5, <2>2
  <2>3. CASE k < Len(rows)
    <3>1. k + 1 \in after /\ \A m \in after : k + 1 <= m
      BY <1>2, <1>5, <2>1, <2>3
    <3>2. \A n \in after : n \in Nat
      BY <1>5, <2>1
    <3>3. \A n \in after : (\A m \in after : n <= m) => n = k + 1
      BY <3>1, <3>2, <2>1
    <3> QED BY <3>1, <3>3
  <2>4. k = Len(rows) \/ k < Len(rows)
    BY <1>2, <2>1
  <2> HIDE DEF first
  <2> QED BY <2>2, <2>3, <2>4
<1> HIDE DEF first
<1>7. k \in Nat /\ k <= Len(rows) /\ Len(rows) \in Nat
  <2>1. k \in 0 .. Len(rows)
    BY DEF rows
  <2> QED BY <1>2, <2>1
<1>8. /\ end = last /\ last \in Nat /\ last <= Len(rows)
      /\ first + PageLimit <= Len(rows) <=> last # Len(rows)
      /\ last # Len(rows) => k + 1 <= last
  <2>1. CASE k + PageLimit < Len(rows)
    BY <1>3, <1>6, <1>7, <2>1
  <2>2. CASE ~(k + PageLimit < Len(rows))
    BY <1>3, <1>6, <1>7, <2>2
  <2> QED BY <2>1, <2>2
<1> HIDE DEF end, last
<1>10. window = SubSeq(rows, k + 1, last)
  BY <1>6, <1>8
<1>11. ASSUME last # Len(rows)
       PROVE  window # <<>> /\ Feed!Last(window) = rows[last]
  <2>0. k <= last
    BY <1>7, <1>8, <1>11
  <2>1. window \in Seq(ToSet(rows)) /\ Len(window) = last - k
    <3> HIDE DEF window
    <3> QED BY <1>2, <1>7, <1>8, <1>10, <2>0, SubSeqElements
  <2>2. last - k \in 1 .. last - k /\ k + (last - k) = last
    BY <1>7, <1>8, <1>11
  <2>3. window[last - k] = rows[last]
    <3>1. \A i \in 1 .. last - k : window[i] = rows[k + i]
      <4> HIDE DEF window
      <4> QED BY <1>2, <1>7, <1>8, <1>10, <2>0, SubSeqElements
    <3> QED BY <2>2, <3>1
  <2>4. Feed!Last(window) = window[Len(window)]
    BY DEF Feed!Last
  <2>5. window # <<>>
    <3>1. Len(window) # Len(<<>>)
      BY <1>7, <1>8, <1>11, <2>1
    <3> QED BY <3>1
  <2> QED BY <2>1, <2>3, <2>4, <2>5
<1>12. Feed!Page(s, build, cursor) =
         [candidates |-> SubSeq(rows, k + 1, last),
          next |-> IF last = Len(rows) THEN Null
                   ELSE [scope |-> s, build |-> build, key |-> rows[last]]]
  <2>1. CASE last = Len(rows)
    BY <1>4, <1>8, <1>10, <2>1
  <2>2. CASE last # Len(rows)
    BY <1>4, <1>8, <1>10, <1>11, <2>2
  <2> QED BY <2>1, <2>2
<1> QED BY <1>2, <1>3, <1>12 DEF rows, last

(* One more page makes the first rows a longer prefix.                     *)
LEMMA RowsContinue ==
  ASSUME NEW rows, rows \in Seq(ToSet(rows)), NEW k \in 0 .. Len(rows), NEW l \in k .. Len(rows)
  PROVE  SubSeq(rows, 1, k) \o SubSeq(rows, k + 1, l) = SubSeq(rows, 1, l)
<1> DEFINE a == SubSeq(rows, 1, k)
           b == SubSeq(rows, k + 1, l)
           c == SubSeq(rows, 1, l)
<1>1. Len(rows) \in Nat /\ k \in Nat /\ l \in Nat /\ k <= l /\ l <= Len(rows)
  OBVIOUS
<1>2. a \in Seq(ToSet(rows)) /\ Len(a) = k /\ \A i \in 1 .. k : a[i] = rows[i]
  BY <1>1
<1>3. b \in Seq(ToSet(rows)) /\ Len(b) = l - k /\ \A i \in 1 .. l - k : b[i] = rows[k + i]
  BY <1>1, SubSeqElements
<1>4. c \in Seq(ToSet(rows)) /\ Len(c) = l /\ \A i \in 1 .. l : c[i] = rows[i]
  BY <1>1
<1> HIDE DEF a, b, c
<1> DEFINE ab == a \o b
<1>5. /\ ab \in Seq(ToSet(rows)) /\ Len(ab) = l
      /\ \A i \in 1 .. l : ab[i] = IF i <= k THEN a[i] ELSE b[i - k]
  <2>1. /\ ab \in Seq(ToSet(rows)) /\ Len(ab) = Len(a) + Len(b)
        /\ \A i \in 1 .. Len(a) + Len(b) : ab[i] = IF i <= Len(a) THEN a[i] ELSE b[i - Len(a)]
    <3>1. a \in Seq(ToSet(rows)) /\ b \in Seq(ToSet(rows))
      BY <1>2, <1>3
    <3> HIDE DEF ab
    <3> QED BY <3>1, ConcatHolds DEF ab
  <2>3. Len(a) + Len(b) = l
    BY <1>1, <1>2, <1>3
  <2> QED BY <1>2, <2>1, <2>3
<1> HIDE DEF ab
<1>6. ASSUME NEW i \in 1 .. l
      PROVE  ab[i] = c[i]
  <2>1. CASE i <= k
    BY <1>1, <1>2, <1>4, <1>5, <2>1
  <2>2. CASE i > k
    <3>1. ab[i] = b[i - k] /\ i - k \in 1 .. l - k
      BY <1>1, <1>5, <2>2
    <3>2. b[i - k] = rows[k + (i - k)] /\ k + (i - k) = i
      BY <1>1, <1>3, <3>1
    <3> QED BY <1>4, <3>1, <3>2
  <2> QED BY <1>1, <2>1, <2>2
<1>7. ab = c
  <2>1. ab = [i \in 1 .. l |-> ab[i]] /\ c = [i \in 1 .. l |-> c[i]]
    BY <1>4, <1>5
  <2> QED BY <1>6, <2>1
<1> QED BY <1>7 DEF ab, a, b, c

(* The first page of a feed.                                               *)
LEMMA FirstPageIsPrefix ==
  ASSUME FeedAssumption, NEW s \in Feed!Scopes, NEW build \in Nat
  PROVE  LET page == Feed!Page(s, build, Null)
         IN  IsFirstRows([scope |-> s, build |-> build, candidates |-> page.candidates,
                       next |-> page.next])
<1> DEFINE rows == Rows(s, build)
           last == IF 0 + PageLimit < Len(rows) THEN 0 + PageLimit ELSE Len(rows)
           page == Feed!Page(s, build, Null)
           f == [scope |-> s, build |-> build, candidates |-> page.candidates,
                 next |-> page.next]
<1>1. Len(rows) \in Nat
  <2>1. Canonical(rows)
    BY DEF FeedAssumption
  <2> QED BY <2>1, LaterRows DEF Canonical
<1>2. /\ PageLimit \in Nat /\ PageLimit > 0
      /\ page = [candidates |-> SubSeq(rows, 0 + 1, last),
                 next |-> IF last = Len(rows) THEN Null
                          ELSE [scope |-> s, build |-> build, key |-> rows[last]]]
  <2>1. 0 \in 0 .. Len(rows)
    BY <1>1
  <2> QED BY <2>1, PageContinues
<1> HIDE DEF page
<1>3. f = FirstRows(s, build, last)
  BY <1>2 DEF FirstRows
<1>4. f.scope = s /\ f.build = build
  OBVIOUS
<1>5. last \in 0 .. Len(rows) /\ (last # Len(rows) => last > 0)
  BY <1>1, <1>2
<1> HIDE DEF f, last
<1>7. IsFirstRows(f)
  BY <1>3, <1>4, <1>5 DEF IsFirstRows
<1> QED BY <1>7 DEF f, page

(* What appendOpportunityPage makes of a feed, and a further page of a call.*)
LEMMA AppendsRecord ==
  ASSUME NEW f, NEW page,
         f = [scope |-> f.scope, build |-> f.build, candidates |-> f.candidates, next |-> f.next]
  PROVE  Feed!Appends(f, page)
           = [scope |-> f.scope, build |-> f.build,
              candidates |-> f.candidates \o page.candidates, next |-> page.next]
<1>1. PICK s, build, rows, x :
        f = [scope |-> s, build |-> build, candidates |-> rows, next |-> x]
  OBVIOUS
<1>2. PICK longer : longer = f.candidates \o page.candidates
  OBVIOUS
<1>3. PICK g : g = [f EXCEPT !.candidates = longer]
  OBVIOUS
<1>4. g = [scope |-> s, build |-> build, candidates |-> longer, next |-> x]
  BY <1>1, <1>3
<1>5. [g EXCEPT !.next = page.next]
        = [scope |-> s, build |-> build, candidates |-> longer, next |-> page.next]
  BY <1>4
<1>6. Feed!Appends(f, page) = [[f EXCEPT !.candidates = longer] EXCEPT !.next = page.next]
  BY <1>2 DEF Feed!Appends
<1>7. f.scope = s /\ f.build = build
  BY <1>1
<1> QED BY <1>2, <1>3, <1>5, <1>6, <1>7

LEMMA CallGoesOn ==
  ASSUME NEW c, CallOK(c), NEW read
  PROVE  [c EXCEPT !.read = read, !.pages = @ - 1]
           = [scope |-> c.scope, build |-> c.build, fresh |-> c.fresh, pages |-> c.pages - 1,
              read |-> read, more |-> c.more]
<1>1. PICK s, build, fresh, pages, old, more :
        c = [scope |-> s, build |-> build, fresh |-> fresh, pages |-> pages, read |-> old,
             more |-> more]
  BY DEF CallOK
<1>2. PICK d : d = [c EXCEPT !.read = read]
  OBVIOUS
<1>3. d = [scope |-> s, build |-> build, fresh |-> fresh, pages |-> pages, read |-> read,
           more |-> more]
  BY <1>1, <1>2
<1>4. [d EXCEPT !.pages = pages - 1]
        = [scope |-> s, build |-> build, fresh |-> fresh, pages |-> pages - 1,
           read |-> read, more |-> more]
  BY <1>3
<1>5. /\ c.scope = s /\ c.build = build /\ c.fresh = fresh /\ c.pages = pages
      /\ c.more = more
  BY <1>1
<1>6. [c EXCEPT !.read = read, !.pages = @ - 1]
        = [[c EXCEPT !.read = read] EXCEPT !.pages = pages - 1]
  BY <1>5
<1> QED BY <1>2, <1>4, <1>5, <1>6

(* appendOpportunityPage of the page that continues a prefix.              *)
LEMMA AppendedIsPrefix ==
  ASSUME FeedAssumption, NEW f, IsFirstRows(f), f.next # Null
  PROVE  LET g == Feed!Appends(f, Feed!Page(f.scope, f.build, f.next))
         IN  IsFirstRows(g) /\ g.scope = f.scope /\ g.build = f.build
<1> DEFINE s == f.scope
           build == f.build
           rows == Rows(s, build)
<1>1. s \in Feed!Scopes /\ build \in Nat
  BY DEF IsFirstRows
<1>2. PICK k \in 0 .. Len(rows) : f = FirstRows(s, build, k) /\ k > 0
  <2>1. PICK k \in 0 .. Len(rows) : f = FirstRows(s, build, k) /\ (k > 0 \/ k = Len(rows))
    BY DEF IsFirstRows
  <2>2. k # Len(rows)
    BY <2>1 DEF FirstRows
  <2> QED BY <2>1, <2>2
<1> HIDE DEF s, build
<1>3. /\ f = [scope |-> s, build |-> build, candidates |-> SubSeq(rows, 1, k), next |-> f.next]
      /\ f.next = [scope |-> s, build |-> build, key |-> rows[k]]
      /\ f.next.key = rows[k]
  BY <1>2 DEF FirstRows
<1> DEFINE last == IF k + PageLimit < Len(rows) THEN k + PageLimit ELSE Len(rows)
           page == Feed!Page(s, build, f.next)
           g == Feed!Appends(f, page)
<1>4. /\ Len(rows) \in Nat /\ PageLimit \in Nat /\ PageLimit > 0
      /\ page = [candidates |-> SubSeq(rows, k + 1, last),
                 next |-> IF last = Len(rows) THEN Null
                          ELSE [scope |-> s, build |-> build, key |-> rows[last]]]
  <2> HIDE DEF page
  <2>1. f.next # Null /\ k # 0
    BY <1>2
  <2> QED BY <1>1, <1>3, <2>1, PageContinues DEF page
<1> HIDE DEF page
<1>5. last \in k .. Len(rows) /\ last > 0
  BY <1>2, <1>4
<1>6. SubSeq(rows, 1, k) \o SubSeq(rows, k + 1, last) = SubSeq(rows, 1, last)
  <2>1. rows \in Seq(ToSet(rows))
    BY <1>1 DEF FeedAssumption, Canonical
  <2> HIDE DEF rows, last
  <2> QED BY <1>2, <1>5, <2>1, RowsContinue
<1>7. g = [scope |-> s, build |-> build,
           candidates |-> SubSeq(rows, 1, k) \o page.candidates, next |-> page.next]
  <2>1. /\ f = [scope |-> f.scope, build |-> f.build, candidates |-> f.candidates,
               next |-> f.next]
        /\ f.candidates = SubSeq(rows, 1, k)
    <3> HIDE DEF rows
    <3> QED BY <1>3
  <2> QED BY <2>1, AppendsRecord DEF s, build
<1>8. g = FirstRows(s, build, last)
  BY <1>4, <1>6, <1>7 DEF FirstRows
<1>9. g.scope = s /\ g.build = build
  BY <1>7
<1> HIDE DEF g, last
<1>10. last \in 0 .. Len(Rows(s, build))
  BY <1>2, <1>4, <1>5
<1>11. IsFirstRows(g)
  BY <1>1, <1>5, <1>8, <1>9, <1>10 DEF IsFirstRows
<1> QED BY <1>9, <1>11 DEF g, page, s, build

(* Steps that leave a feed or a call alone, or drop it.                    *)
LEMMA FeedKept ==
  ASSUME FeedInv, server' \in Nat, manifest' \in Nat,
         scope' \in Feed!Scopes \cup {Null},
         \A u \in visited' \cup {url'} : u.scope \in Feed!Scopes \cup {Null},
         manifestCall' # Null => manifestCall'.scope \in Feed!Scopes \cup {Null},
         feed' = Null \/ (feed' = feed /\ url' = url),
         feedCall' = Null \/ (feedCall' = feedCall /\ feed' = feed)
  PROVE  FeedInv'
<1>1. feed' # Null => IsFirstRows(feed') /\ url' = Feed!Location(feed'.scope, feed'.build)
  BY DEF FeedInv
<1>2. feedCall' # Null => CallOK(feedCall') /\ LoadOK(feedCall)' /\ MoreOK(feedCall)'
  <2>1. CASE feedCall' = feedCall /\ feed' = feed
    BY <2>1 DEF FeedInv, LoadOK, MoreOK
  <2>2. CASE feedCall' = Null
    BY <2>2
  <2> QED BY <2>1, <2>2
<1> QED BY <1>1, <1>2 DEF FeedInv, IsFirstRows, CallOK

(* loadFeed, for a scope and a known build.                                *)
LEMMA LoadFeedKeeps ==
  ASSUME FeedAssumption, FeedInv, NEW s \in Feed!Scopes \cup {Null}, NEW known \in Nat,
         NEW fresh \in BOOLEAN, NEW pages, Feed!LoadFeed(s, known, fresh, pages),
         UNCHANGED <<server, scope, url, visited>>, manifest' \in Nat,
         manifestCall' \in {manifestCall, Null}
  PROVE  FeedInv'
<1> DEFINE build == IF fresh THEN known ELSE Feed!PinnedBuild(url.pin)
           c == [scope |-> s, build |-> build, fresh |-> fresh, pages |-> pages,
                 read |-> Null, more |-> FALSE]
<1>1. \/ s # Null /\ feedCall' = c /\ feed' = Null
      \/ UNCHANGED <<feedCall, feed>>
  BY DEF Feed!LoadFeed
<1>2. build \in Nat
  BY DEF FeedInv, Feed!PinnedBuild, Feed!Window
<1> HIDE DEF build
<1>3. CASE UNCHANGED <<feedCall, feed>>
  BY <1>3, FeedKept DEF FeedInv
<1>4. CASE s # Null /\ feedCall' = c /\ feed' = Null
  <2>1. /\ c.scope = s /\ c.build = build /\ c.read = Null /\ c.more = FALSE
        /\ c = [scope |-> c.scope, build |-> c.build, fresh |-> c.fresh, pages |-> c.pages,
                read |-> c.read, more |-> c.more]
    OBVIOUS
  <2> HIDE DEF c
  <2>2. CallOK(feedCall')
    BY <1>2, <1>4, <2>1 DEF CallOK
  <2>3. LoadOK(feedCall)' /\ MoreOK(feedCall)'
    BY <1>4, <2>1 DEF LoadOK, MoreOK
  <2> QED BY <1>4, <2>2, <2>3 DEF FeedInv, CallOK
<1> QED BY <1>1, <1>3, <1>4

(* A page of loadFeed arrives.                                             *)
LEMMA FeedArrivesKeeps ==
  ASSUME FeedAssumption, FeedInv, Feed!FeedArrives
  PROVE  FeedInv'
<1> DEFINE c == feedCall
           first == [scope |-> c.scope, build |-> c.build, candidates |-> Feed!Answer.candidates,
                     next |-> Feed!Answer.next]
           read == IF c.read = Null THEN first ELSE Feed!Appends(c.read, Feed!Answer)
           n == [c EXCEPT !.read = read, !.pages = @ - 1]
<1>1. /\ c # Null /\ c.more = FALSE
      /\ UNCHANGED <<server, manifest, scope, manifestCall>>
      /\ \/ /\ read.next # Null /\ feedCall' = n /\ UNCHANGED <<feed, url, visited>>
         \/ /\ feedCall' = Null /\ feed' = read
            /\ url' = Feed!Location(c.scope, c.build)
            /\ visited' \subseteq visited \cup {url}
  <2>1. c # Null /\ ~c.more
    BY DEF Feed!FeedArrives
  <2>2. c.more \in BOOLEAN
    BY <2>1 DEF FeedInv, CallOK
  <2> QED BY <2>1, <2>2 DEF Feed!FeedArrives, Feed!Pushed
<1>2. CallOK(c) /\ feed = Null
      /\ (c.read # Null => /\ IsFirstRows(c.read) /\ c.read.next # Null
                           /\ c.read.scope = c.scope /\ c.read.build = c.build)
  BY <1>1 DEF FeedInv, LoadOK
<1>3. IsFirstRows(read) /\ read.scope = c.scope /\ read.build = c.build
  <2>1. CASE c.read = Null
    <3>1. Feed!Answer = Feed!Page(c.scope, c.build, Null)
      BY <2>1 DEF Feed!Answer, Feed!Cursor
    <3>2. IsFirstRows(first)
      BY <1>2, <3>1, FirstPageIsPrefix DEF CallOK
    <3>3. first.scope = c.scope /\ first.build = c.build
      OBVIOUS
    <3> HIDE DEF first
    <3> QED BY <2>1, <3>2, <3>3
  <2>2. CASE c.read # Null
    <3>1. Feed!Answer = Feed!Page(c.read.scope, c.read.build, c.read.next)
      BY <1>2, <2>2 DEF Feed!Answer, Feed!Cursor
    <3>2. read = Feed!Appends(c.read, Feed!Page(c.read.scope, c.read.build, c.read.next))
      BY <2>2, <3>1
    <3> HIDE DEF read
    <3> QED BY <1>2, <2>2, <3>2, AppendedIsPrefix
  <2> QED BY <2>1, <2>2
<1> HIDE DEF read
<1>4. CASE read.next # Null /\ feedCall' = n /\ UNCHANGED <<feed, url, visited>>
  <2>1. n = [scope |-> c.scope, build |-> c.build, fresh |-> c.fresh, pages |-> c.pages - 1,
             read |-> read, more |-> c.more]
    BY <1>2, CallGoesOn
  <2> HIDE DEF c, n
  <2>2. /\ n.scope = c.scope /\ n.build = c.build /\ n.read = read /\ n.more = FALSE
        /\ n = [scope |-> n.scope, build |-> n.build, fresh |-> n.fresh, pages |-> n.pages,
                read |-> n.read, more |-> n.more]
    BY <1>1, <2>1
  <2>3. CallOK(feedCall')
    BY <1>2, <1>4, <2>2 DEF CallOK
  <2>4. LoadOK(feedCall)' /\ MoreOK(feedCall)'
    BY <1>2, <1>3, <1>4, <2>2 DEF LoadOK, MoreOK
  <2>5. feed' = Null /\ url' = url /\ visited' = visited
    BY <1>2, <1>4
  <2> QED BY <1>1, <2>3, <2>4, <2>5 DEF FeedInv, CallOK
<1>5. CASE /\ feedCall' = Null /\ feed' = read
           /\ url' = Feed!Location(c.scope, c.build)
           /\ visited' \subseteq visited \cup {url}
  <2>1. IsFirstRows(feed') /\ url' = Feed!Location(feed'.scope, feed'.build)
    BY <1>3, <1>5
  <2>2. url'.scope \in Feed!Scopes
    BY <1>2, <1>5 DEF CallOK, Feed!Location
  <2>3. \A u \in visited' \cup {url'} : u.scope \in Feed!Scopes \cup {Null}
    BY <1>5, <2>2 DEF FeedInv
  <2> QED BY <1>1, <1>5, <2>1, <2>3 DEF FeedInv, IsFirstRows
<1> QED BY <1>1, <1>4, <1>5

(* loadNextPage starts a call that continues what is shown.                *)
LEMMA NextPageKeeps ==
  ASSUME FeedAssumption, FeedInv, Feed!NextPage
  PROVE  FeedInv'
<1> DEFINE t == [feed.scope EXCEPT !.filter = scope.filter]
           c == [scope |-> t, build |-> feed.build, fresh |-> FALSE, pages |-> 1,
                 read |-> feed, more |-> TRUE]
<1>1. /\ feed # Null /\ scope # Null /\ feed.next # Null
      /\ UNCHANGED <<server, manifest, scope, url, visited, feed, manifestCall>>
      /\ feedCall' = feedCall \/ feedCall' = c
  BY DEF Feed!NextPage, Feed!controls
<1>2. CASE feedCall' = feedCall
  BY <1>1, <1>2, FeedKept DEF FeedInv
<1>3. CASE feedCall' = c
  <2>1. t \in Feed!Scopes /\ feed.build \in Nat
    BY <1>1 DEF FeedInv, IsFirstRows, Feed!Scopes
  <2> HIDE DEF t
  <2>2. /\ c.scope = t /\ c.build = feed.build /\ c.read = feed /\ c.more = TRUE
        /\ c = [scope |-> c.scope, build |-> c.build, fresh |-> c.fresh, pages |-> c.pages,
                read |-> c.read, more |-> c.more]
    OBVIOUS
  <2> HIDE DEF c
  <2>3. CallOK(feedCall')
    BY <1>3, <2>1, <2>2 DEF CallOK
  <2>4. LoadOK(feedCall)' /\ MoreOK(feedCall)'
    BY <1>1, <1>3, <2>2 DEF LoadOK, MoreOK
  <2> QED BY <1>1, <2>3, <2>4 DEF FeedInv, CallOK, IsFirstRows
<1> QED BY <1>1, <1>2, <1>3

(* Its page arrives.                                                       *)
LEMMA NextArrivesKeeps ==
  ASSUME FeedAssumption, FeedInv, Feed!NextArrives
  PROVE  FeedInv'
<1> DEFINE c == feedCall
<1>1. /\ c # Null /\ c.more = TRUE /\ feedCall' = Null
      /\ UNCHANGED <<server, manifest, scope, url, visited, manifestCall>>
      /\ feed' = feed \/ (feed' = Feed!Appends(feed, Feed!Answer) /\ c.scope = feed.scope)
  <2>1. c # Null /\ c.more
    BY DEF Feed!NextArrives
  <2>2. c.more \in BOOLEAN
    BY <2>1 DEF FeedInv, CallOK
  <2> QED BY <2>1, <2>2 DEF Feed!NextArrives, Feed!controls
<1>2. CASE feed' = feed
  BY <1>1, <1>2, FeedKept DEF FeedInv
<1>3. CASE feed' = Feed!Appends(feed, Feed!Answer) /\ c.scope = feed.scope
  <2>1. feed # Null /\ c.read = feed /\ feed.next # Null /\ c.build = feed.build
    BY <1>1 DEF FeedInv, MoreOK
  <2>2. IsFirstRows(feed) /\ url = Feed!Location(feed.scope, feed.build)
    BY <2>1 DEF FeedInv
  <2>3. Feed!Answer = Feed!Page(feed.scope, feed.build, feed.next)
    BY <1>3, <2>1 DEF Feed!Answer, Feed!Cursor
  <2>4. IsFirstRows(feed') /\ feed'.scope = feed.scope /\ feed'.build = feed.build
    BY <1>3, <2>1, <2>2, <2>3, AppendedIsPrefix
  <2> QED BY <1>1, <2>2, <2>4 DEF FeedInv, IsFirstRows
<1> QED BY <1>1, <1>2, <1>3

(* The other steps of the page and the server.                             *)
LEMMA FeedStepsKeep ==
  ASSUME FeedAssumption, FeedInv,
         \/ Feed!LoadManifest \/ Feed!Refresh \/ Feed!ManifestArrives \/ Feed!ManifestFails
         \/ Feed!RestoreScope \/ Feed!AutoLoad \/ Feed!Discover \/ Feed!FeedFails
         \/ Feed!NextFails \/ Feed!Activate
         \/ \E s \in Feed!Scopes : Feed!SelectScope(s)
         \/ \E u \in visited : Feed!Back(u)
         \/ UNCHANGED Feed!vars
  PROVE  FeedInv'
<1> USE DEF Feed!controls
<1>0. /\ server \in Nat /\ manifest \in Nat /\ scope \in Feed!Scopes \cup {Null}
      /\ \A u \in visited \cup {url} : u.scope \in Feed!Scopes \cup {Null}
      /\ manifestCall # Null => manifestCall.scope \in Feed!Scopes \cup {Null}
  BY DEF FeedInv
<1>1. CASE Feed!LoadManifest
  <2>1. manifestCall'.scope = Null
    BY <1>1 DEF Feed!LoadManifest
  <2> QED BY <1>0, <1>1, <2>1, FeedKept DEF Feed!LoadManifest
<1>2. CASE Feed!Refresh
  <2>1. manifestCall'.scope = scope
    BY <1>2 DEF Feed!Refresh
  <2> QED BY <1>0, <1>2, <2>1, FeedKept DEF Feed!Refresh
<1>3. CASE Feed!ManifestArrives
  <2>1. /\ manifestCall # Null /\ manifestCall' = Null /\ manifest' = server
        /\ UNCHANGED <<server, scope, url, visited>>
    BY <1>3 DEF Feed!ManifestArrives
  <2>2. CASE UNCHANGED <<feedCall, feed>>
    BY <1>0, <2>1, <2>2, FeedKept
  <2>3. CASE Feed!LoadFeed(manifestCall.scope, server, TRUE, 1)
    BY <1>0, <2>1, <2>3, LoadFeedKeeps
  <2> QED BY <1>3, <2>2, <2>3 DEF Feed!ManifestArrives
<1>4. CASE Feed!ManifestFails
  BY <1>0, <1>4, FeedKept DEF Feed!ManifestFails
<1>5. CASE Feed!RestoreScope
  BY <1>0, <1>5, FeedKept DEF Feed!RestoreScope
<1>6. CASE Feed!AutoLoad
  <2>1. PICK pages \in 1 .. 2 : Feed!LoadFeed(scope, manifest, FALSE, pages)
    BY <1>6 DEF Feed!AutoLoad
  <2>2. UNCHANGED <<server, manifest, scope, url, visited, manifestCall>>
    BY <1>6 DEF Feed!AutoLoad
  <2> QED BY <1>0, <2>1, <2>2, LoadFeedKeeps
<1>7. CASE Feed!Discover
  <2>1. /\ Feed!LoadFeed(scope, manifest, FALSE, 1)
        /\ UNCHANGED <<server, manifest, scope, url, visited, manifestCall>>
    BY <1>7 DEF Feed!Discover
  <2> QED BY <1>0, <2>1, LoadFeedKeeps
<1>8. CASE Feed!FeedFails \/ Feed!NextFails
  BY <1>0, <1>8, FeedKept DEF Feed!FeedFails, Feed!NextFails
<1>9. CASE Feed!Activate
  BY <1>0, <1>9, FeedKept DEF Feed!Activate
<1>10. ASSUME NEW s \in Feed!Scopes, Feed!SelectScope(s) PROVE FeedInv'
  <2>1. visited' \subseteq visited \cup {url}
    BY <1>10 DEF Feed!SelectScope, Feed!Pushed
  <2> QED BY <1>0, <1>10, <2>1, FeedKept DEF Feed!SelectScope, Feed!ResetFeed
<1>11. ASSUME NEW u \in visited, Feed!Back(u) PROVE FeedInv'
  <2>1. visited' \subseteq visited \cup {url} /\ url' \in visited
    BY <1>11 DEF Feed!Back, Feed!Pushed
  <2> QED BY <1>0, <1>11, <2>1, FeedKept DEF Feed!Back, Feed!ResetFeed
<1>12. CASE UNCHANGED Feed!vars
  BY <1>0, <1>12, FeedKept DEF Feed!vars
<1> QED BY <1>1, <1>2, <1>3, <1>4, <1>5, <1>6, <1>7, <1>8, <1>9, <1>10, <1>11, <1>12

(* The feed on the page is a prefix of one cohort in canonical order, with *)
(* a cursor as long as there is more, and the URL names it: for any        *)
(* cohorts, pages of any size, builds, filters and histories.              *)
THEOREM FeedShowsWhatItsUrlNames ==
  ASSUME FeedAssumption
  PROVE  Feed!Spec => [](Feed!FeedIsAPrefix /\ Feed!UrlNamesTheFeed)
<1>1. Feed!Init => FeedInv
  <2> SUFFICES ASSUME Feed!Init PROVE FeedInv
    OBVIOUS
  <2>1. url.scope \in Feed!Scopes \cup {Null}
    BY DEF Feed!Init, Feed!Location
  <2> QED BY <2>1 DEF Feed!Init, FeedInv
<1>2. FeedInv => Feed!FeedIsAPrefix /\ Feed!UrlNamesTheFeed
  <2> SUFFICES ASSUME FeedInv, feed # Null
               PROVE  /\ Feed!FeedIsAPrefix
                      /\ url = Feed!Location(feed.scope, feed.build)
    BY DEF Feed!FeedIsAPrefix, Feed!UrlNamesTheFeed
  <2> DEFINE rows == Rows(feed.scope, feed.build)
  <2>1. IsFirstRows(feed) /\ url = Feed!Location(feed.scope, feed.build)
    BY DEF FeedInv
  <2>2. PICK k \in 0 .. Len(rows) : feed = FirstRows(feed.scope, feed.build, k)
    BY <2>1 DEF IsFirstRows
  <2>3. Canonical(rows) /\ rows \in Seq(ToSet(rows)) /\ Len(rows) \in Nat
    <3>1. Canonical(rows)
      BY <2>1 DEF FeedAssumption, IsFirstRows
    <3> QED BY <3>1, LaterRows DEF Canonical
  <2>4. /\ feed.candidates = SubSeq(rows, 1, k)
        /\ feed.next = IF k = Len(rows) THEN Null
                       ELSE [scope |-> feed.scope, build |-> feed.build, key |-> rows[k]]
    BY <2>2 DEF FirstRows
  <2>5. Len(feed.candidates) = k
    <3> HIDE DEF rows
    <3> QED BY <2>2, <2>3, <2>4
  <2>6. (feed.next = Null) = (k = Len(rows))
    BY <2>4 DEF FeedAssumption
  <2> QED BY <2>1, <2>2, <2>3, <2>4, <2>5, <2>6 DEF Feed!FeedIsAPrefix, Rows
<1>3. FeedInv /\ [Feed!Next]_Feed!vars => FeedInv'
  BY FeedArrivesKeeps, NextPageKeeps, NextArrivesKeeps, FeedStepsKeep DEF Feed!Next
<1> QED BY <1>1, <1>2, <1>3, PTL DEF Feed!Spec
=============================================================================
