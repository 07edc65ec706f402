------------------------ MODULE BoundedRuntimeProofs ------------------------
(***************************************************************************)
(* Proofs about the bounded application runtime, and first about the       *)
(* analysis execution coordinator it contains.  Of the coordinator: type   *)
(* correctness, the accounting of group slots and workers, work            *)
(* conservation, that no call is lost and none overtaken, for any number   *)
(* of groups and members and any bounds.  Of the runtime: that it uses the *)
(* coordinator only as those proofs assume, that identical requests share  *)
(* one analysis that no single client can take away from the others, and   *)
(* that the cache answers for the deployment that is active, for any       *)
(* number of requests, keys and deployments.                               *)
(***************************************************************************)
EXTENDS BoundedRuntime, TLAPS


(* What a group remembers of the calls before it is sealed, and whose its  *)
(* members are.                                                            *)
RosterOK ==
  /\ \A g \in Groups : roster[g] \subseteq MembersOf(g)
  /\ \A m \in Members :
       state[GroupOf[m]] = "collecting" => outcome[m] = "none" /\ m \notin aborted

(* The inductive invariant: the checked invariants need each other.        *)
IInv ==
  /\ TypeOK
  /\ SlotAccounting
  /\ WorkConserving
  /\ NoAbortedWaiter
  /\ NoLostMember
  /\ QueuesConsistent
  /\ RosterOK

USE CoordinatorAssumption

-----------------------------------------------------------------------------
(* Every set of groups or members that a counter counts is finite.        *)
LEMMA SubsetsFinite ==
  /\ \A S \in SUBSET Members : IsFiniteSet(S) /\ Cardinality(S) \in Nat
  /\ \A S \in SUBSET Groups : IsFiniteSet(S) /\ Cardinality(S) \in Nat
BY FS_Subset, FS_CardinalityType

(* A decrement is right when one element leaves the counted set ...        *)
LEMMA OneFewer ==
  ASSUME NEW S, IsFiniteSet(S), NEW x \in S
  PROVE  Cardinality(S \ {x}) = Cardinality(S) - 1
BY FS_RemoveElement

(* ... and an increment when one new element joins it.                    *)
LEMMA OneMore ==
  ASSUME NEW S, IsFiniteSet(S), NEW x, x \notin S
  PROVE  Cardinality(S \cup {x}) = Cardinality(S) + 1
BY FS_AddElement

(* A batch has exactly one order: a sequence of its members, each once.    *)
LEMMA OrderingElements ==
  ASSUME NEW S \in SUBSET Members, NEW s \in Orderings(S)
  PROVE  s \in Seq(Members) /\ IsInjective(s) /\ ToSet(s) = S
<1> DEFINE n == Cardinality(S)
<1>1. n \in Nat /\ IsFiniteSet(S)
  BY SubsetsFinite
<1>2. s \in [1..n -> S]
  BY DEF Orderings
<1>3. \A i, j \in 1..n : i < j => s[i] < s[j]
  BY DEF Orderings
<1> HIDE DEF n
<1>4. IsInjective(s)
  <2> SUFFICES ASSUME NEW i \in 1..n, NEW j \in 1..n, s[i] = s[j]
               PROVE  i = j
    BY <1>2 DEF IsInjective
  <2>1. s[i] \in Nat /\ s[j] \in Nat
    BY <1>2
  <2> QED BY <1>1, <1>3, <2>1
<1>5. s \in Injection(1..n, S)
  BY <1>2, <1>4 DEF Injection
<1>6. IsFiniteSet(1..n) /\ Cardinality(1..n) = n
  BY <1>1, FS_Interval
<1>7. s \in Surjection(1..n, S)
  BY <1>1, <1>5, <1>6, FS_Injection DEF n
<1>8. ToSet(s) = S
  BY <1>2, <1>7 DEF Surjection, ToSet
<1>9. s \in Seq(Members)
  <2>1. s \in [1..n -> Members]
    BY <1>2
  <2> QED BY <2>1, <1>1
<1> QED BY <1>4, <1>8, <1>9

(* What drainMembers leaves: nobody is lost, nobody is both waiting and at *)
(* work, and members wait only behind busy workers.                        *)
LEMMA DrainMembersEffect ==
  ASSUME NEW q \in Seq(Members), NEW w \in SUBSET Members, NEW busy,
         IsInjective(q), ToSet(q) \cap w = {},
         busy = Cardinality(w), busy <= MaxConcurrentMembers,
         DrainMembers(q, w, busy)
  PROVE  /\ memberQueue' \in Seq(Members)
         /\ IsInjective(memberQueue')
         /\ worker' \in SUBSET Members
         /\ ToSet(memberQueue') \subseteq ToSet(q)
         /\ ToSet(memberQueue') \cap worker' = {}
         /\ ToSet(memberQueue') \cup worker' = ToSet(q) \cup w
         /\ activeMembers' = Cardinality(worker')
         /\ activeMembers' \in Nat
         /\ activeMembers' <= MaxConcurrentMembers
         /\ memberQueue' # <<>> => activeMembers' = MaxConcurrentMembers
<1> DEFINE n == Lesser(Len(q), MaxConcurrentMembers - busy)
           fresh == {q[i] : i \in 1..n}
<1>1. IsFiniteSet(w) /\ busy \in Nat
  BY SubsetsFinite
<1>2. n \in 0..Len(q) /\ busy + n <= MaxConcurrentMembers
      /\ (n = Len(q) \/ busy + n = MaxConcurrentMembers)
  BY <1>1 DEF Lesser
<1>3. /\ memberQueue' = SubSeq(q, n + 1, Len(q))
      /\ worker' = w \cup fresh
      /\ activeMembers' = busy + n
  BY DEF DrainMembers
<1> HIDE DEF n
<1>0. \A x : x \in fresh <=> \E i \in 1..n : x = q[i]
  OBVIOUS
<1> HIDE DEF fresh
<1>4. IsFiniteSet(fresh) /\ Cardinality(fresh) = n
  BY <1>0, <1>2, PrefixCardinality
<1>5. /\ memberQueue' \in Seq(Members)
      /\ Len(memberQueue') = Len(q) - n
      /\ IsInjective(memberQueue')
      /\ ToSet(memberQueue') = ToSet(q) \ fresh
  <2>1. /\ SubSeq(q, n + 1, Len(q)) \in Seq(Members)
        /\ Len(SubSeq(q, n + 1, Len(q))) = Len(q) - n
        /\ IsInjective(SubSeq(q, n + 1, Len(q)))
        /\ \A x : x \in ToSet(SubSeq(q, n + 1, Len(q)))
                 <=> x \in ToSet(q) /\ \A i \in 1..n : q[i] # x
    BY <1>2, SuffixElements
  <2>2. ToSet(SubSeq(q, n + 1, Len(q))) = ToSet(q) \ fresh
    BY <1>0, <2>1
  <2> QED BY <2>1, <2>2, <1>3
<1>6. fresh \subseteq ToSet(q) /\ fresh \subseteq Members
  <2>1. \A i \in 1..n : i \in DOMAIN q /\ q[i] \in Members
    BY <1>2
  <2> QED BY <1>0, <2>1 DEF ToSet
<1>7. Cardinality(worker') = busy + n
  <2>1. w \cap fresh = {}
    BY <1>6
  <2>2. Cardinality({}) = 0
    BY FS_EmptySet
  <2>3. Cardinality(w \cup fresh)
          = Cardinality(w) + Cardinality(fresh) - Cardinality(w \cap fresh)
    BY <1>1, <1>4, FS_Union
  <2>4. n \in Nat
    BY <1>2
  <2>5. Cardinality(w \cap fresh) = 0
    BY <2>1, <2>2
  <2>6. Cardinality(w \cup fresh) = busy + n
    BY <1>1, <1>4, <2>3, <2>4, <2>5
  <2> QED BY <1>3, <2>6
<1>8. memberQueue' # <<>> => activeMembers' = MaxConcurrentMembers
  <2>1. memberQueue' # <<>> => Len(memberQueue') # 0
    BY <1>5
  <2> QED BY <2>1, <1>2, <1>3, <1>5
<1>9. /\ ToSet(memberQueue') \cap worker' = {}
      /\ ToSet(memberQueue') \cup worker' = ToSet(q) \cup w
      /\ worker' \in SUBSET Members
  BY <1>3, <1>5, <1>6
<1>10. /\ activeMembers' = Cardinality(worker')
       /\ activeMembers' \in Nat
       /\ activeMembers' <= MaxConcurrentMembers
  BY <1>1, <1>2, <1>3, <1>7
<1> QED BY <1>5, <1>8, <1>9, <1>10

-----------------------------------------------------------------------------
(* settleGroupMember and the drains behind it: when member m leaves the    *)
(* member queue or its worker, whatever starts in its place, the invariant *)
(* is kept.                                                                *)
LEMMA SettleGroupMemberKeepsIInv ==
  ASSUME IInv,
         NEW m \in worker \cup ToSet(memberQueue),
         NEW q \in Seq(Members), NEW w \in SUBSET Members, NEW busy,
         IsInjective(q), ToSet(q) \cap w = {},
         ToSet(q) \cup w = (worker \cup ToSet(memberQueue)) \ {m},
         ToSet(q) \subseteq ToSet(memberQueue),
         busy = Cardinality(w), busy <= MaxConcurrentMembers,
         SettleGroupMember(GroupOf[m], q, w, busy),
         outcome' \in [Members -> Outcomes], outcome'[m] # "none",
         \A x \in Members \ {m} : outcome'[x] = outcome[x],
         aborted' \in SUBSET (aborted \cup {m}),
         timedOut' \in SUBSET Members
  PROVE  IInv'
<1> DEFINE g == GroupOf[m]
           busyMembers == worker \cup ToSet(memberQueue)
<1>1. /\ m \in Members
      /\ g \in Groups
      /\ state[g] = "running"
      /\ busyMembers \subseteq Members
  <2>1. worker \subseteq Members /\ ToSet(memberQueue) \subseteq Members
    BY DEF IInv, TypeOK, ToSet
  <2> QED BY <2>1 DEF IInv, NoLostMember
<1>2. /\ Running \in SUBSET Groups
      /\ g \in Running
      /\ m \in Unfinished(g)
      /\ Unfinished(g) \in SUBSET Members
      /\ remaining[g] = Cardinality(Unfinished(g))
      /\ remaining[g] \in Nat
      /\ active \in Nat
  BY <1>1 DEF Running, Unfinished, MembersOf, IInv, SlotAccounting, TypeOK
<1>3. Cardinality(Unfinished(g) \ {m}) = remaining[g] - 1
  <2>1. IsFiniteSet(Unfinished(g))
    BY <1>2, SubsetsFinite
  <2> QED BY <1>2, <2>1, OneFewer
<1>4. remaining[g] - 1 \in Nat
  BY <1>2, <1>3, SubsetsFinite
<1>5. m \notin ToSet(q) /\ m \notin w
  OBVIOUS
<1>6. \A h \in ToSet(queue) : state[h] = "queued" /\ h # g /\ m \notin roster[h]
  BY <1>1 DEF IInv, QueuesConsistent, RosterOK, MembersOf
<1>7. aborted' \in SUBSET Members
  BY <1>1 DEF IInv, TypeOK
<1>8. /\ \A h \in ToSet(queue) : roster[h] \cap aborted' = {}
      /\ ToSet(q) \cap aborted' = {}
  BY <1>5, <1>6 DEF IInv, NoAbortedWaiter
<1>9. \A x \in Members : x # m /\ state[GroupOf[x]] = "collecting" =>
        outcome'[x] = "none" /\ x \notin aborted'
  BY DEF IInv, RosterOK
<1>10. CASE /\ remaining[g] # 1
            /\ remaining' = [remaining EXCEPT ![g] = @ - 1]
            /\ DrainMembers(q, w, busy)
            /\ UNCHANGED <<state, roster, queue, active>>
  <2>1. /\ memberQueue' \in Seq(Members) /\ IsInjective(memberQueue')
        /\ worker' \in SUBSET Members
        /\ ToSet(memberQueue') \subseteq ToSet(q)
        /\ ToSet(memberQueue') \cap worker' = {}
        /\ ToSet(memberQueue') \cup worker' = busyMembers \ {m}
        /\ activeMembers' = Cardinality(worker') /\ activeMembers' \in Nat
        /\ activeMembers' <= MaxConcurrentMembers
        /\ memberQueue' # <<>> => activeMembers' = MaxConcurrentMembers
    BY <1>10, DrainMembersEffect
  <2>2. TypeOK'
    BY <1>1, <1>4, <1>7, <1>10, <2>1 DEF IInv, TypeOK
  <2>3. SlotAccounting'
    <3>1. Running' = Running
      BY <1>10 DEF Running
    <3>2. \A h \in Running : Unfinished(h)' = Unfinished(h) \ {m}
      BY <2>1 DEF Unfinished, MembersOf
    <3>3. \A h \in Running \ {g} : m \notin Unfinished(h)
      BY DEF Unfinished, MembersOf
    <3>4. \A h \in Running : remaining'[h] = Cardinality(Unfinished(h)')
      <4> SUFFICES ASSUME NEW h \in Running
                   PROVE  remaining'[h] = Cardinality(Unfinished(h)')
        OBVIOUS
      <4>1. h \in Groups /\ remaining \in [Groups -> Nat]
        BY DEF Running, IInv, TypeOK
      <4>2. CASE h = g
        BY <4>1, <4>2, <1>3, <1>10, <3>2
      <4>3. CASE h # g
        <5>1. Unfinished(h)' = Unfinished(h)
          <6>1. Unfinished(h)' = Unfinished(h) \ {m}
            BY <3>2
          <6>2. m \notin Unfinished(h)
            BY <4>3, <3>3
          <6>3. Unfinished(h) \ {m} = Unfinished(h)
            BY <6>2
          <6> QED BY <6>1, <6>3
        <5>2. remaining'[h] = remaining[h]
          BY <4>1, <4>3, <1>10
        <5>3. remaining[h] = Cardinality(Unfinished(h))
          BY DEF IInv, SlotAccounting
        <5> QED BY <5>1, <5>2, <5>3
      <4> QED BY <4>2, <4>3
    <3> QED BY <1>10, <2>1, <3>1, <3>4 DEF IInv, SlotAccounting
  <2>4. WorkConserving'
    BY <1>10, <2>1 DEF IInv, WorkConserving
  <2>5. NoAbortedWaiter'
    BY <1>8, <1>10, <2>1 DEF NoAbortedWaiter
  <2>6. NoLostMember'
    <3> SUFFICES ASSUME NEW x \in Members
                 PROVE  NoLostMember!(x)'
      BY DEF NoLostMember
    <3> QED BY <1>5, <1>10, <2>1 DEF IInv, NoLostMember
  <2>7. QueuesConsistent'
    BY <1>10, <2>1 DEF IInv, QueuesConsistent
  <2>8. RosterOK'
    BY <1>1, <1>9, <1>10 DEF IInv, RosterOK, MembersOf
  <2> QED BY <2>2, <2>3, <2>4, <2>5, <2>6, <2>7, <2>8 DEF IInv
<1>11. CASE /\ remaining[g] = 1
            /\ queue = <<>>
            /\ state' = [state EXCEPT ![g] = "settled"]
            /\ remaining' = [remaining EXCEPT ![g] = 0]
            /\ active' = active - 1
            /\ DrainMembers(q, w, busy)
            /\ UNCHANGED <<roster, queue>>
  <2>1. /\ memberQueue' \in Seq(Members) /\ IsInjective(memberQueue')
        /\ worker' \in SUBSET Members
        /\ ToSet(memberQueue') \subseteq ToSet(q)
        /\ ToSet(memberQueue') \cap worker' = {}
        /\ ToSet(memberQueue') \cup worker' = busyMembers \ {m}
        /\ activeMembers' = Cardinality(worker') /\ activeMembers' \in Nat
        /\ activeMembers' <= MaxConcurrentMembers
        /\ memberQueue' # <<>> => activeMembers' = MaxConcurrentMembers
    BY <1>11, DrainMembersEffect
  <2>2. /\ state' \in [Groups -> GroupStates]
        /\ \A h \in Groups : state'[h] = IF h = g THEN "settled" ELSE state[h]
    BY <1>1, <1>11 DEF IInv, TypeOK, GroupStates
  <2>3. Unfinished(g) = {m}
    <3>1. Cardinality(Unfinished(g) \ {m}) = 0
      BY <1>2, <1>3, <1>11
    <3>2. IsFiniteSet(Unfinished(g) \ {m})
      BY <1>2, SubsetsFinite
    <3>3. Unfinished(g) \ {m} = {}
      BY <3>1, <3>2, FS_EmptySet
    <3> QED BY <3>3, <1>2
  <2>4. Running' = Running \ {g} /\ Cardinality(Running') = active - 1
    <3>1. Running' = Running \ {g}
      BY <1>1, <2>2 DEF Running
    <3>2. active = Cardinality(Running)
      BY DEF IInv, SlotAccounting
    <3>3. IsFiniteSet(Running)
      BY <1>2, SubsetsFinite
    <3>4. Cardinality(Running \ {g}) = Cardinality(Running) - 1
      <4>1. g \in Running
        BY <1>2
      <4> QED BY <4>1, <3>3, OneFewer
    <3> QED BY <3>1, <3>2, <3>4
  <2>5. active - 1 \in Nat
    BY <2>4, <1>2, SubsetsFinite
  <2>6. \A x \in ToSet(memberQueue') \cup worker' :
          x \in busyMembers /\ GroupOf[x] # g
    BY <2>1, <2>3, <1>1 DEF Unfinished, MembersOf
  <2>7. TypeOK'
    BY <1>1, <1>7, <1>11, <2>1, <2>2, <2>5 DEF IInv, TypeOK
  <2>8. SlotAccounting'
    <3>1. \A h \in Running' : remaining'[h] = Cardinality(Unfinished(h)')
      <4> SUFFICES ASSUME NEW h \in Running'
                   PROVE  remaining'[h] = Cardinality(Unfinished(h)')
        OBVIOUS
      <4>1. h \in Running /\ h # g /\ h \in Groups
        BY <2>4 DEF Running
      <4>2. Unfinished(h)' = Unfinished(h)
        BY <4>1, <2>1 DEF Unfinished, MembersOf
      <4>3. remaining'[h] = remaining[h]
        BY <4>1, <1>11 DEF IInv, TypeOK
      <4>4. remaining[h] = Cardinality(Unfinished(h))
        BY <4>1 DEF IInv, SlotAccounting
      <4> QED BY <4>2, <4>3, <4>4
    <3>2. active' <= MaxConcurrent /\ active' = Cardinality(Running')
      BY <1>2, <1>11, <2>4, <2>5 DEF IInv, SlotAccounting
    <3>3. Len(queue') <= MaxQueued
      BY <1>11 DEF IInv, SlotAccounting
    <3> QED BY <2>1, <3>1, <3>2, <3>3 DEF SlotAccounting
  <2>9. WorkConserving'
    BY <1>11, <2>1 DEF WorkConserving
  <2>10. NoAbortedWaiter'
    BY <1>8, <1>11, <2>1 DEF NoAbortedWaiter
  <2>11. NoLostMember'
    <3> SUFFICES ASSUME NEW x \in Members
                 PROVE  NoLostMember!(x)'
      BY DEF NoLostMember
    <3>1. GroupOf[x] \in Groups
      OBVIOUS
    <3>2. NoLostMember!(x)
      BY DEF IInv, NoLostMember
    <3>3. CASE x = m
      BY <3>1, <3>2, <3>3, <1>1, <2>1, <2>2, <1>11
    <3>4. CASE x # m
      BY <3>1, <3>2, <3>4, <1>1, <1>5, <2>1, <2>2, <2>6, <1>11
    <3> QED BY <3>3, <3>4
  <2>12. QueuesConsistent'
    BY <1>1, <1>11, <2>1, <2>2 DEF IInv, QueuesConsistent
  <2>13. RosterOK'
    BY <1>1, <1>9, <1>11, <2>2 DEF IInv, RosterOK, MembersOf
  <2> QED BY <2>7, <2>8, <2>9, <2>10, <2>11, <2>12, <2>13 DEF IInv
<1>12. ASSUME NEW h, NEW s,
              remaining[g] = 1,
              queue # <<>>,
              h = Head(queue),
              state' = [state EXCEPT ![g] = "settled", ![h] = "running"],
              remaining' = [remaining EXCEPT ![g] = 0,
                                             ![h] = Cardinality(roster[h])],
              s \in Orderings(roster[h]),
              DrainMembers(q \o s, w, busy),
              queue' = Tail(queue),
              UNCHANGED <<roster, active>>
       PROVE  IInv'
  <2>1. /\ h \in Groups
        /\ queue' \in Seq(Groups)
        /\ Len(queue') = Len(queue) - 1
        /\ IsInjective(queue')
        /\ ToSet(queue') = ToSet(queue) \ {h}
        /\ h \in ToSet(queue)
    <3>1. queue \in Seq(Groups) /\ IsInjective(queue) /\ queue # <<>>
          /\ h = Head(queue) /\ queue' = Tail(queue)
      BY <1>12 DEF IInv, TypeOK, QueuesConsistent
    <3> QED BY <3>1, TailElements
  <2>2. state[h] = "queued" /\ h # g /\ roster[h] \cap aborted' = {}
    BY <1>6, <1>8, <2>1
  <2>3. roster[h] \in SUBSET Members /\ roster[h] \subseteq MembersOf(h)
    BY <2>1 DEF IInv, TypeOK, RosterOK
  <2>4. s \in Seq(Members) /\ IsInjective(s) /\ ToSet(s) = roster[h]
    BY <1>12, <2>3, OrderingElements
  <2>5. roster[h] \cap busyMembers = {}
    <3> SUFFICES ASSUME NEW x \in roster[h], x \in busyMembers
                 PROVE  FALSE
      OBVIOUS
    <3>1. x \in Members /\ GroupOf[x] = h
      BY <2>3 DEF MembersOf
    <3> QED BY <3>1, <2>2 DEF IInv, NoLostMember
  <2>6. /\ q \o s \in Seq(Members)
        /\ IsInjective(q \o s)
        /\ ToSet(q \o s) = ToSet(q) \cup roster[h]
    <3>1. ToSet(q) \cap ToSet(s) = {}
      BY <2>4, <2>5
    <3> QED BY <2>4, <3>1, ConcatElements
  <2>7. ToSet(q \o s) \cap w = {}
    BY <2>5, <2>6
  <2>8. /\ memberQueue' \in Seq(Members) /\ IsInjective(memberQueue')
        /\ worker' \in SUBSET Members
        /\ ToSet(memberQueue') \subseteq ToSet(q \o s)
        /\ ToSet(memberQueue') \cap worker' = {}
        /\ ToSet(memberQueue') \cup worker' = ToSet(q \o s) \cup w
        /\ activeMembers' = Cardinality(worker') /\ activeMembers' \in Nat
        /\ activeMembers' <= MaxConcurrentMembers
        /\ memberQueue' # <<>> => activeMembers' = MaxConcurrentMembers
    BY <1>12, <2>6, <2>7, DrainMembersEffect
  <2>9. ToSet(memberQueue') \cup worker' = (busyMembers \ {m}) \cup roster[h]
    BY <2>6, <2>8
  <2>10. /\ state' \in [Groups -> GroupStates]
         /\ \A k \in Groups :
              state'[k] = IF k = h THEN "running"
                          ELSE IF k = g THEN "settled" ELSE state[k]
    BY <1>1, <1>12, <2>1, <2>2 DEF IInv, TypeOK, GroupStates
  <2>11. Unfinished(g) = {m}
    <3>1. Cardinality(Unfinished(g) \ {m}) = 0
      BY <1>2, <1>3, <1>12
    <3>2. IsFiniteSet(Unfinished(g) \ {m})
      BY <1>2, SubsetsFinite
    <3>3. Unfinished(g) \ {m} = {}
      BY <3>1, <3>2, FS_EmptySet
    <3> QED BY <3>3, <1>2
  <2>12. Running' = (Running \ {g}) \cup {h}
    BY <1>1, <2>1, <2>2, <2>10 DEF Running
  <2>13. Cardinality(Running') = Cardinality(Running)
    <3>1. h \notin Running /\ g \in Running /\ IsFiniteSet(Running)
      BY <1>2, <2>2, SubsetsFinite DEF Running
    <3>2. Cardinality(Running \ {g}) = Cardinality(Running) - 1
      BY <3>1, OneFewer
    <3>3. IsFiniteSet(Running \ {g}) /\ h \notin Running \ {g}
      BY <1>2, <3>1, SubsetsFinite
    <3>4. Cardinality((Running \ {g}) \cup {h}) = Cardinality(Running \ {g}) + 1
      BY <3>3, OneMore
    <3>5. Cardinality(Running) \in Nat
      BY <1>2, SubsetsFinite
    <3> QED BY <2>12, <3>2, <3>4, <3>5
  <2>14. \A x \in ToSet(memberQueue') \cup worker' :
           \/ x \in busyMembers /\ x # m /\ GroupOf[x] # g /\ GroupOf[x] # h
           \/ x \in roster[h] /\ GroupOf[x] = h
    <3> SUFFICES ASSUME NEW x \in ToSet(memberQueue') \cup worker'
                 PROVE  \/ x \in busyMembers /\ x # m
                           /\ GroupOf[x] # g /\ GroupOf[x] # h
                        \/ x \in roster[h] /\ GroupOf[x] = h
      OBVIOUS
    <3>1. CASE x \in roster[h]
      BY <3>1, <2>3 DEF MembersOf
    <3>2. CASE x \in busyMembers /\ x # m
      <4>1. x \in Members /\ GroupOf[x] # g
        BY <3>2, <1>1, <2>11 DEF Unfinished, MembersOf
      <4>2. state[GroupOf[x]] = "running"
        BY <3>2, <4>1 DEF IInv, NoLostMember
      <4> QED BY <3>2, <4>1, <4>2, <2>2
    <3> QED BY <3>1, <3>2, <2>9
  <2>15. /\ remaining' \in [Groups -> Nat]
         /\ \A k \in Groups :
              remaining'[k] = IF k = h THEN Cardinality(roster[h])
                              ELSE IF k = g THEN 0 ELSE remaining[k]
    <3>1. Cardinality(roster[h]) \in Nat
      BY <2>3, SubsetsFinite
    <3> QED BY <3>1, <1>1, <1>12, <2>1, <2>2 DEF IInv, TypeOK
  <2>16. TypeOK'
    BY <1>7, <1>12, <2>1, <2>8, <2>10, <2>15 DEF IInv, TypeOK
  <2>17. SlotAccounting'
    <3>1. \A k \in Running' : remaining'[k] = Cardinality(Unfinished(k)')
      <4> SUFFICES ASSUME NEW k \in Running'
                   PROVE  remaining'[k] = Cardinality(Unfinished(k)')
        OBVIOUS
      <4>1. k \in Groups
        BY DEF Running
      <4>2. CASE k = h
        <5>1. Unfinished(h)' = roster[h]
          BY <2>3, <2>9, <2>14 DEF Unfinished, MembersOf
        <5> QED BY <4>1, <4>2, <5>1, <2>15
      <4>3. CASE k # h
        <5>1. k \in Running /\ k # g
          BY <4>3, <2>12
        <5>2. Unfinished(k)' = Unfinished(k)
          BY <4>3, <5>1, <2>3, <2>9, <1>1 DEF Unfinished, MembersOf
        <5>3. remaining'[k] = remaining[k]
          BY <4>1, <4>3, <5>1, <2>15
        <5>4. remaining[k] = Cardinality(Unfinished(k))
          BY <5>1 DEF IInv, SlotAccounting
        <5> QED BY <5>2, <5>3, <5>4
      <4> QED BY <4>2, <4>3
    <3>2. active' <= MaxConcurrent /\ active' = Cardinality(Running')
      BY <1>12, <2>13 DEF IInv, SlotAccounting
    <3>3. Len(queue') <= MaxQueued
      <4>1. Len(queue) \in Nat /\ Len(queue) <= MaxQueued
        BY DEF IInv, SlotAccounting, TypeOK
      <4> QED BY <4>1, <2>1
    <3> QED BY <2>8, <3>1, <3>2, <3>3 DEF SlotAccounting
  <2>18. WorkConserving'
    BY <1>12, <2>8 DEF IInv, WorkConserving
  <2>19. NoAbortedWaiter'
    <3>1. \A k \in ToSet(queue') : roster'[k] \cap aborted' = {}
      BY <1>8, <1>12, <2>1
    <3>2. ToSet(memberQueue') \cap aborted' = {}
      <4>1. roster[h] \cap aborted' = {}
        BY <1>8, <2>1
      <4> QED BY <4>1, <1>8, <2>6, <2>8
    <3> QED BY <3>1, <3>2 DEF NoAbortedWaiter
  <2>20. NoLostMember'
    <3> SUFFICES ASSUME NEW x \in Members
                 PROVE  NoLostMember!(x)'
      BY DEF NoLostMember
    <3>1. GroupOf[x] \in Groups
      OBVIOUS
    <3>2. NoLostMember!(x)
      BY DEF IInv, NoLostMember
    <3>3. x \in roster[h] => GroupOf[x] = h
      BY <2>3 DEF MembersOf
    <3>4. CASE x = m
      BY <3>1, <3>2, <3>4, <1>1, <2>2, <2>5, <2>8, <2>9, <2>10, <1>12
    <3>5. CASE x # m /\ GroupOf[x] = h
      BY <3>1, <3>2, <3>3, <3>5, <1>1, <2>2, <2>8, <2>9, <2>10, <2>14, <1>12
    <3>6. CASE x # m /\ GroupOf[x] # h
      BY <3>1, <3>2, <3>3, <3>6, <1>1, <1>5, <2>6, <2>8, <2>9, <2>10, <2>14,
         <1>12
    <3> QED BY <3>4, <3>5, <3>6
  <2>21. QueuesConsistent'
    <3>1. ToSet(queue') = {k \in Groups : state'[k] = "queued"}
      <4>1. ToSet(queue) = {k \in Groups : state[k] = "queued"}
        BY DEF IInv, QueuesConsistent
      <4> QED BY <4>1, <1>1, <2>1, <2>10
    <3>2. \A k \in ToSet(queue') : roster'[k] # {}
      BY <1>12, <2>1 DEF IInv, QueuesConsistent
    <3> QED BY <2>1, <2>8, <3>1, <3>2 DEF QueuesConsistent
  <2>22. RosterOK'
    <3>1. \A k \in Groups : roster'[k] \subseteq MembersOf(k)
      BY <1>12 DEF IInv, RosterOK
    <3>2. ASSUME NEW x \in Members, state'[GroupOf[x]] = "collecting"
          PROVE  outcome'[x] = "none" /\ x \notin aborted'
      BY <3>2, <1>1, <1>9, <2>10
    <3> QED BY <3>1, <3>2 DEF RosterOK, MembersOf
  <2> QED BY <2>16, <2>17, <2>18, <2>19, <2>20, <2>21, <2>22 DEF IInv
<1> QED BY <1>10, <1>11, <1>12 DEF SettleGroupMember

-----------------------------------------------------------------------------
(* One lemma per action: it keeps the inductive invariant.                 *)

(* A new coordinator runs nothing and has nothing to account for.         *)
LEMMA InitIInv == Init => IInv
<1> SUFFICES ASSUME Init PROVE IInv
  OBVIOUS
<1> USE DEF Init
<1>1. Running = {} /\ ToSet(queue) = {} /\ ToSet(memberQueue) = {}
  BY DEF Running, ToSet
<1>2. Cardinality({}) = 0
  BY FS_EmptySet
<1>3. TypeOK
  BY DEF TypeOK, GroupStates, Outcomes
<1>4. SlotAccounting
  BY <1>1, <1>2 DEF SlotAccounting
<1>5. QueuesConsistent
  BY <1>1 DEF QueuesConsistent, IsInjective
<1> QED BY <1>1, <1>3, <1>4, <1>5 DEF IInv, WorkConserving, NoAbortedWaiter,
                                      NoLostMember, RosterOK

(* sealGroup of a group without members only settles it.                  *)
LEMMA SubmitEmptyKeepsIInv ==
  ASSUME IInv, NEW g \in Groups, NEW S \in SUBSET MembersOf(g),
         SubmitEmpty(g, S)
  PROVE  IInv'
<1> USE DEF SubmitEmpty, groupVars, memberVars, promiseVars
<1>2. /\ state' \in [Groups -> GroupStates]
      /\ \A k \in Groups : state'[k] = IF k = g THEN "settled" ELSE state[k]
  BY DEF IInv, TypeOK, GroupStates
<1>3. Running' = Running
  BY <1>2 DEF Running
<1>4. \A k \in Groups : Unfinished(k)' = Unfinished(k)
  BY DEF Unfinished, MembersOf
<1>5. TypeOK'
  BY <1>2 DEF IInv, TypeOK
<1>6. SlotAccounting'
  BY <1>3, <1>4 DEF IInv, SlotAccounting, Running
<1>7. NoLostMember'
  <2> SUFFICES ASSUME NEW x \in Members
               PROVE  NoLostMember!(x)'
    BY DEF NoLostMember
  <2>1. NoLostMember!(x) /\ GroupOf[x] \in Groups
    BY DEF IInv, NoLostMember
  <2> QED BY <2>1, <1>2
<1>8. QueuesConsistent'
  BY <1>2 DEF IInv, QueuesConsistent
<1>9. RosterOK'
  BY <1>2 DEF IInv, RosterOK, MembersOf
<1> QED BY <1>5, <1>6, <1>7, <1>8, <1>9
        DEF IInv, WorkConserving, NoAbortedWaiter

(* sealGroup at a full queue rejects every member and takes no slot.      *)
LEMMA SubmitQueueFullKeepsIInv ==
  ASSUME IInv, NEW g \in Groups, NEW S \in SUBSET MembersOf(g),
         SubmitQueueFull(g, S)
  PROVE  IInv'
<1> USE DEF SubmitQueueFull, groupVars, memberVars, promiseVars
<1>1. /\ state' \in [Groups -> GroupStates]
      /\ \A k \in Groups : state'[k] = IF k = g THEN "settled" ELSE state[k]
  BY DEF IInv, TypeOK, GroupStates
<1>2. /\ roster' \in [Groups -> SUBSET Members]
      /\ \A k \in Groups : roster'[k] = IF k = g THEN S ELSE roster[k]
  BY DEF IInv, TypeOK, MembersOf
<1>3. /\ outcome' \in [Members -> Outcomes]
      /\ \A x \in Members :
           outcome'[x] = IF x \in S THEN "queue-full" ELSE outcome[x]
  BY DEF IInv, TypeOK, Outcomes, Rejections
<1>4. Running' = Running
  BY <1>1 DEF Running
<1>5. \A k \in Groups : Unfinished(k)' = Unfinished(k)
  BY DEF Unfinished, MembersOf
<1>6. g \notin ToSet(queue)
  BY DEF IInv, QueuesConsistent
<1>7. ToSet(queue) \subseteq Groups
  BY DEF IInv, QueuesConsistent
<1>8. TypeOK'
  BY <1>1, <1>2, <1>3 DEF IInv, TypeOK
<1>9. SlotAccounting'
  BY <1>4, <1>5 DEF IInv, SlotAccounting, Running
<1>10. NoAbortedWaiter'
  BY <1>2, <1>6, <1>7 DEF IInv, NoAbortedWaiter
<1>11. NoLostMember'
  <2> SUFFICES ASSUME NEW x \in Members
               PROVE  NoLostMember!(x)'
    BY DEF NoLostMember
  <2>1. NoLostMember!(x) /\ GroupOf[x] \in Groups
    BY DEF IInv, NoLostMember
  <2>2. x \in S => GroupOf[x] = g
    BY DEF MembersOf
  <2>3. CASE GroupOf[x] = g
    BY <2>1, <2>2, <2>3, <1>1, <1>2, <1>3
  <2>4. CASE GroupOf[x] # g
    BY <2>1, <2>2, <2>4, <1>1, <1>2, <1>3
  <2> QED BY <2>3, <2>4
<1>12. QueuesConsistent'
  BY <1>1, <1>2, <1>6, <1>7 DEF IInv, QueuesConsistent
<1>13. RosterOK'
  <2>1. /\ \A k \in Groups : roster[k] \subseteq MembersOf(k)
        /\ \A x \in Members :
             state[GroupOf[x]] = "collecting" => outcome[x] = "none" /\ x \notin aborted
    BY DEF IInv, RosterOK
  <2>2. \A k \in Groups : roster'[k] \subseteq MembersOf(k)
    BY <1>2, <2>1
  <2>3. ASSUME NEW x \in Members, state'[GroupOf[x]] = "collecting"
        PROVE  outcome'[x] = "none" /\ x \notin aborted'
    <3>1. GroupOf[x] # g /\ state[GroupOf[x]] = "collecting" /\ x \notin S
      BY <1>1, <2>3 DEF MembersOf
    <3> QED BY <1>3, <2>1, <3>1
  <2> QED BY <2>2, <2>3 DEF RosterOK, MembersOf
<1> QED BY <1>8, <1>9, <1>10, <1>11, <1>12, <1>13 DEF IInv, WorkConserving

(* sealGroup queues a group only while every slot is taken.               *)
LEMMA SubmitAndQueueKeepsIInv ==
  ASSUME IInv, NEW g \in Groups, NEW S \in SUBSET MembersOf(g),
         SubmitAndQueue(g, S)
  PROVE  IInv'
<1> USE DEF SubmitAndQueue, groupVars, memberVars, promiseVars
<1>1. /\ state' \in [Groups -> GroupStates]
      /\ \A k \in Groups : state'[k] = IF k = g THEN "queued" ELSE state[k]
  BY DEF IInv, TypeOK, GroupStates
<1>2. /\ roster' \in [Groups -> SUBSET Members]
      /\ \A k \in Groups : roster'[k] = IF k = g THEN S ELSE roster[k]
  BY DEF IInv, TypeOK, MembersOf
<1>3. queue \in Seq(Groups) /\ IsInjective(queue) /\ g \notin ToSet(queue)
  BY DEF IInv, TypeOK, QueuesConsistent
<1>4. /\ queue' \in Seq(Groups)
      /\ Len(queue') = Len(queue) + 1
      /\ IsInjective(queue')
      /\ ToSet(queue') = ToSet(queue) \cup {g}
  BY <1>3, AppendElements
<1>5. Running' = Running
  BY <1>1 DEF Running
<1>6. \A k \in Groups : Unfinished(k)' = Unfinished(k)
  BY DEF Unfinished, MembersOf
<1>7. ToSet(queue) \subseteq Groups
  BY DEF IInv, QueuesConsistent
<1>8. \A x \in S : x \notin aborted /\ outcome[x] = "none"
  BY DEF IInv, RosterOK, MembersOf
<1>9. TypeOK'
  BY <1>1, <1>2, <1>4 DEF IInv, TypeOK
<1>10. SlotAccounting'
  <2>1. Len(queue') <= MaxQueued
    <3>1. Len(queue) \in Nat /\ Len(queue) < MaxQueued
      BY <1>3
    <3> QED BY <3>1, <1>4
  <2> QED BY <1>5, <1>6, <2>1 DEF IInv, SlotAccounting, Running
<1>11. WorkConserving'
  BY DEF IInv, WorkConserving, SlotAccounting, TypeOK
<1>12. NoAbortedWaiter'
  BY <1>2, <1>4, <1>7, <1>8 DEF IInv, NoAbortedWaiter
<1>13. NoLostMember'
  <2> SUFFICES ASSUME NEW x \in Members
               PROVE  NoLostMember!(x)'
    BY DEF NoLostMember
  <2>1. NoLostMember!(x) /\ GroupOf[x] \in Groups
    BY DEF IInv, NoLostMember
  <2>2. x \in S => GroupOf[x] = g
    BY DEF MembersOf
  <2> QED BY <2>1, <2>2, <1>1, <1>2, <1>8
<1>14. QueuesConsistent'
  <2>1. ToSet(queue') = {k \in Groups : state'[k] = "queued"}
    BY <1>1, <1>4 DEF IInv, QueuesConsistent
  <2>2. \A k \in ToSet(queue') : roster'[k] # {}
    BY <1>2, <1>4, <1>7 DEF IInv, QueuesConsistent
  <2> QED BY <1>4, <2>1, <2>2 DEF IInv, QueuesConsistent
<1>15. RosterOK'
  <2>1. /\ \A k \in Groups : roster[k] \subseteq MembersOf(k)
        /\ \A x \in Members :
             state[GroupOf[x]] = "collecting" => outcome[x] = "none" /\ x \notin aborted
    BY DEF IInv, RosterOK
  <2>2. \A k \in Groups : roster'[k] \subseteq MembersOf(k)
    BY <1>2, <2>1
  <2>3. ASSUME NEW x \in Members, state'[GroupOf[x]] = "collecting"
        PROVE  outcome'[x] = "none" /\ x \notin aborted'
    <3>1. GroupOf[x] # g /\ state[GroupOf[x]] = "collecting" /\ x \notin S
      BY <1>1, <2>3 DEF MembersOf
    <3> QED BY <2>1, <3>1
  <2> QED BY <2>2, <2>3 DEF RosterOK, MembersOf
<1> QED BY <1>9, <1>10, <1>11, <1>12, <1>13, <1>14, <1>15 DEF IInv

(* startGroup takes one slot, and its members wait only behind busy        *)
(* workers.                                                               *)
LEMMA SubmitAndStartKeepsIInv ==
  ASSUME IInv, NEW g \in Groups, NEW S \in SUBSET MembersOf(g),
         SubmitAndStart(g, S)
  PROVE  IInv'
<1>1. PICK s \in Orderings(S) :
        DrainMembers(memberQueue \o s, worker, activeMembers)
  BY DEF SubmitAndStart
<1>2. /\ state[g] = "collecting"
      /\ active < MaxConcurrent
      /\ state' \in [Groups -> GroupStates]
      /\ \A k \in Groups : state'[k] = IF k = g THEN "running" ELSE state[k]
      /\ roster' \in [Groups -> SUBSET Members]
      /\ \A k \in Groups : roster'[k] = IF k = g THEN S ELSE roster[k]
      /\ active' = active + 1
      /\ UNCHANGED <<queue, outcome, aborted, timedOut>>
  BY DEF SubmitAndStart, IInv, TypeOK, GroupStates, MembersOf, promiseVars
<1>3. S \in SUBSET Members
  BY DEF MembersOf
<1>4. /\ remaining' \in [Groups -> Nat]
      /\ \A k \in Groups : remaining'[k] = IF k = g THEN Cardinality(S)
                                                    ELSE remaining[k]
  <2>1. Cardinality(S) \in Nat
    BY <1>3, SubsetsFinite
  <2> QED BY <2>1 DEF SubmitAndStart, IInv, TypeOK
<1>5. s \in Seq(Members) /\ IsInjective(s) /\ ToSet(s) = S
  BY <1>3, OrderingElements
<1>6. /\ memberQueue \in Seq(Members) /\ IsInjective(memberQueue)
      /\ worker \in SUBSET Members
      /\ activeMembers = Cardinality(worker)
      /\ activeMembers <= MaxConcurrentMembers
  BY DEF IInv, TypeOK, QueuesConsistent, SlotAccounting
<1>7. \A x \in worker \cup ToSet(memberQueue) :
        x \in Members /\ state[GroupOf[x]] = "running" /\ GroupOf[x] # g
  <2>1. ToSet(memberQueue) \subseteq Members
    BY <1>6 DEF ToSet
  <2> QED BY <2>1, <1>2, <1>6 DEF IInv, NoLostMember
<1>8. ToSet(memberQueue) \cap S = {} /\ worker \cap S = {}
  BY <1>7 DEF MembersOf
<1>9. /\ memberQueue \o s \in Seq(Members)
      /\ IsInjective(memberQueue \o s)
      /\ ToSet(memberQueue \o s) = ToSet(memberQueue) \cup S
  <2>1. ToSet(memberQueue) \cap ToSet(s) = {}
    BY <1>5, <1>8
  <2> QED BY <1>5, <1>6, <2>1, ConcatElements
<1>10. ToSet(memberQueue \o s) \cap worker = {}
  <2>1. ToSet(memberQueue) \cap worker = {}
    BY <1>7 DEF IInv, NoLostMember
  <2> QED BY <2>1, <1>8, <1>9
<1>11. /\ memberQueue' \in Seq(Members) /\ IsInjective(memberQueue')
       /\ worker' \in SUBSET Members
       /\ ToSet(memberQueue') \subseteq ToSet(memberQueue \o s)
       /\ ToSet(memberQueue') \cap worker' = {}
       /\ ToSet(memberQueue') \cup worker' = ToSet(memberQueue \o s) \cup worker
       /\ activeMembers' = Cardinality(worker') /\ activeMembers' \in Nat
       /\ activeMembers' <= MaxConcurrentMembers
       /\ memberQueue' # <<>> => activeMembers' = MaxConcurrentMembers
  BY <1>1, <1>6, <1>9, <1>10, DrainMembersEffect
<1>12. ToSet(memberQueue') \cup worker'
         = (ToSet(memberQueue) \cup worker) \cup S
  BY <1>9, <1>11
<1>13. /\ Running' = Running \cup {g}
       /\ Cardinality(Running') = Cardinality(Running) + 1
  <2>1. Running' = Running \cup {g}
    BY <1>2 DEF Running
  <2>2. g \notin Running /\ IsFiniteSet(Running)
    BY <1>2, SubsetsFinite DEF Running
  <2> QED BY <2>1, <2>2, OneMore
<1>14. TypeOK'
  BY <1>2, <1>4, <1>11 DEF IInv, TypeOK
<1>15. SlotAccounting'
  <2>1. \A k \in Running' : remaining'[k] = Cardinality(Unfinished(k)')
    <3> SUFFICES ASSUME NEW k \in Running'
                 PROVE  remaining'[k] = Cardinality(Unfinished(k)')
      OBVIOUS
    <3>1. CASE k = g
      <4>1. Unfinished(g)' = S
        BY <1>7, <1>12 DEF Unfinished, MembersOf
      <4> QED BY <4>1, <3>1, <1>4
    <3>2. CASE k # g
      <4>1. k \in Running /\ k \in Groups
        BY <3>2, <1>13 DEF Running
      <4>2. Unfinished(k)' = Unfinished(k)
        BY <3>2, <1>12 DEF Unfinished, MembersOf
      <4>3. remaining'[k] = remaining[k]
        BY <3>2, <4>1, <1>4
      <4>4. remaining[k] = Cardinality(Unfinished(k))
        BY <4>1 DEF IInv, SlotAccounting
      <4> QED BY <4>2, <4>3, <4>4
    <3> QED BY <3>1, <3>2
  <2>2. active' = Cardinality(Running') /\ active' <= MaxConcurrent
    <3>1. active = Cardinality(Running) /\ active \in Nat
      BY DEF IInv, SlotAccounting, TypeOK
    <3> QED BY <3>1, <1>2, <1>13
  <2> QED BY <1>2, <1>11, <2>1, <2>2 DEF IInv, SlotAccounting
<1>16. WorkConserving'
  <2>1. queue = <<>>
    <3>1. active \in Nat
      BY DEF IInv, TypeOK
    <3> QED BY <3>1, <1>2 DEF IInv, WorkConserving
  <2> QED BY <2>1, <1>2, <1>11 DEF WorkConserving
<1>17. NoAbortedWaiter'
  <2>1. \A x \in S : x \notin aborted
    BY <1>2 DEF IInv, RosterOK, MembersOf
  <2>2. ToSet(queue) \subseteq Groups /\ g \notin ToSet(queue)
    BY <1>2 DEF IInv, QueuesConsistent
  <2> QED BY <2>1, <2>2, <1>2, <1>9, <1>11 DEF IInv, NoAbortedWaiter
<1>18. NoLostMember'
  <2> SUFFICES ASSUME NEW x \in Members
               PROVE  NoLostMember!(x)'
    BY DEF NoLostMember
  <2>1. NoLostMember!(x) /\ GroupOf[x] \in Groups
    BY DEF IInv, NoLostMember
  <2>2. x \in S => GroupOf[x] = g
    BY DEF MembersOf
  <2>3. CASE GroupOf[x] = g
    <3>1. outcome[x] = "none"
      BY <2>3, <1>2 DEF IInv, RosterOK
    <3> QED BY <2>2, <2>3, <3>1, <1>2, <1>11, <1>12
  <2>4. CASE GroupOf[x] # g
    BY <2>1, <2>2, <2>4, <1>2, <1>9, <1>11, <1>12
  <2> QED BY <2>3, <2>4
<1>19. QueuesConsistent'
  <2>1. ToSet(queue) = {k \in Groups : state'[k] = "queued"}
    BY <1>2 DEF IInv, QueuesConsistent
  <2>2. \A k \in ToSet(queue) : roster'[k] # {}
    BY <2>1, <1>2 DEF IInv, QueuesConsistent
  <2> QED BY <2>1, <2>2, <1>2, <1>11 DEF IInv, QueuesConsistent
<1>20. RosterOK'
  BY <1>2 DEF IInv, RosterOK, MembersOf
<1> QED BY <1>14, <1>15, <1>16, <1>17, <1>18, <1>19, <1>20 DEF IInv

(* The wait timer takes the group out of the queue and answers all of it. *)
LEMMA QueueTimeoutKeepsIInv ==
  ASSUME IInv, NEW g \in Groups, QueueTimeout(g)
  PROVE  IInv'
<1> USE DEF QueueTimeout, memberVars
<1>1. /\ state' \in [Groups -> GroupStates]
      /\ \A k \in Groups : state'[k] = IF k = g THEN "settled" ELSE state[k]
  BY DEF IInv, TypeOK, GroupStates
<1>2. /\ outcome' \in [Members -> Outcomes]
      /\ \A x \in Members :
           outcome'[x] = IF x \in roster[g] THEN "queue-timeout" ELSE outcome[x]
  BY DEF IInv, TypeOK, Outcomes, Rejections
<1>3. queue \in Seq(Groups) /\ IsInjective(queue) /\ g \in ToSet(queue)
  BY DEF IInv, TypeOK, QueuesConsistent
<1>4. /\ queue' \in Seq(Groups)
      /\ Len(queue') = Len(queue) - 1
      /\ IsInjective(queue')
      /\ ToSet(queue') = ToSet(queue) \ {g}
  BY <1>3, WithoutElements
<1>5. Running' = Running
  BY <1>1 DEF Running
<1>6. \A k \in Groups : Unfinished(k)' = Unfinished(k)
  BY DEF Unfinished, MembersOf
<1>7. ToSet(queue) \subseteq Groups
  BY DEF IInv, QueuesConsistent
<1>8. \A k \in Groups : roster[k] \subseteq MembersOf(k)
  BY DEF IInv, RosterOK
<1>9. TypeOK'
  BY <1>1, <1>2, <1>4 DEF IInv, TypeOK
<1>10. SlotAccounting'
  <2>1. Len(queue') <= MaxQueued
    <3>1. Len(queue) \in Nat /\ Len(queue) <= MaxQueued
      BY <1>3 DEF IInv, SlotAccounting
    <3> QED BY <3>1, <1>4
  <2> QED BY <1>5, <1>6, <2>1 DEF IInv, SlotAccounting, Running
<1>11. WorkConserving'
  <2>1. queue # <<>>
    BY <1>3 DEF ToSet
  <2> QED BY <2>1 DEF IInv, WorkConserving
<1>12. NoAbortedWaiter'
  <2>1. \A k \in ToSet(queue') : roster[k] \cap (aborted \cup roster[g]) = {}
    <3> SUFFICES ASSUME NEW k \in ToSet(queue')
                 PROVE  roster[k] \cap (aborted \cup roster[g]) = {}
      OBVIOUS
    <3>1. k \in Groups /\ k # g /\ roster[k] \cap aborted = {}
      BY <1>4, <1>7 DEF IInv, NoAbortedWaiter
    <3>2. roster[k] \cap roster[g] = {}
      BY <3>1, <1>8 DEF MembersOf
    <3> QED BY <3>1, <3>2
  <2>2. ToSet(memberQueue) \cap (aborted \cup roster[g]) = {}
    <3>1. \A x \in ToSet(memberQueue) : x \in Members
      BY DEF IInv, TypeOK, ToSet
    <3>2. \A x \in ToSet(memberQueue) : state[GroupOf[x]] = "running"
      BY <3>1 DEF IInv, NoLostMember
    <3> QED BY <3>2, <1>8 DEF IInv, NoAbortedWaiter, MembersOf
  <2> QED BY <2>1, <2>2 DEF NoAbortedWaiter
<1>13. NoLostMember'
  <2> SUFFICES ASSUME NEW x \in Members
               PROVE  NoLostMember!(x)'
    BY DEF NoLostMember
  <2>1. NoLostMember!(x) /\ GroupOf[x] \in Groups
    BY DEF IInv, NoLostMember
  <2>2. x \in roster[g] => GroupOf[x] = g
    BY <1>8 DEF MembersOf
  <2>3. CASE GroupOf[x] = g
    BY <2>1, <2>3, <1>1, <1>2
  <2>4. CASE GroupOf[x] # g
    BY <2>1, <2>2, <2>4, <1>1, <1>2
  <2> QED BY <2>3, <2>4
<1>14. QueuesConsistent'
  <2>1. ToSet(queue') = {k \in Groups : state'[k] = "queued"}
    BY <1>1, <1>4 DEF IInv, QueuesConsistent
  <2> QED BY <1>4, <2>1 DEF IInv, QueuesConsistent
<1>15. RosterOK'
  <2>1. ASSUME NEW x \in Members, state'[GroupOf[x]] = "collecting"
        PROVE  outcome'[x] = "none" /\ x \notin aborted'
    <3>1. GroupOf[x] # g /\ state[GroupOf[x]] = "collecting"
      BY <2>1, <1>1
    <3>2. x \notin roster[g]
      BY <3>1, <1>8 DEF MembersOf
    <3> QED BY <3>1, <3>2, <1>2 DEF IInv, RosterOK
  <2> QED BY <2>1, <1>8 DEF RosterOK, MembersOf
<1> QED BY <1>9, <1>10, <1>11, <1>12, <1>13, <1>14, <1>15 DEF IInv

(* removeQueuedMember: the group leaves the queue with its last member.   *)
LEMMA AbortQueuedKeepsIInv ==
  ASSUME IInv, NEW m \in Members, AbortQueued(m)
  PROVE  IInv'
<1> DEFINE g == GroupOf[m]
<1>1. /\ g \in Groups /\ state[g] = "queued" /\ m \in roster[g]
      /\ roster' = [roster EXCEPT ![g] = @ \ {m}]
      /\ outcome' = [outcome EXCEPT ![m] = "aborted"]
      /\ aborted' = aborted \cup {m}
      /\ UNCHANGED <<remaining, active, memberQueue, activeMembers, worker,
                     timedOut>>
  BY DEF AbortQueued, memberVars
<1>2. \/ roster[g] # {m} /\ UNCHANGED <<state, queue>>
      \/ /\ roster[g] = {m}
         /\ queue' = Without(queue, g)
         /\ state' = [state EXCEPT ![g] = "settled"]
  BY DEF AbortQueued
<1>3. /\ roster' \in [Groups -> SUBSET Members]
      /\ \A k \in Groups : roster'[k] = IF k = g THEN roster[g] \ {m}
                                                 ELSE roster[k]
  BY <1>1 DEF IInv, TypeOK
<1>4. /\ outcome' \in [Members -> Outcomes]
      /\ \A x \in Members :
           outcome'[x] = IF x = m THEN "aborted" ELSE outcome[x]
  BY <1>1 DEF IInv, TypeOK, Outcomes, Rejections
<1>5. /\ queue \in Seq(Groups) /\ IsInjective(queue) /\ g \in ToSet(queue)
      /\ ToSet(queue) \subseteq Groups
      /\ Len(queue) \in Nat /\ Len(queue) <= MaxQueued
  BY <1>1 DEF IInv, TypeOK, QueuesConsistent, SlotAccounting
<1>6. /\ state' \in [Groups -> GroupStates]
      /\ \A k \in Groups :
           state'[k] = IF k = g /\ roster[g] = {m} THEN "settled" ELSE state[k]
  BY <1>1, <1>2 DEF IInv, TypeOK, GroupStates
<1>7. /\ queue' \in Seq(Groups) /\ IsInjective(queue')
      /\ Len(queue') <= MaxQueued
      /\ ToSet(queue') = IF roster[g] = {m} THEN ToSet(queue) \ {g}
                                            ELSE ToSet(queue)
  <2>1. CASE roster[g] # {m}
    BY <2>1, <1>2, <1>5
  <2>2. CASE roster[g] = {m}
    <3>1. /\ Without(queue, g) \in Seq(Groups)
          /\ Len(Without(queue, g)) = Len(queue) - 1
          /\ IsInjective(Without(queue, g))
          /\ ToSet(Without(queue, g)) = ToSet(queue) \ {g}
      BY <1>5, WithoutElements
    <3> QED BY <2>2, <3>1, <1>2, <1>5
  <2> QED BY <2>1, <2>2
<1>8. Running' = Running
  BY <1>1, <1>6 DEF Running
<1>9. \A k \in Groups : Unfinished(k)' = Unfinished(k)
  BY <1>1 DEF Unfinished, MembersOf
<1>10. \A k \in Groups : roster[k] \subseteq MembersOf(k)
  BY DEF IInv, RosterOK
<1>11. TypeOK'
  BY <1>1, <1>3, <1>4, <1>6, <1>7 DEF IInv, TypeOK
<1>12. SlotAccounting'
  BY <1>1, <1>7, <1>8, <1>9 DEF IInv, SlotAccounting, Running
<1>13. WorkConserving'
  <2>1. queue # <<>>
    BY <1>5 DEF ToSet
  <2> QED BY <2>1, <1>1 DEF IInv, WorkConserving
<1>14. NoAbortedWaiter'
  <2>1. \A k \in ToSet(queue') : roster'[k] \cap aborted' = {}
    <3> SUFFICES ASSUME NEW k \in ToSet(queue')
                 PROVE  roster'[k] \cap aborted' = {}
      OBVIOUS
    <3>1. k \in ToSet(queue) /\ k \in Groups /\ roster[k] \cap aborted = {}
      BY <1>5, <1>7 DEF IInv, NoAbortedWaiter
    <3>2. k # g => m \notin roster[k]
      BY <3>1, <1>10 DEF MembersOf
    <3> QED BY <3>1, <3>2, <1>1, <1>3
  <2>2. m \notin ToSet(memberQueue)
    BY <1>1 DEF IInv, NoLostMember
  <2> QED BY <2>1, <2>2, <1>1 DEF IInv, NoAbortedWaiter
<1>15. NoLostMember'
  <2> SUFFICES ASSUME NEW x \in Members
               PROVE  NoLostMember!(x)'
    BY DEF NoLostMember
  <2>1. NoLostMember!(x) /\ GroupOf[x] \in Groups
    BY DEF IInv, NoLostMember
  <2>2. CASE x = m
    BY <2>1, <2>2, <1>1, <1>3, <1>4, <1>6
  <2>3. CASE x # m /\ GroupOf[x] = g
    BY <2>1, <2>3, <1>1, <1>3, <1>4, <1>6
  <2>4. CASE GroupOf[x] # g
    BY <2>1, <2>4, <1>1, <1>3, <1>4, <1>6
  <2> QED BY <2>2, <2>3, <2>4
<1>16. QueuesConsistent'
  <2>1. ToSet(queue') = {k \in Groups : state'[k] = "queued"}
    BY <1>1, <1>6, <1>7 DEF IInv, QueuesConsistent
  <2>2. \A k \in ToSet(queue') : roster'[k] # {}
    BY <1>1, <1>3, <1>5, <1>7 DEF IInv, QueuesConsistent
  <2> QED BY <1>1, <1>7, <2>1, <2>2 DEF IInv, QueuesConsistent
<1>17. RosterOK'
  <2>1. ASSUME NEW x \in Members, state'[GroupOf[x]] = "collecting"
        PROVE  outcome'[x] = "none" /\ x \notin aborted'
    <3>1. x # m /\ state[GroupOf[x]] = "collecting"
      BY <2>1, <1>1, <1>6
    <3> QED BY <3>1, <1>1, <1>4 DEF IInv, RosterOK
  <2> QED BY <2>1, <1>3, <1>10 DEF RosterOK, MembersOf
<1> QED BY <1>11, <1>12, <1>13, <1>14, <1>15, <1>16, <1>17 DEF IInv

(* removePendingMember: the member leaves the queue and its group's count. *)
LEMMA AbortPendingKeepsIInv ==
  ASSUME IInv, NEW m \in Members, AbortPending(m)
  PROVE  IInv'
<1> DEFINE q == Without(memberQueue, m)
<1>1. /\ m \in ToSet(memberQueue)
      /\ outcome' = [outcome EXCEPT ![m] = "aborted"]
      /\ aborted' = aborted \cup {m}
      /\ SettleGroupMember(GroupOf[m], q, worker, activeMembers)
      /\ timedOut' = timedOut
  BY DEF AbortPending
<1>2. /\ memberQueue \in Seq(Members) /\ IsInjective(memberQueue)
      /\ worker \in SUBSET Members
      /\ timedOut \in SUBSET Members
      /\ activeMembers = Cardinality(worker)
      /\ activeMembers <= MaxConcurrentMembers
  BY DEF IInv, TypeOK, QueuesConsistent, SlotAccounting
<1>3. q \in Seq(Members) /\ IsInjective(q) /\ ToSet(q) = ToSet(memberQueue) \ {m}
  BY <1>1, <1>2, WithoutElements
<1>4. ToSet(memberQueue) \cap worker = {}
  BY <1>2 DEF IInv, NoLostMember
<1>5. /\ outcome' \in [Members -> Outcomes]
      /\ outcome'[m] # "none"
      /\ \A x \in Members \ {m} : outcome'[x] = outcome[x]
  BY <1>1 DEF IInv, TypeOK, Outcomes, Rejections
<1> HIDE DEF q
<1>6. /\ ToSet(q) \cap worker = {}
      /\ ToSet(q) \cup worker = (worker \cup ToSet(memberQueue)) \ {m}
      /\ ToSet(q) \subseteq ToSet(memberQueue)
      /\ m \in worker \cup ToSet(memberQueue)
  BY <1>1, <1>3, <1>4
<1>7. aborted' \in SUBSET (aborted \cup {m}) /\ timedOut' \in SUBSET Members
  BY <1>1, <1>2
<1> QED BY <1>1, <1>2, <1>3, <1>5, <1>6, <1>7, SettleGroupMemberKeepsIInv

(* The finally callback: exactly one worker comes back.                   *)
LEMMA ReleaseKeepsIInv ==
  ASSUME IInv, NEW m \in Members, Release(m)
  PROVE  IInv'
<1> DEFINE w == worker \ {m}
           busy == activeMembers - 1
<1>1. /\ m \in worker /\ outcome[m] # "none"
      /\ SettleGroupMember(GroupOf[m], memberQueue, w, busy)
      /\ UNCHANGED <<outcome, aborted, timedOut>>
  BY DEF Release, promiseVars
<1>2. /\ memberQueue \in Seq(Members) /\ IsInjective(memberQueue)
      /\ worker \in SUBSET Members /\ IsFiniteSet(worker)
      /\ timedOut \in SUBSET Members
      /\ outcome \in [Members -> Outcomes]
      /\ activeMembers = Cardinality(worker) /\ activeMembers \in Nat
      /\ activeMembers <= MaxConcurrentMembers
  BY SubsetsFinite DEF IInv, TypeOK, QueuesConsistent, SlotAccounting
<1>3. ToSet(memberQueue) \cap worker = {}
  BY <1>2 DEF IInv, NoLostMember
<1>4. busy = Cardinality(w) /\ busy <= MaxConcurrentMembers
  BY <1>1, <1>2, OneFewer
<1>5. /\ w \in SUBSET Members
      /\ ToSet(memberQueue) \cap w = {}
      /\ ToSet(memberQueue) \cup w = (worker \cup ToSet(memberQueue)) \ {m}
      /\ m \in worker \cup ToSet(memberQueue)
  BY <1>1, <1>2, <1>3
<1>6. /\ outcome' \in [Members -> Outcomes]
      /\ outcome'[m] # "none"
      /\ \A x \in Members \ {m} : outcome'[x] = outcome[x]
      /\ aborted' \in SUBSET (aborted \cup {m})
      /\ timedOut' \in SUBSET Members
  BY <1>1, <1>2
<1> HIDE DEF w, busy
<1> QED BY <1>1, <1>2, <1>4, <1>5, <1>6, SettleGroupMemberKeepsIInv

(* A member at work keeps its worker and its group: only its promise and   *)
(* its signal change.                                                      *)
LEMMA AtWorkKeepsIInv ==
  ASSUME IInv, NEW m \in worker,
         UNCHANGED <<groupVars, memberVars>>,
         outcome' \in [Members -> Outcomes],
         \A x \in Members \ {m} : outcome'[x] = outcome[x],
         aborted' \in SUBSET (aborted \cup {m}),
         timedOut' \in SUBSET Members
  PROVE  IInv'
<1> USE DEF groupVars, memberVars
<1>1. m \in Members /\ state[GroupOf[m]] = "running" /\ m \notin ToSet(memberQueue)
  BY DEF IInv, TypeOK, NoLostMember
<1>2. TypeOK'
  BY <1>1 DEF IInv, TypeOK
<1>3. SlotAccounting'
  <2>1. Running' = Running
    BY DEF Running
  <2>2. \A k \in Groups : Unfinished(k)' = Unfinished(k)
    BY DEF Unfinished, MembersOf
  <2> QED BY <2>1, <2>2 DEF IInv, SlotAccounting, Running
<1>4. WorkConserving'
  BY DEF IInv, WorkConserving
<1>5. NoAbortedWaiter'
  <2>1. \A k \in ToSet(queue) : m \notin roster[k]
    BY <1>1 DEF IInv, QueuesConsistent, RosterOK, MembersOf
  <2> QED BY <1>1, <2>1 DEF IInv, NoAbortedWaiter
<1>6. NoLostMember'
  <2> SUFFICES ASSUME NEW x \in Members
               PROVE  NoLostMember!(x)'
    BY DEF NoLostMember
  <2>1. NoLostMember!(x)
    BY DEF IInv, NoLostMember
  <2>2. CASE x = m
    BY <1>1, <2>1, <2>2
  <2>3. CASE x # m
    BY <2>1, <2>3
  <2> QED BY <2>2, <2>3
<1>7. QueuesConsistent'
  BY DEF IInv, QueuesConsistent
<1>8. RosterOK'
  BY <1>1 DEF IInv, RosterOK, MembersOf
<1> QED BY <1>2, <1>3, <1>4, <1>5, <1>6, <1>7, <1>8 DEF IInv

(* The signal of a member at work is aborted; its worker stays busy.      *)
LEMMA AbortExecutingKeepsIInv ==
  ASSUME IInv, NEW m \in Members, AbortExecuting(m)
  PROVE  IInv'
<1>1. outcome \in [Members -> Outcomes] /\ timedOut \in SUBSET Members
  BY DEF IInv, TypeOK
<1> QED BY <1>1, AtWorkKeepsIInv DEF AbortExecuting

(* The execution timer aborts the signal; the worker stays busy.          *)
LEMMA ExecutionTimeoutKeepsIInv ==
  ASSUME IInv, NEW m \in Members, ExecutionTimeout(m)
  PROVE  IInv'
<1>1. outcome \in [Members -> Outcomes] /\ timedOut \in SUBSET Members
  BY DEF IInv, TypeOK
<1> QED BY <1>1, AtWorkKeepsIInv DEF ExecutionTimeout

(* The promise of a member at work settles; its worker stays busy.        *)
LEMMA SettleKeepsIInv ==
  ASSUME IInv, NEW m \in Members, NEW result \in {"value", "error"},
         Settle(m, result)
  PROVE  IInv'
<1>1. outcome \in [Members -> Outcomes] /\ timedOut \in SUBSET Members
  BY DEF IInv, TypeOK
<1>2. /\ outcome' \in [Members -> Outcomes]
      /\ \A x \in Members \ {m} : outcome'[x] = outcome[x]
  BY <1>1 DEF Settle, Outcomes, Rejections
<1> QED BY <1>1, <1>2, AtWorkKeepsIInv DEF Settle

(* A step that touches nothing of the coordinator keeps the invariant.    *)
LEMMA StutterKeepsIInv == IInv /\ UNCHANGED vars => IInv'
<1> SUFFICES ASSUME IInv, UNCHANGED vars PROVE IInv'
  OBVIOUS
<1> USE DEF vars, groupVars, memberVars, promiseVars
<1>1. TypeOK' /\ WorkConserving' /\ NoAbortedWaiter'
  BY DEF IInv, TypeOK, WorkConserving, NoAbortedWaiter
<1>2. SlotAccounting'
  <2>1. Running' = Running
    BY DEF Running
  <2>2. \A k \in Groups : Unfinished(k)' = Unfinished(k)
    BY DEF Unfinished, MembersOf
  <2> QED BY <2>1, <2>2 DEF IInv, SlotAccounting, Running
<1>3. NoLostMember'
  BY DEF IInv, NoLostMember
<1>4. QueuesConsistent' /\ RosterOK'
  BY DEF IInv, QueuesConsistent, RosterOK, MembersOf
<1> QED BY <1>1, <1>2, <1>3, <1>4 DEF IInv

(* Every turn of the event loop keeps the inductive invariant.             *)
LEMMA NextKeepsIInv == IInv /\ [Next]_vars => IInv'
<1> SUFFICES ASSUME IInv, [Next]_vars PROVE IInv'
  OBVIOUS
<1>1. CASE \E g \in Groups : \E S \in SUBSET MembersOf(g) : Submit(g, S)
  BY <1>1, SubmitEmptyKeepsIInv, SubmitAndStartKeepsIInv,
     SubmitQueueFullKeepsIInv, SubmitAndQueueKeepsIInv DEF Submit
<1>2. CASE \E g \in Groups : QueueTimeout(g)
  BY <1>2, QueueTimeoutKeepsIInv
<1>3. CASE \E m \in Members : Abort(m)
  BY <1>3, AbortQueuedKeepsIInv, AbortPendingKeepsIInv, AbortExecutingKeepsIInv
     DEF Abort
<1>4. CASE \E m \in Members : ExecutionTimeout(m)
  BY <1>4, ExecutionTimeoutKeepsIInv
<1>5. CASE \E m \in Members : \E result \in {"value", "error"} : Settle(m, result)
  BY <1>5, SettleKeepsIInv
<1>6. CASE \E m \in Members : Release(m)
  BY <1>6, ReleaseKeepsIInv
<1>7. CASE UNCHANGED vars
  BY <1>7, StutterKeepsIInv
<1> QED BY <1>1, <1>2, <1>3, <1>4, <1>5, <1>6, <1>7 DEF Next

(* The inductive invariant holds in every state the coordinator reaches.  *)
THEOREM Inductive == Spec => []IInv
BY InitIInv, NextKeepsIInv, PTL DEF Spec

-----------------------------------------------------------------------------
(* Every variable of the coordinator keeps the shape the code gives it.    *)
THEOREM TypeCorrectness == Spec => []TypeOK
<1>1. IInv => TypeOK
  BY DEF IInv
<1> QED BY <1>1, Inductive, PTL

(* this.active, this.activeMembers and group.remainingMembers count exactly *)
(* what runs, and stay within maxConcurrentAnalyses,                       *)
(* maxConcurrentAnalysisMembers and maxQueuedAnalyses.                     *)
THEOREM SlotsExact == Spec => []SlotAccounting
<1>1. IInv => SlotAccounting
  BY DEF IInv
<1> QED BY <1>1, Inductive, PTL

(* drain and drainMembers leave nobody waiting while a slot is free.       *)
THEOREM NoIdleSlot == Spec => []WorkConserving
<1>1. IInv => WorkConserving
  BY DEF IInv
<1> QED BY <1>1, Inductive, PTL

(* The abort listeners take an aborted member out of both queues, so       *)
(* neither drain nor drainMembers ever meets one.                          *)
THEOREM AbortedNeverWaits == Spec => []NoAbortedWaiter
<1>1. IInv => NoAbortedWaiter
  BY DEF IInv
<1> QED BY <1>1, Inductive, PTL

(* An admitted call whose promise is open is in a queue or at work.        *)
THEOREM NothingLost == Spec => []NoLostMember
<1>1. IInv => NoLostMember
  BY DEF IInv
<1> QED BY <1>1, Inductive, PTL

-----------------------------------------------------------------------------
(* The order of a queue, in which nobody is overtaken by what a step does: *)
(* it stays as it is, ...                                                  *)
LEMMA Unmoved ==
  ASSUME NEW T, NEW s \in Seq(T), IsInjective(s)
  PROVE  ~Overtaken(s, s, {})
<1> SUFFICES ASSUME NEW i \in 1..Len(s), NEW p \in 1..Len(s), s[i] = s[p],
                    NEW k \in 1..(p - 1), s[k] \notin {s[l] : l \in 1..(i - 1)}
             PROVE  FALSE
  BY DEF Overtaken
<1>1. i = p
  BY DEF IsInjective
<1> QED BY <1>1

(* ... is empty, ...                                                       *)
LEMMA NobodyWaits ==
  ASSUME NEW t, NEW S
  PROVE  ~Overtaken(<<>>, t, S)
BY DEF Overtaken

(* ... loses one of its elements, ...                                      *)
LEMMA OneLeaves ==
  ASSUME NEW T, NEW s \in Seq(T), IsInjective(s), NEW x \in ToSet(s)
  PROVE  ~Overtaken(s, Without(s, x), {})
<1>1. PICK n : n = CHOOSE k \in 1..Len(s) : s[k] = x
  OBVIOUS
<1>2. n \in 1..Len(s)
  BY <1>1 DEF ToSet
<1> DEFINE t == RemoveAt(s, n)
<1>3. Without(s, x) = t
  BY <1>1 DEF Without
<1>4. /\ t \in Seq(T) /\ Len(t) = Len(s) - 1
      /\ \A k \in 1..(Len(s) - 1) : t[k] = IF k < n THEN s[k] ELSE s[k + 1]
  BY <1>2, RemoveAtElements
<1> HIDE DEF t
<1> SUFFICES ASSUME NEW i \in 1..Len(s), NEW p \in 1..(Len(s) - 1), s[i] = t[p],
                    NEW k \in 1..(p - 1)
             PROVE  t[k] \in {s[l] : l \in 1..(i - 1)}
  BY <1>3, <1>4 DEF Overtaken
<1> DEFINE up(l) == IF l < n THEN l ELSE l + 1
<1>5. up(p) \in 1..Len(s) /\ k \in 1..(Len(s) - 1) /\ up(k) \in 1..(up(p) - 1)
  BY <1>2
<1>6. t[p] = s[up(p)] /\ t[k] = s[up(k)]
  BY <1>4, <1>5
<1>7. i = up(p)
  BY <1>5, <1>6 DEF IsInjective
<1> QED BY <1>5, <1>6, <1>7

(* ... is joined by others at its end, ...                                 *)
LEMMA OthersJoin ==
  ASSUME NEW T, NEW s \in Seq(T), NEW u \in Seq(T), NEW t \in Seq(T),
         ~Overtaken(s, u, {}), ToSet(s) \cap ToSet(t) = {}
  PROVE  ~Overtaken(s, u \o t, {})
<1> DEFINE v == u \o t
<1>0. /\ Len(v) = Len(u) + Len(t)
      /\ \A l \in 1..Len(u) : v[l] = u[l]
      /\ \A l \in 1..Len(t) : v[l + Len(u)] = t[l]
  OBVIOUS
<1> HIDE DEF v
<1> SUFFICES ASSUME NEW i \in 1..Len(s), NEW p \in 1..Len(v),
                    s[i] = v[p], NEW k \in 1..(p - 1)
             PROVE  v[k] \in {s[l] : l \in 1..(i - 1)}
  BY DEF Overtaken, v
<1>1. CASE p \in 1..Len(u)
  <2>1. s[i] = u[p] /\ v[k] = u[k]
    BY <1>0, <1>1
  <2> QED BY <1>1, <2>1 DEF Overtaken
<1>2. CASE p \notin 1..Len(u)
  <2>1. p - Len(u) \in 1..Len(t)
    BY <1>0, <1>2
  <2>3. v[p] = t[p - Len(u)]
    BY <1>0, <2>1
  <2>2. s[i] \in ToSet(s) /\ t[p - Len(u)] \in ToSet(t)
    BY <2>1 DEF ToSet
  <2> QED BY <2>2, <2>3
<1> QED BY <1>1, <1>2

(* ... or is taken from at its front.                                      *)
LEMMA FrontIsTaken ==
  ASSUME NEW T, NEW s \in Seq(T), NEW u \in Seq(T), ~Overtaken(s, u, {}),
         NEW n \in 0..Len(u), NEW S \in SUBSET {u[l] : l \in 1..n}
  PROVE  ~Overtaken(s, SubSeq(u, n + 1, Len(u)), S)
<1> DEFINE v == SubSeq(u, n + 1, Len(u))
<1>1. v \in Seq(T) /\ Len(v) = Len(u) - n /\ \A k \in 1..Len(v) : v[k] = u[k + n]
  OBVIOUS
<1> HIDE DEF v
<1> SUFFICES ASSUME NEW i \in 1..Len(s), NEW p \in 1..Len(v), s[i] = v[p],
                    NEW x \in S \cup {v[k] : k \in 1..(p - 1)}
             PROVE  x \in {s[l] : l \in 1..(i - 1)}
  BY DEF Overtaken, v
<1>2. p + n \in 1..Len(u) /\ s[i] = u[p + n]
  BY <1>1
<1>3. x \in {u[k] : k \in 1..((p + n) - 1)}
  <2>1. CASE x \in S
    BY <2>1
  <2>2. CASE x \notin S
    <3>1. PICK k \in 1..(p - 1) : x = v[k]
      BY <2>2
    <3>2. k \in 1..Len(v) /\ k + n \in 1..((p + n) - 1)
      BY <1>1
    <3> QED BY <1>1, <3>1, <3>2
  <2> QED BY <2>1, <2>2
<1> QED BY <1>2, <1>3 DEF Overtaken

-----------------------------------------------------------------------------
(* What a step may not do, for each of the queues.                         *)
GroupsInTurn == ~Overtaken(queue, queue', Running' \ Running)
MembersInTurn == ~Overtaken(memberQueue, memberQueue', worker' \ worker)

(* Both queues as the invariant knows them.                                *)
LEMMA Queues ==
  ASSUME IInv
  PROVE  /\ queue \in Seq(Groups) /\ IsInjective(queue)
         /\ memberQueue \in Seq(Members) /\ IsInjective(memberQueue)
         /\ ToSet(queue) = {g \in Groups : state[g] = "queued"}
         /\ ~Overtaken(queue, queue, {})
         /\ ~Overtaken(memberQueue, memberQueue, {})
BY Unmoved DEF IInv, TypeOK, QueuesConsistent

(* What stands still overtakes nobody.                                     *)
LEMMA GroupsStay ==
  ASSUME IInv, queue' = queue, Running' \subseteq Running
  PROVE  GroupsInTurn
<1>1. Running' \ Running = {}
  OBVIOUS
<1> QED BY <1>1, Queues DEF GroupsInTurn

LEMMA MembersStay ==
  ASSUME IInv, UNCHANGED memberVars
  PROVE  MembersInTurn
<1>1. worker' \ worker = {} /\ memberQueue' = memberQueue
  BY DEF memberVars
<1> QED BY <1>1, Queues DEF MembersInTurn

(* A group that leaves the queue makes way for nobody.                     *)
LEMMA GroupLeaves ==
  ASSUME IInv, NEW g \in Groups, state[g] = "queued", queue' = Without(queue, g),
         Running' \subseteq Running
  PROVE  GroupsInTurn
<1>1. Running' \ Running = {}
  OBVIOUS
<1>2. g \in ToSet(queue)
  BY Queues
<1>3. ~Overtaken(queue, Without(queue, g), {})
  BY <1>2, Queues, OneLeaves
<1> QED BY <1>1, <1>3 DEF GroupsInTurn

(* drainMembers takes members from the front.                              *)
LEMMA DrainMembersInTurn ==
  ASSUME NEW q \in Seq(Members), NEW w, NEW busy \in Int,
         memberQueue \in Seq(Members), ~Overtaken(memberQueue, q, {}),
         w \subseteq worker, busy <= MaxConcurrentMembers, DrainMembers(q, w, busy)
  PROVE  MembersInTurn
<1> DEFINE n == Lesser(Len(q), MaxConcurrentMembers - busy)
           fresh == {q[l] : l \in 1..n}
<1>1. n \in 0..Len(q)
  BY DEF Lesser
<1>2. /\ memberQueue' = SubSeq(q, n + 1, Len(q))
      /\ worker' = w \cup fresh
  BY DEF DrainMembers
<1>3. worker' \ worker \in SUBSET fresh
  BY <1>2
<1> HIDE DEF n
<1>4. ~Overtaken(memberQueue, SubSeq(q, n + 1, Len(q)), worker' \ worker)
  BY <1>1, <1>3, FrontIsTaken
<1> QED BY <1>2, <1>4 DEF MembersInTurn

(* The members of a batch join behind all that wait.                       *)
LEMMA BatchJoins ==
  ASSUME IInv, NEW S \in SUBSET Members, NEW s \in Orderings(S),
         NEW q \in Seq(Members), ~Overtaken(memberQueue, q, {}),
         S \cap ToSet(memberQueue) = {}
  PROVE  q \o s \in Seq(Members) /\ ~Overtaken(memberQueue, q \o s, {})
<1>1. s \in Seq(Members) /\ ToSet(s) = S
  BY OrderingElements
<1>2. ~Overtaken(memberQueue, q \o s, {})
  BY <1>1, Queues, OthersJoin
<1> QED BY <1>1, <1>2

(* settleGroupMember: the slot goes to the group in front, whose members   *)
(* stand behind those that wait, and the worker to the member in front.    *)
LEMMA SettleGroupMemberInTurn ==
  ASSUME IInv, NEW m \in Members, NEW q \in Seq(Members), NEW w, NEW busy \in Int,
         ~Overtaken(memberQueue, q, {}), w \subseteq worker,
         busy <= MaxConcurrentMembers, SettleGroupMember(GroupOf[m], q, w, busy)
  PROVE  GroupsInTurn /\ MembersInTurn
<1> DEFINE g == GroupOf[m]
<1>0. memberQueue \in Seq(Members) /\ state \in [Groups -> GroupStates] /\ g \in Groups
  BY DEF IInv, TypeOK
<1>1. CASE DrainMembers(q, w, busy) /\ UNCHANGED <<state, queue>>
  <2>1. Running' = Running
    BY <1>1 DEF Running
  <2> QED BY <1>0, <1>1, <2>1, GroupsStay, DrainMembersInTurn
<1>2. CASE /\ DrainMembers(q, w, busy) /\ queue' = queue
           /\ state' = [state EXCEPT ![g] = "settled"]
  <2>1. Running' \subseteq Running
    BY <1>0, <1>2 DEF Running
  <2> QED BY <1>0, <1>2, <2>1, GroupsStay, DrainMembersInTurn
<1>3. ASSUME queue # <<>>, queue' = Tail(queue),
             state' = [state EXCEPT ![g] = "settled", ![Head(queue)] = "running"],
             NEW s \in Orderings(roster[Head(queue)]), DrainMembers(q \o s, w, busy)
      PROVE  GroupsInTurn /\ MembersInTurn
  <2> DEFINE h == Head(queue)
  <2>1. h \in Groups /\ h \in ToSet(queue) /\ state[h] = "queued"
    BY <1>3, Queues, TailElements
  <2>2. GroupsInTurn
    <3>1. Running' \subseteq Running \cup {h}
      BY <1>0, <1>3 DEF Running
    <3>2. PICK n \in 0..Len(queue) : n = 1
      BY <1>3, Queues
    <3>3. queue' = SubSeq(queue, n + 1, Len(queue)) /\ {queue[l] : l \in 1..n} = {h}
      BY <1>3, <3>2, Queues
    <3>4. Running' \ Running \in SUBSET {queue[l] : l \in 1..n}
      BY <3>1, <3>3
    <3>5. ~Overtaken(queue, SubSeq(queue, n + 1, Len(queue)), Running' \ Running)
      BY <3>4, Queues, FrontIsTaken
    <3> QED BY <3>3, <3>5 DEF GroupsInTurn
  <2>3. roster[h] \in SUBSET Members /\ roster[h] \cap ToSet(memberQueue) = {}
    <3>1. ToSet(memberQueue) \subseteq Members
      BY DEF IInv, TypeOK, ToSet
    <3>2. roster[h] \subseteq MembersOf(h)
      BY <2>1 DEF IInv, RosterOK
    <3>3. \A x \in Members : x \in ToSet(memberQueue) => state[GroupOf[x]] = "running"
      BY DEF IInv, NoLostMember
    <3> QED BY <2>1, <3>1, <3>2, <3>3 DEF MembersOf
  <2>4. q \o s \in Seq(Members) /\ ~Overtaken(memberQueue, q \o s, {})
    BY <1>3, <2>3, BatchJoins
  <2>5. MembersInTurn
    BY <1>0, <1>3, <2>4, DrainMembersInTurn
  <2> QED BY <2>2, <2>5
<1> QED BY <1>1, <1>2, <1>3 DEF SettleGroupMember

(* A group that is submitted starts only when none waits.                  *)
LEMMA SubmitInTurn ==
  ASSUME IInv, NEW g \in Groups, NEW S \in SUBSET MembersOf(g), Submit(g, S)
  PROVE  GroupsInTurn /\ MembersInTurn
<1>0. state \in [Groups -> GroupStates] /\ state[g] = "collecting"
  BY DEF IInv, TypeOK, Submit, SubmitEmpty, SubmitAndStart, SubmitQueueFull, SubmitAndQueue
<1>1. CASE SubmitEmpty(g, S) \/ SubmitQueueFull(g, S)
  <2>1. queue' = queue /\ UNCHANGED memberVars /\ state' = [state EXCEPT ![g] = "settled"]
    BY <1>1 DEF SubmitEmpty, SubmitQueueFull
  <2>2. Running' \subseteq Running
    BY <1>0, <2>1 DEF Running
  <2> QED BY <2>1, <2>2, GroupsStay, MembersStay
<1>2. CASE SubmitAndStart(g, S)
  <2>1. queue = <<>>
    BY <1>2 DEF SubmitAndStart, IInv, WorkConserving, SlotAccounting, TypeOK
  <2>2. GroupsInTurn
    BY <2>1, NobodyWaits DEF GroupsInTurn
  <2>3. PICK s \in Orderings(S) : DrainMembers(memberQueue \o s, worker, activeMembers)
    BY <1>2 DEF SubmitAndStart
  <2>4. S \in SUBSET Members /\ S \cap ToSet(memberQueue) = {}
    BY <1>0 DEF IInv, MembersOf, NoLostMember
  <2>5. /\ memberQueue \o s \in Seq(Members)
        /\ ~Overtaken(memberQueue, memberQueue \o s, {})
    BY <2>4, Queues, BatchJoins
  <2>6. /\ memberQueue \in Seq(Members) /\ activeMembers \in Int
        /\ activeMembers <= MaxConcurrentMembers
    BY DEF IInv, TypeOK, SlotAccounting
  <2>7. MembersInTurn
    BY <2>3, <2>5, <2>6, DrainMembersInTurn
  <2> QED BY <2>2, <2>7
<1>3. CASE SubmitAndQueue(g, S)
  <2>1. /\ queue' = Append(queue, g) /\ UNCHANGED memberVars
        /\ state' = [state EXCEPT ![g] = "queued"]
    BY <1>3 DEF SubmitAndQueue
  <2>2. Running' \ Running = {}
    BY <1>0, <2>1 DEF Running
  <2>3. queue' = queue \o <<g>> /\ <<g>> \in Seq(Groups)
    BY <2>1, Queues
  <2>4. ToSet(queue) \cap ToSet(<<g>>) = {}
    BY <1>0, Queues DEF ToSet
  <2>5. ~Overtaken(queue, queue \o <<g>>, {})
    BY <2>3, <2>4, Queues, OthersJoin
  <2> QED BY <2>1, <2>2, <2>3, <2>5, MembersStay DEF GroupsInTurn
<1> QED BY <1>1, <1>2, <1>3 DEF Submit

(* An abort or a timer takes its group or member out of the queue.         *)
LEMMA QueueTimeoutInTurn ==
  ASSUME IInv, NEW g \in Groups, QueueTimeout(g)
  PROVE  GroupsInTurn /\ MembersInTurn
<1>1. /\ state[g] = "queued" /\ queue' = Without(queue, g) /\ UNCHANGED memberVars
      /\ state' = [state EXCEPT ![g] = "settled"]
  BY DEF QueueTimeout
<1>2. Running' \subseteq Running
  BY <1>1 DEF Running, IInv, TypeOK
<1> QED BY <1>1, <1>2, GroupLeaves, MembersStay

LEMMA AbortInTurn ==
  ASSUME IInv, NEW m \in Members, Abort(m)
  PROVE  GroupsInTurn /\ MembersInTurn
<1>1. CASE AbortQueued(m)
  <2> DEFINE g == GroupOf[m]
  <2>1. g \in Groups /\ state[g] = "queued" /\ UNCHANGED memberVars
    BY <1>1 DEF AbortQueued
  <2>2. CASE UNCHANGED <<state, queue>>
    <3>1. Running' = Running
      BY <2>2 DEF Running
    <3> QED BY <2>1, <2>2, <3>1, GroupsStay, MembersStay
  <2>3. CASE queue' = Without(queue, g) /\ state' = [state EXCEPT ![g] = "settled"]
    <3>1. Running' \subseteq Running
      BY <2>3 DEF Running, IInv, TypeOK
    <3> QED BY <2>1, <2>3, <3>1, GroupLeaves, MembersStay
  <2> QED BY <1>1, <2>2, <2>3 DEF AbortQueued
<1>2. CASE AbortPending(m)
  <2> DEFINE q == Without(memberQueue, m)
  <2>1. /\ m \in ToSet(memberQueue)
        /\ SettleGroupMember(GroupOf[m], q, worker, activeMembers)
    BY <1>2 DEF AbortPending
  <2>2. q \in Seq(Members)
    BY <2>1, Queues, WithoutElements
  <2>3. ~Overtaken(memberQueue, q, {})
    BY <2>1, Queues, OneLeaves
  <2>4. activeMembers \in Int /\ activeMembers <= MaxConcurrentMembers
    BY DEF IInv, TypeOK, SlotAccounting
  <2> HIDE DEF q
  <2> QED BY <2>1, <2>2, <2>3, <2>4, SettleGroupMemberInTurn
<1>3. CASE AbortExecuting(m)
  <2>1. queue' = queue /\ state' = state /\ UNCHANGED memberVars
    BY <1>3 DEF AbortExecuting, groupVars
  <2>2. Running' = Running
    BY <2>1 DEF Running
  <2> QED BY <2>1, <2>2, GroupsStay, MembersStay
<1> QED BY <1>1, <1>2, <1>3 DEF Abort

(* A worker that comes back goes to the member in front.                   *)
LEMMA ReleaseInTurn ==
  ASSUME IInv, NEW m \in Members, Release(m)
  PROVE  GroupsInTurn /\ MembersInTurn
<1> DEFINE w == worker \ {m}
           busy == activeMembers - 1
<1>1. SettleGroupMember(GroupOf[m], memberQueue, w, busy)
  BY DEF Release
<1>2. busy \in Int /\ busy <= MaxConcurrentMembers /\ w \subseteq worker
  BY DEF IInv, TypeOK, SlotAccounting
<1> HIDE DEF w, busy
<1> QED BY <1>1, <1>2, Queues, SettleGroupMemberInTurn

(* Every turn serves those that wait in their order.                       *)
LEMMA NextInTurn == IInv /\ [Next]_vars => GroupsInTurn /\ MembersInTurn
<1> SUFFICES ASSUME IInv, [Next]_vars PROVE GroupsInTurn /\ MembersInTurn
  OBVIOUS
<1>1. CASE \E g \in Groups : \E S \in SUBSET MembersOf(g) : Submit(g, S)
  BY <1>1, SubmitInTurn
<1>2. CASE \E g \in Groups : QueueTimeout(g)
  BY <1>2, QueueTimeoutInTurn
<1>3. CASE \E m \in Members : Abort(m)
  BY <1>3, AbortInTurn
<1>4. CASE \E m \in Members : Release(m)
  BY <1>4, ReleaseInTurn
<1>5. CASE \/ \E m \in Members : ExecutionTimeout(m)
           \/ \E m \in Members : \E result \in {"value", "error"} : Settle(m, result)
           \/ UNCHANGED vars
  <2>1. UNCHANGED <<groupVars, memberVars>>
    BY <1>5 DEF ExecutionTimeout, Settle, vars
  <2>2. queue' = queue /\ Running' = Running
    BY <2>1 DEF groupVars, Running
  <2> QED BY <2>1, <2>2, GroupsStay, MembersStay
<1> QED BY <1>1, <1>2, <1>3, <1>4, <1>5 DEF Next

(* Neither queue lets anyone get ahead: not a new call, for which a slot   *)
(* happens to be free, nor a later group when an abort, a timer or a       *)
(* settled analysis moves the queues on.                                   *)
THEOREM NobodyIsOvertaken == Spec => FirstComeFirstServed
<1> DEFINE inTurn == /\ ~Overtaken(queue, queue', Running' \ Running)
                     /\ ~Overtaken(memberQueue, memberQueue', worker' \ worker)
<1>1. IInv /\ [Next]_vars => inTurn
  BY NextInTurn DEF GroupsInTurn, MembersInTurn
<1>2. Spec => [][inTurn]_vars
  BY <1>1, Inductive, PTL DEF Spec
<1> QED BY <1>2 DEF FirstComeFirstServed

-----------------------------------------------------------------------------
USE RuntimeAssumption

Answers == {"hit", "bypass", "refused", "cancelled"} \cup Outcomes

(* Every variable of the closure has the shape the code gives it.          *)
RuntimeTypeOK ==
  /\ deployment \in Deployments
  /\ known \in Deployments \cup {None}
  /\ generation \in Nat
  /\ cache \in [Keys -> Members \cup {None}]
  /\ inFlight \in [Keys -> Members \cup {None}]
  /\ waiters \in [Members -> Nat]
  /\ started \in [Members -> Nat]
  /\ origin \in [Members -> Deployments \cup {None}]
  /\ abandoned \in SUBSET Members
  /\ resolved \in SUBSET Members
  /\ settled \in SUBSET Members
  /\ joined \in [Members -> Members \cup {None}]
  /\ answer \in [Members -> Answers]

(* The members the coordinator has heard of.                               *)
Tracked ==
  {m \in Members : \/ m \in roster[GroupOf[m]]
                   \/ m \in worker \cup ToSet(memberQueue)
                   \/ outcome[m] # "none"}

(* A call is read once; only operations that were started are known to the *)
(* coordinator, given up, resolved or waited for; and the map of analyses, *)
(* like each request, refers to an operation of its own key.               *)
OperationsOK ==
  /\ \A r \in Members : state[GroupOf[r]] = "collecting" =>
       origin[r] = None /\ joined[r] = None /\ answer[r] = "none"
  /\ \A o \in Tracked \cup abandoned \cup resolved : origin[o] # None
  /\ \A o \in resolved : outcome[o] # "none"
  /\ settled \subseteq resolved
  /\ \A k \in Keys : inFlight[k] # None => KeyOf[inFlight[k]] = k
  /\ \A r \in Members : joined[r] # None =>
       KeyOf[joined[r]] = KeyOf[r] /\ origin[joined[r]] # None

(* The generation dates the operations: one of the current generation, and *)
(* so every cached result, is of the deployment the cache knows.           *)
CurrencyOK ==
  /\ \A o \in Members : started[o] <= generation
  /\ \A o \in Members :
       origin[o] # None /\ started[o] = generation => origin[o] = known
  /\ \A k \in Keys : cache[k] # None => origin[cache[k]] = known

(* The inductive invariant: the coordinator's, and what the closure keeps. *)
RInv ==
  /\ IInv
  /\ RuntimeTypeOK
  /\ OperationsOK
  /\ CurrencyOK
  /\ SharedWorkSurvives
  /\ OneLiveOperation

-----------------------------------------------------------------------------
(* The requests of a batch that start an operation are requests of it, and *)
(* each request that misses joins an operation of its own key: one in      *)
(* flight or one the batch starts.                                         *)
LEMMA JoinsAnOperation ==
  ASSUME NEW missing \in SUBSET Members, NEW r \in missing,
         inFlight \in [Keys -> Members \cup {None}],
         inFlight[KeyOf[r]] = None
  PROVE  /\ Joins(r, missing) \in Creators(missing)
         /\ KeyOf[Joins(r, missing)] = KeyOf[r]
         /\ r \in Creators(missing) => Joins(r, missing) = r
<1> DEFINE sharing == {s \in missing : KeyOf[s] = KeyOf[r]}
<1>1. sharing \in SUBSET Nat /\ sharing # {}
  BY CoordinatorAssumption
<1>2. PICK c \in sharing : \A s \in sharing : c <= s
  BY <1>1, LeastElement
<1>3. c \in Creators(missing) /\ KeyOf[c] = KeyOf[r]
  BY <1>2 DEF Creators
<1>4. /\ Joins(r, missing) = CHOOSE x \in Creators(missing) : KeyOf[x] = KeyOf[r]
      /\ Joins(r, missing) \in Creators(missing)
      /\ KeyOf[Joins(r, missing)] = KeyOf[r]
  BY <1>3 DEF Joins
<1>5. ASSUME NEW x \in Creators(missing), NEW y \in Creators(missing), KeyOf[x] = KeyOf[y]
      PROVE  x = y
  BY <1>5, CoordinatorAssumption DEF Creators
<1> QED BY <1>4, <1>5

-----------------------------------------------------------------------------
(* What a step does to what the runtime sees of the coordinator.           *)

(* Whoever settleGroupMember lets start, the coordinator knew before.      *)
LEMMA SettleGroupMemberTracks ==
  ASSUME IInv, NEW g \in Groups,
         NEW q \in Seq(Members), NEW w \in SUBSET Members, NEW busy,
         IsInjective(q), ToSet(q) \cap w = {},
         ToSet(q) \cup w \subseteq worker \cup ToSet(memberQueue),
         busy = Cardinality(w), busy <= MaxConcurrentMembers,
         SettleGroupMember(g, q, w, busy)
  PROVE  /\ \A m \in Members : m \in worker' \cup ToSet(memberQueue') => m \in Tracked
         /\ roster' = roster
         /\ \A h \in Groups : state'[h] = "collecting" => state[h] = "collecting"
<1> DEFINE known0 == worker \cup ToSet(memberQueue)
<1>0. /\ state \in [Groups -> GroupStates]
      /\ queue \in Seq(Groups)
      /\ roster \in [Groups -> SUBSET Members]
  BY DEF IInv, TypeOK
<1>1. CASE /\ DrainMembers(q, w, busy)
           /\ UNCHANGED <<roster, queue>>
           /\ state' = state \/ state' = [state EXCEPT ![g] = "settled"]
  <2>1. ToSet(memberQueue') \cup worker' = ToSet(q) \cup w
    BY <1>1, DrainMembersEffect
  <2>2. \A m \in Members : m \in worker' \cup ToSet(memberQueue') => m \in Tracked
    BY <2>1 DEF Tracked
  <2> QED BY <1>0, <1>1, <2>2
<1>2. CASE /\ queue # <<>>
           /\ state' = [state EXCEPT ![g] = "settled", ![Head(queue)] = "running"]
           /\ \E s \in Orderings(roster[Head(queue)]) : DrainMembers(q \o s, w, busy)
           /\ roster' = roster
  <2> DEFINE h == Head(queue)
  <2>1. h \in Groups /\ h \in ToSet(queue)
    BY <1>0, <1>2, TailElements DEF IInv, QueuesConsistent
  <2>2. state[h] = "queued" /\ roster[h] \subseteq MembersOf(h)
    BY <2>1 DEF IInv, QueuesConsistent, RosterOK
  <2>3. PICK s \in Orderings(roster[h]) : DrainMembers(q \o s, w, busy)
    BY <1>2
  <2>4. s \in Seq(Members) /\ IsInjective(s) /\ ToSet(s) = roster[h]
    BY <1>0, <2>1, <2>3, OrderingElements
  <2>5. \A m \in known0 \cap Members : state[GroupOf[m]] = "running"
    BY DEF IInv, NoLostMember
  <2>6. roster[h] \cap (ToSet(q) \cup w) = {}
    BY <2>2, <2>5 DEF MembersOf
  <2>7. /\ q \o s \in Seq(Members) /\ IsInjective(q \o s)
        /\ ToSet(q \o s) = ToSet(q) \cup ToSet(s)
    BY <2>4, <2>6, ConcatElements
  <2>8. ToSet(q \o s) \cap w = {}
    BY <2>4, <2>6, <2>7
  <2>9. ToSet(memberQueue') \cup worker' = ToSet(q \o s) \cup w
    BY <2>3, <2>7, <2>8, DrainMembersEffect
  <2>10. \A m \in Members : m \in worker' \cup ToSet(memberQueue') => m \in Tracked
    BY <2>2, <2>4, <2>7, <2>9 DEF Tracked, MembersOf
  <2> QED BY <1>0, <1>2, <2>1, <2>10
<1> QED BY <1>1, <1>2 DEF SettleGroupMember

(* A step that is no new call adds nothing to what the coordinator knows,  *)
(* settles no promise twice and reopens no call.                           *)
CoordinatorKeeps ==
  /\ Tracked' \subseteq Tracked
  /\ \A m \in Members : outcome[m] # "none" => outcome'[m] # "none"
  /\ \A g \in Groups : state'[g] = "collecting" => state[g] = "collecting"

LEMMA AbortTracks ==
  ASSUME IInv, NEW m \in Members, Abort(m)
  PROVE  CoordinatorKeeps
<1>0. TypeOK
  BY DEF IInv
<1>1. CASE AbortQueued(m)
  <2>1. /\ GroupOf[m] \in Groups /\ m \in Tracked
        /\ roster' = [roster EXCEPT ![GroupOf[m]] = @ \ {m}]
        /\ outcome' = [outcome EXCEPT ![m] = "aborted"]
        /\ memberQueue' = memberQueue /\ worker' = worker
        /\ state' = state \/ state' = [state EXCEPT ![GroupOf[m]] = "settled"]
    BY <1>1 DEF AbortQueued, memberVars, Tracked
  <2>2. \A x \in Members : x \in roster'[GroupOf[x]] => x \in roster[GroupOf[x]]
    BY <1>0, <2>1 DEF TypeOK
  <2>3. \A x \in Members \ {m} : outcome'[x] = outcome[x]
    BY <1>0, <2>1 DEF TypeOK
  <2>4. Tracked' \subseteq Tracked
    BY <2>1, <2>2, <2>3 DEF Tracked
  <2> QED BY <1>0, <2>1, <2>3, <2>4 DEF CoordinatorKeeps, TypeOK, GroupStates
<1>2. CASE AbortPending(m)
  <2> DEFINE q == Without(memberQueue, m)
  <2>1. /\ m \in ToSet(memberQueue)
        /\ outcome' = [outcome EXCEPT ![m] = "aborted"]
        /\ SettleGroupMember(GroupOf[m], q, worker, activeMembers)
    BY <1>2 DEF AbortPending
  <2>2. /\ q \in Seq(Members) /\ IsInjective(q)
        /\ ToSet(q) = ToSet(memberQueue) \ {m}
    BY <1>0, <2>1, WithoutElements DEF TypeOK, IInv, QueuesConsistent
  <2>3. ToSet(q) \cap worker = {}
    BY <1>0, <2>2 DEF IInv, NoLostMember, TypeOK
  <2>4. worker \in SUBSET Members /\ activeMembers = Cardinality(worker)
        /\ activeMembers <= MaxConcurrentMembers /\ GroupOf[m] \in Groups
    BY <1>0 DEF TypeOK, IInv, SlotAccounting
  <2> HIDE DEF q
  <2>5. /\ \A x \in Members : x \in worker' \cup ToSet(memberQueue') => x \in Tracked
        /\ roster' = roster
        /\ \A h \in Groups : state'[h] = "collecting" => state[h] = "collecting"
    BY <2>1, <2>2, <2>3, <2>4, SettleGroupMemberTracks
  <2>6. m \in Tracked /\ \A x \in Members \ {m} : outcome'[x] = outcome[x]
    BY <1>0, <2>1 DEF TypeOK, Tracked
  <2>7. Tracked' \subseteq Tracked
    BY <2>5, <2>6 DEF Tracked
  <2>8. \A x \in Members : outcome[x] # "none" => outcome'[x] # "none"
    BY <1>0, <2>1 DEF TypeOK
  <2> QED BY <2>5, <2>7, <2>8 DEF CoordinatorKeeps
<1>3. CASE AbortExecuting(m)
  BY <1>3 DEF AbortExecuting, CoordinatorKeeps, Tracked, groupVars, memberVars
<1> QED BY <1>1, <1>2, <1>3 DEF Abort

LEMMA QueueTimeoutTracks ==
  ASSUME IInv, NEW g \in Groups, QueueTimeout(g)
  PROVE  CoordinatorKeeps
<1>1. /\ state' = [state EXCEPT ![g] = "settled"]
      /\ roster' = roster /\ memberQueue' = memberQueue /\ worker' = worker
      /\ outcome' = [m \in Members |->
                       IF m \in roster[g] THEN "queue-timeout" ELSE outcome[m]]
  BY DEF QueueTimeout, memberVars
<1>2. \A m \in Members : m \in roster[g] => GroupOf[m] = g
  BY DEF IInv, RosterOK, MembersOf
<1>3. Tracked' \subseteq Tracked
  BY <1>1, <1>2 DEF Tracked
<1>4. \A m \in Members : outcome[m] # "none" => outcome'[m] # "none"
  BY <1>1
<1> QED BY <1>1, <1>3, <1>4 DEF CoordinatorKeeps, IInv, TypeOK

LEMMA AtWorkTracks ==
  ASSUME IInv, NEW m \in Members,
         ExecutionTimeout(m) \/ \E result \in {"value", "error"} : Settle(m, result)
  PROVE  CoordinatorKeeps
<1>1. /\ m \in worker
      /\ UNCHANGED <<state, roster, memberQueue, worker>>
  BY DEF ExecutionTimeout, Settle, groupVars, memberVars
<1>2. /\ \A x \in Members \ {m} : outcome'[x] = outcome[x]
      /\ \A x \in Members : outcome[x] # "none" => outcome'[x] # "none"
  BY DEF ExecutionTimeout, Settle, groupVars, memberVars, IInv, TypeOK
<1>3. Tracked' \subseteq Tracked
  BY <1>1, <1>2 DEF Tracked
<1> QED BY <1>1, <1>2, <1>3 DEF CoordinatorKeeps

LEMMA ReleaseTracks ==
  ASSUME IInv, NEW m \in Members, Release(m)
  PROVE  CoordinatorKeeps
<1> DEFINE w == worker \ {m}
           busy == activeMembers - 1
<1>1. /\ m \in worker
      /\ SettleGroupMember(GroupOf[m], memberQueue, w, busy)
      /\ outcome' = outcome
  BY DEF Release, promiseVars
<1>2. /\ memberQueue \in Seq(Members) /\ IsInjective(memberQueue)
      /\ worker \in SUBSET Members /\ GroupOf[m] \in Groups
      /\ activeMembers = Cardinality(worker) /\ activeMembers <= MaxConcurrentMembers
  BY DEF IInv, TypeOK, SlotAccounting, QueuesConsistent
<1>3. ToSet(memberQueue) \cap w = {}
  BY <1>2 DEF IInv, NoLostMember
<1>4. busy = Cardinality(w) /\ busy <= MaxConcurrentMembers
  <2>1. IsFiniteSet(worker) /\ Cardinality(worker) \in Nat
    BY <1>2, SubsetsFinite
  <2> QED BY <1>1, <1>2, <2>1, OneFewer
<1> HIDE DEF w, busy
<1>5. w \in SUBSET Members /\ ToSet(memberQueue) \cup w \subseteq worker \cup ToSet(memberQueue)
  BY <1>2 DEF w
<1>6. /\ \A x \in Members : x \in worker' \cup ToSet(memberQueue') => x \in Tracked
      /\ roster' = roster
      /\ \A h \in Groups : state'[h] = "collecting" => state[h] = "collecting"
  BY <1>1, <1>2, <1>3, <1>4, <1>5, SettleGroupMemberTracks
<1>7. Tracked' \subseteq Tracked
  BY <1>1, <1>6 DEF Tracked
<1> QED BY <1>1, <1>6, <1>7 DEF CoordinatorKeeps

-----------------------------------------------------------------------------
(* The runtime begins as the coordinator does.                             *)
LEMMA BeginsAsCoordinator == RuntimeInit => Init
BY DEF RuntimeInit

(* Only the first requests of a key go to the coordinator.                 *)
LEMMA CreatorsAreMissing == \A missing : Creators(missing) \subseteq missing
BY DEF Creators

(* executeAnalysis is one Submit of the coordinator.                       *)
LEMMA CallSubmits ==
  ASSUME NEW g \in Groups, Call(g)
  PROVE  \E S \in SUBSET MembersOf(g) : Submit(g, S)
<1>1. PICK refused \in SUBSET MembersOf(g) :
        Submit(g, Creators(Missing(MembersOf(g) \ refused)))
  BY DEF Call
<1>2. Creators(Missing(MembersOf(g) \ refused)) \subseteq MembersOf(g)
  BY CreatorsAreMissing DEF Missing
<1> QED BY <1>1, <1>2

(* Every step of the runtime is a step of the coordinator or leaves it     *)
(* alone.                                                                  *)
LEMMA StepsAsCoordinator == RInv /\ [RuntimeNext]_runtimeVars => [Next]_vars
<1> SUFFICES ASSUME RInv, [RuntimeNext]_runtimeVars PROVE [Next]_vars
  OBVIOUS
<1>1. CASE \E g \in Groups : Call(g)
  BY <1>1, CallSubmits DEF Next
<1>2. CASE \E g \in Groups : TimeoutOf(g)
  BY <1>2 DEF TimeoutOf, Next
<1>3. CASE \E r \in Members : Leave(r)
  <2>1. PICK r \in Members : Leave(r)
    BY <1>3
  <2>2. joined[r] \in Members
    BY <2>1 DEF Leave, RInv, RuntimeTypeOK
  <2>3. CASE AbortController(joined[r])
    BY <2>2, <2>3 DEF AbortController, Next
  <2> QED BY <2>1, <2>3 DEF Leave
<1>4. CASE \E r \in Members : Resolve(r) \/ Finish(r) \/ Deliver(r)
  BY <1>4 DEF Resolve, Finish, Deliver
<1>5. CASE \E r \in Members : ExecutionTimeoutOf(r) \/ SettleOf(r) \/ ReleaseOf(r)
  BY <1>5 DEF ExecutionTimeoutOf, SettleOf, ReleaseOf, Next
<1>6. CASE Deploy
  BY <1>6 DEF Deploy
<1>7. CASE UNCHANGED runtimeVars
  BY <1>7 DEF runtimeVars
<1> QED BY <1>1, <1>2, <1>3, <1>4, <1>5, <1>6, <1>7 DEF RuntimeNext

-----------------------------------------------------------------------------
(* The steps keep the inductive invariant.                                 *)

LEMMA WaitersFinite ==
  \A o \in Members : IsFiniteSet(WaitersOf(o)) /\ Cardinality(WaitersOf(o)) \in Nat
<1>1. \A o \in Members : WaitersOf(o) \in SUBSET Members
  BY DEF WaitersOf
<1> QED BY <1>1, SubsetsFinite

(* The coordinator's invariant is kept by every step of the runtime.       *)
LEMMA CoordinatorInvariantKept == RInv /\ [RuntimeNext]_runtimeVars => IInv'
BY StepsAsCoordinator, NextKeepsIInv DEF RInv

LEMMA IdleTracks == UNCHANGED vars => CoordinatorKeeps
BY DEF CoordinatorKeeps, Tracked, vars, groupVars, memberVars, promiseVars

(* Timers, settlements and releases of the coordinator are not seen by the *)
(* closure at once.                                                        *)
LEMMA CoordinatorAloneKeepsRInv ==
  ASSUME RInv, CoordinatorKeeps, IInv', UNCHANGED sharingVars
  PROVE  RInv'
<1> USE DEF sharingVars, cacheVars, operationVars, requestVars
<1>1. RuntimeTypeOK' /\ CurrencyOK'
  BY DEF RInv, RuntimeTypeOK, CurrencyOK
<1>2. OperationsOK'
  BY DEF RInv, RuntimeTypeOK, OperationsOK, CoordinatorKeeps
<1>3. SharedWorkSurvives' /\ OneLiveOperation'
  BY DEF RInv, SharedWorkSurvives, OneLiveOperation, WaitersOf, Live
<1> QED BY <1>1, <1>2, <1>3 DEF RInv

(* A request that no longer waits leaves the count of its operation one    *)
(* smaller, and every other count right.                                   *)
LEMMA OneWaiterLess ==
  ASSUME RInv, NEW r \in Members, joined[r] # None, answer[r] = "none",
         NEW a \in Answers \ {"none"},
         answer' = [answer EXCEPT ![r] = a],
         waiters' = [waiters EXCEPT ![joined[r]] = @ - 1],
         joined' = joined
  PROVE  /\ joined[r] \in Members
         /\ waiters[joined[r]] \in Nat \ {0}
         /\ answer' \in [Members -> Answers]
         /\ waiters' \in [Members -> Nat]
         /\ \A o \in Members : WaitersOf(o)' = WaitersOf(o) \ {r}
         /\ \A o \in Members : waiters'[o] = Cardinality(WaitersOf(o)')
         /\ \A o \in Members \ {joined[r]} : waiters'[o] = waiters[o]
         /\ \A o \in Members : o = joined[r] /\ waiters[o] = 1 => WaitersOf(o)' = {}
<1> DEFINE o == joined[r]
<1>1. /\ o \in Members
      /\ waiters \in [Members -> Nat]
      /\ answer \in [Members -> Answers]
      /\ \A p \in Members : waiters[p] = Cardinality(WaitersOf(p))
  BY DEF RInv, RuntimeTypeOK, SharedWorkSurvives
<1>2. r \in WaitersOf(o)
  BY DEF WaitersOf
<1>3. \A p \in Members : WaitersOf(p)' = WaitersOf(p) \ {r}
  BY <1>1 DEF WaitersOf
<1>4. \A p \in Members \ {o} : r \notin WaitersOf(p)
  BY DEF WaitersOf
<1>5. Cardinality(WaitersOf(o) \ {r}) = waiters[o] - 1
  BY <1>1, <1>2, WaitersFinite, OneFewer
<1>6. IsFiniteSet(WaitersOf(o) \ {r}) /\ Cardinality(WaitersOf(o) \ {r}) \in Nat
  BY <1>1, WaitersFinite, FS_Subset, FS_CardinalityType
<1>7. waiters[o] \in Nat \ {0}
  <2>1. waiters[o] \in Nat
    BY <1>1
  <2>2. waiters[o] - 1 \in Nat
    BY <1>5, <1>6
  <2> HIDE DEF o
  <2> QED BY <2>1, <2>2
<1>8. \A p \in Members \ {o} : waiters'[p] = waiters[p]
  BY <1>1
<1>9. waiters'[o] = waiters[o] - 1
  BY <1>1
<1>10. waiters' \in [Members -> Nat]
  BY <1>1, <1>7
<1>11. \A p \in Members : waiters'[p] = Cardinality(WaitersOf(p)')
  <2> SUFFICES ASSUME NEW p \in Members PROVE waiters'[p] = Cardinality(WaitersOf(p)')
    OBVIOUS
  <2>1. CASE p = o
    BY <2>1, <1>3, <1>5, <1>9
  <2>2. CASE p # o
    <3>1. WaitersOf(p)' = WaitersOf(p)
      <4>1. WaitersOf(p)' = WaitersOf(p) \ {r} /\ r \notin WaitersOf(p)
        BY <2>2, <1>3, <1>4
      <4>2. WaitersOf(p) \ {r} = WaitersOf(p)
        BY <4>1
      <4> QED BY <4>1, <4>2
    <3> QED BY <3>1, <2>2, <1>1, <1>8
  <2> QED BY <2>1, <2>2
<1>12. \A p \in Members : p = o /\ waiters[p] = 1 => WaitersOf(p)' = {}
  <2> SUFFICES ASSUME NEW p \in Members, p = o, waiters[p] = 1
               PROVE  WaitersOf(p)' = {}
    OBVIOUS
  <2>1. Cardinality(WaitersOf(p) \ {r}) = 0
    BY <1>5
  <2>2. IsFiniteSet(WaitersOf(p) \ {r})
    BY <1>6
  <2>3. WaitersOf(p) \ {r} = {}
    BY <2>1, <2>2, FS_EmptySet
  <2> QED BY <1>3, <2>3
<1>13. answer' \in [Members -> Answers]
  BY <1>1
<1> QED BY <1>1, <1>3, <1>7, <1>8, <1>10, <1>11, <1>12, <1>13

(* Only the operation's own entry goes.                                    *)
LEMMA WithoutOperationEffect ==
  ASSUME RInv, NEW o \in Members, inFlight' = WithoutOperation(o)
  PROVE  /\ inFlight' \in [Keys -> Members \cup {None}]
         /\ \A k \in Keys : inFlight'[k] = IF inFlight[k] = o THEN None ELSE inFlight[k]
<1>1. inFlight \in [Keys -> Members \cup {None}] /\ KeyOf[o] \in Keys
  BY DEF RInv, RuntimeTypeOK
<1>2. \A k \in Keys : inFlight[k] = o => k = KeyOf[o]
  BY DEF RInv, OperationsOK
<1>3. inFlight' = [inFlight EXCEPT ![KeyOf[o]] = IF @ = o THEN None ELSE @]
  BY DEF WithoutOperation
<1> QED BY <1>1, <1>2, <1>3

(* finishWaiting: nobody else's analysis is taken away.                    *)
LEMMA LeaveKeepsRInv ==
  ASSUME RInv, IInv', NEW r \in Members, Leave(r)
  PROVE  RInv'
<1> DEFINE o == joined[r]
<1>1. /\ o # None /\ answer[r] = "none"
      /\ answer' = [answer EXCEPT ![r] = "cancelled"]
      /\ waiters' = [waiters EXCEPT ![o] = @ - 1]
      /\ joined' = joined
      /\ UNCHANGED <<cacheVars, started, origin, resolved, settled>>
  BY DEF Leave
<1>2. /\ o \in Members
      /\ waiters[o] \in Nat \ {0}
      /\ answer' \in [Members -> Answers]
      /\ waiters' \in [Members -> Nat]
      /\ \A p \in Members : WaitersOf(p)' = WaitersOf(p) \ {r}
      /\ \A p \in Members : waiters'[p] = Cardinality(WaitersOf(p)')
      /\ \A p \in Members \ {o} : waiters'[p] = waiters[p]
      /\ \A p \in Members : p = o /\ waiters[p] = 1 => WaitersOf(p)' = {}
  BY <1>1, OneWaiterLess DEF Answers
<1>3. state[GroupOf[r]] # "collecting"
  BY <1>1 DEF RInv, OperationsOK
<1>4. origin[o] # None
  BY <1>1 DEF RInv, OperationsOK
<1>5. CASE /\ waiters[o] = 1
           /\ o \notin settled
           /\ inFlight' = WithoutOperation(o)
           /\ abandoned' = abandoned \cup {o}
           /\ AbortController(o)
  <2>1. CoordinatorKeeps
    BY <1>2, <1>5, AbortTracks, IdleTracks DEF AbortController, RInv
  <2>2. /\ inFlight' \in [Keys -> Members \cup {None}]
        /\ \A k \in Keys : inFlight'[k] = IF inFlight[k] = o THEN None ELSE inFlight[k]
    BY <1>2, <1>5, WithoutOperationEffect
  <2>3. RuntimeTypeOK' /\ CurrencyOK'
    BY <1>1, <1>2, <1>5, <2>2 DEF RInv, RuntimeTypeOK, CurrencyOK, cacheVars
  <2>4. OperationsOK'
    <3>1. \A p \in Members : state'[GroupOf[p]] = "collecting" =>
            origin'[p] = None /\ joined'[p] = None /\ answer'[p] = "none"
      BY <1>1, <1>3, <2>1 DEF RInv, OperationsOK, RuntimeTypeOK, CoordinatorKeeps
    <3>2. \A p \in Tracked' \cup abandoned' \cup resolved' : origin'[p] # None
      BY <1>1, <1>4, <1>5, <2>1 DEF RInv, OperationsOK, CoordinatorKeeps
    <3>3. \A p \in resolved' : outcome'[p] # "none"
      BY <1>1, <2>1 DEF RInv, RuntimeTypeOK, OperationsOK, CoordinatorKeeps
    <3>4. \A k \in Keys : inFlight'[k] # None => KeyOf[inFlight'[k]] = k
      BY <2>2 DEF RInv, OperationsOK
    <3> QED BY <1>1, <3>1, <3>2, <3>3, <3>4 DEF RInv, OperationsOK
  <2>5. SharedWorkSurvives'
    <3>1. \A p \in abandoned' : p \in Members /\ WaitersOf(p)' = {}
      <4> SUFFICES ASSUME NEW p \in abandoned'
                   PROVE  p \in Members /\ WaitersOf(p)' = {}
        OBVIOUS
      <4>1. CASE p = o
        BY <1>2, <1>5, <4>1
      <4>2. CASE p \in abandoned
        <5>1. p \in Members /\ WaitersOf(p) = {}
          BY <4>2 DEF RInv, RuntimeTypeOK, SharedWorkSurvives
        <5>2. WaitersOf(p)' = WaitersOf(p) \ {r}
          BY <1>2, <5>1
        <5> QED BY <5>1, <5>2
      <4> QED BY <1>5, <4>1, <4>2
    <3>2. \A p \in abandoned' : inFlight'[KeyOf[p]] # p
      <4>1. \A p \in abandoned : inFlight[KeyOf[p]] # p
        BY DEF RInv, SharedWorkSurvives
      <4> SUFFICES ASSUME NEW p \in abandoned'
                   PROVE  inFlight'[KeyOf[p]] # p
        OBVIOUS
      <4>2. p \in Members /\ p # None /\ KeyOf[p] \in Keys
        BY <3>1
      <4> QED BY <1>5, <2>2, <4>1, <4>2
    <3> QED BY <1>2, <3>1, <3>2 DEF SharedWorkSurvives
  <2>6. OneLiveOperation'
    <3>1. Live' = Live \ {o}
      BY <1>1, <1>5 DEF Live
    <3>2. \A p \in Members : inFlight'[KeyOf[p]] = p <=> p \in Live \ {o}
      BY <2>2 DEF RInv, OneLiveOperation, Live
    <3> QED BY <1>2, <3>1, <3>2 DEF RInv, OneLiveOperation, Live
  <2> QED BY <2>3, <2>4, <2>5, <2>6 DEF RInv
<1>6. CASE /\ waiters[o] # 1 \/ o \in settled
           /\ UNCHANGED <<inFlight, abandoned, vars>>
  <2>1. CoordinatorKeeps
    BY <1>6, IdleTracks
  <2>2. RuntimeTypeOK' /\ CurrencyOK'
    BY <1>1, <1>2, <1>6 DEF RInv, RuntimeTypeOK, CurrencyOK, cacheVars
  <2>3. OperationsOK'
    <3>1. \A p \in Members : state'[GroupOf[p]] = "collecting" =>
            origin'[p] = None /\ joined'[p] = None /\ answer'[p] = "none"
      BY <1>1, <1>3, <2>1 DEF RInv, OperationsOK, RuntimeTypeOK, CoordinatorKeeps
    <3> QED BY <1>1, <1>6, <2>1, <3>1 DEF RInv, OperationsOK, CoordinatorKeeps, RuntimeTypeOK
  <2>4. SharedWorkSurvives'
    BY <1>2, <1>6 DEF RInv, RuntimeTypeOK, SharedWorkSurvives
  <2>5. OneLiveOperation'
    <3>1. Live' = Live
      BY <1>1, <1>6 DEF Live
    <3>2. \A p \in Live : waiters'[p] > 0
      <4> SUFFICES ASSUME NEW p \in Live PROVE waiters'[p] > 0
        OBVIOUS
      <4>1. p \in Members /\ waiters[p] > 0 /\ p \notin settled
        BY DEF RInv, OneLiveOperation, Live
      <4>2. CASE p = o
        <5>1. waiters'[o] = waiters[o] - 1
          BY <1>1, <1>2 DEF RInv, RuntimeTypeOK
        <5>2. waiters[o] # 1
          BY <1>6, <4>1, <4>2
        <5> QED BY <1>2, <4>2, <5>1, <5>2
      <4>3. CASE p # o
        BY <1>2, <4>1, <4>3
      <4> QED BY <4>2, <4>3
    <3> QED BY <1>6, <3>1, <3>2 DEF RInv, OneLiveOperation
  <2> QED BY <2>2, <2>3, <2>4, <2>5 DEF RInv
<1> QED BY <1>5, <1>6 DEF Leave

(* The then handler: what it caches is of the deployment the cache knows.  *)
LEMMA ResolveKeepsRInv ==
  ASSUME RInv, IInv', NEW o \in Members, Resolve(o)
  PROVE  RInv'
<1>1. /\ outcome[o] # "none"
      /\ resolved' = resolved \cup {o}
      /\ UNCHANGED <<vars, deployment, known, generation, inFlight, waiters,
                     started, origin, abandoned, settled, joined, answer>>
  BY DEF Resolve, requestVars
<1>2. CoordinatorKeeps
  BY <1>1, IdleTracks
<1>3. o \in Tracked /\ origin[o] # None
  BY <1>1 DEF Tracked, RInv, OperationsOK
<1>4. /\ cache' \in [Keys -> Members \cup {None}]
      /\ \A k \in Keys : cache'[k] # None => origin[cache'[k]] = known
  <2>1. cache \in [Keys -> Members \cup {None}] /\ KeyOf[o] \in Keys
    BY DEF RInv, RuntimeTypeOK
  <2>2. \A k \in Keys : cache[k] # None => origin[cache[k]] = known
    BY DEF RInv, CurrencyOK
  <2>3. CASE cache' = cache
    BY <2>1, <2>2, <2>3
  <2>4. CASE cache' = [cache EXCEPT ![KeyOf[o]] = None]
    BY <2>1, <2>2, <2>4
  <2>5. CASE started[o] = generation /\ cache' \in Stored(o)
    <3>1. origin[o] = known
      BY <1>3, <2>5 DEF RInv, CurrencyOK
    <3>2. PICK evicted \in SUBSET Keys :
            cache' = [k \in Keys |-> IF k = KeyOf[o] THEN o
                                     ELSE IF k \in evicted THEN None ELSE cache[k]]
      BY <2>5 DEF Stored
    <3> QED BY <2>1, <2>2, <3>1, <3>2
  <2> QED BY <2>3, <2>4, <2>5 DEF Resolve
<1>5. RuntimeTypeOK'
  BY <1>1, <1>4 DEF RInv, RuntimeTypeOK
<1>6. CurrencyOK'
  BY <1>1, <1>4 DEF RInv, CurrencyOK
<1>7. OperationsOK'
  BY <1>1, <1>2, <1>3 DEF RInv, RuntimeTypeOK, OperationsOK, CoordinatorKeeps
<1>8. SharedWorkSurvives'
  BY <1>1 DEF RInv, SharedWorkSurvives, WaitersOf
<1>9. OneLiveOperation'
  <2>1. Live' = Live
    BY <1>1 DEF Live
  <2> QED BY <1>1, <2>1 DEF RInv, OneLiveOperation
<1> QED BY <1>5, <1>6, <1>7, <1>8, <1>9 DEF RInv

(* The finally handler removes the operation's own entry and nothing else. *)
LEMMA FinishKeepsRInv ==
  ASSUME RInv, IInv', NEW o \in Members, Finish(o)
  PROVE  RInv'
<1>1. /\ o \in resolved \ settled
      /\ settled' = settled \cup {o}
      /\ inFlight' = WithoutOperation(o)
      /\ UNCHANGED <<vars, cacheVars, waiters, started, origin, abandoned,
                     resolved, joined, answer>>
  BY DEF Finish, requestVars
<1>2. CoordinatorKeeps
  BY <1>1, IdleTracks
<1>3. /\ inFlight' \in [Keys -> Members \cup {None}]
      /\ \A k \in Keys : inFlight'[k] = IF inFlight[k] = o THEN None ELSE inFlight[k]
  BY <1>1, WithoutOperationEffect
<1>4. RuntimeTypeOK' /\ CurrencyOK'
  BY <1>1, <1>3 DEF RInv, RuntimeTypeOK, CurrencyOK, cacheVars
<1>5. OperationsOK'
  BY <1>1, <1>2, <1>3 DEF RInv, RuntimeTypeOK, OperationsOK, CoordinatorKeeps
<1>6. SharedWorkSurvives'
  <2>1. \A p \in Members : WaitersOf(p)' = WaitersOf(p)
    BY <1>1 DEF WaitersOf
  <2>2. \A p \in abandoned : p \in Members
    BY DEF RInv, RuntimeTypeOK
  <2>3. \A p \in abandoned : WaitersOf(p)' = {}
    BY <2>1, <2>2 DEF RInv, SharedWorkSurvives
  <2>4. \A p \in abandoned : inFlight'[KeyOf[p]] # p
    BY <1>3, <2>2 DEF RInv, SharedWorkSurvives
  <2> QED BY <1>1, <2>1, <2>3, <2>4 DEF RInv, SharedWorkSurvives
<1>7. OneLiveOperation'
  <2>1. Live' = Live \ {o}
    BY <1>1 DEF Live
  <2>2. \A p \in Members : inFlight'[KeyOf[p]] = p <=> p \in Live \ {o}
    BY <1>3 DEF RInv, OneLiveOperation, Live
  <2> QED BY <1>1, <2>1, <2>2 DEF RInv, OneLiveOperation
<1> QED BY <1>4, <1>5, <1>6, <1>7 DEF RInv

(* A waiter takes the outcome of an operation that has settled.            *)
LEMMA DeliverKeepsRInv ==
  ASSUME RInv, IInv', NEW r \in Members, Deliver(r)
  PROVE  RInv'
<1> DEFINE o == joined[r]
<1>1. /\ o \in settled /\ answer[r] = "none"
      /\ answer' = [answer EXCEPT ![r] = outcome[o]]
      /\ waiters' = [waiters EXCEPT ![o] = @ - 1]
      /\ joined' = joined
      /\ UNCHANGED <<vars, cacheVars, inFlight, started, origin, abandoned,
                     resolved, settled>>
  BY DEF Deliver, operationVars
<1>2. /\ o \in Members /\ o # None
      /\ outcome[o] \in Answers \ {"none"}
  <2>1. o \in Members /\ outcome[o] # "none"
    BY <1>1 DEF RInv, RuntimeTypeOK, OperationsOK
  <2>2. outcome[o] \in Outcomes
    BY <2>1 DEF RInv, IInv, TypeOK
  <2> QED BY <2>1, <2>2 DEF Answers
<1>3. /\ answer' \in [Members -> Answers]
      /\ waiters' \in [Members -> Nat]
      /\ \A p \in Members : WaitersOf(p)' = WaitersOf(p) \ {r}
      /\ \A p \in Members : waiters'[p] = Cardinality(WaitersOf(p)')
      /\ \A p \in Members \ {o} : waiters'[p] = waiters[p]
  BY <1>1, <1>2, OneWaiterLess
<1>4. state[GroupOf[r]] # "collecting"
  BY <1>1, <1>2 DEF RInv, OperationsOK
<1>5. CoordinatorKeeps
  BY <1>1, IdleTracks
<1>6. RuntimeTypeOK' /\ CurrencyOK'
  BY <1>1, <1>3 DEF RInv, RuntimeTypeOK, CurrencyOK, cacheVars
<1>7. OperationsOK'
  <2>1. \A p \in Members : state'[GroupOf[p]] = "collecting" =>
          origin'[p] = None /\ joined'[p] = None /\ answer'[p] = "none"
    BY <1>1, <1>4, <1>5 DEF RInv, OperationsOK, RuntimeTypeOK, CoordinatorKeeps
  <2> QED BY <1>1, <1>5, <2>1 DEF RInv, OperationsOK, CoordinatorKeeps, RuntimeTypeOK
<1>8. SharedWorkSurvives'
  <2>1. \A p \in abandoned : WaitersOf(p)' = {}
    <3> SUFFICES ASSUME NEW p \in abandoned PROVE WaitersOf(p)' = {}
      OBVIOUS
    <3>1. p \in Members /\ WaitersOf(p) = {}
      BY DEF RInv, RuntimeTypeOK, SharedWorkSurvives
    <3>2. WaitersOf(p)' = WaitersOf(p) \ {r}
      BY <1>3, <3>1
    <3> QED BY <3>1, <3>2
  <2> QED BY <1>1, <1>3, <2>1 DEF RInv, SharedWorkSurvives
<1>9. OneLiveOperation'
  <2>1. Live' = Live /\ o \notin Live
    BY <1>1 DEF Live
  <2> QED BY <1>1, <1>3, <2>1 DEF RInv, OneLiveOperation, Live
<1> QED BY <1>6, <1>7, <1>8, <1>9 DEF RInv

LEMMA DeployKeepsRInv == RInv /\ IInv' /\ Deploy => RInv'
<1> SUFFICES ASSUME RInv, IInv', Deploy PROVE RInv'
  OBVIOUS
<1>1. /\ deployment' \in Deployments
      /\ UNCHANGED <<vars, known, generation, cache, inFlight, waiters, started,
                     origin, abandoned, resolved, settled, joined, answer>>
  BY DEF Deploy, operationVars, requestVars
<1>2. CoordinatorKeeps
  BY <1>1, IdleTracks
<1>3. RuntimeTypeOK' /\ CurrencyOK'
  BY <1>1 DEF RInv, RuntimeTypeOK, CurrencyOK
<1>4. OperationsOK'
  BY <1>1, <1>2 DEF RInv, RuntimeTypeOK, OperationsOK, CoordinatorKeeps
<1>5. SharedWorkSurvives' /\ OneLiveOperation'
  BY <1>1 DEF RInv, SharedWorkSurvives, OneLiveOperation, WaitersOf, Live
<1> QED BY <1>3, <1>4, <1>5 DEF RInv

(* A new call adds to what the coordinator knows only its own members.     *)
LEMMA SubmitTracks ==
  ASSUME IInv, NEW g \in Groups, NEW S \in SUBSET MembersOf(g), Submit(g, S)
  PROVE  /\ Tracked' \subseteq Tracked \cup S
         /\ \A m \in Members : outcome[m] # "none" => outcome'[m] # "none"
         /\ \A h \in Groups : state'[h] = "collecting" => state[h] = "collecting" /\ h # g
<1>0. TypeOK /\ S \in SUBSET Members /\ \A m \in S : GroupOf[m] = g
  BY DEF IInv, MembersOf
<1>1. CASE SubmitEmpty(g, S)
  <2>1. /\ state' = [state EXCEPT ![g] = "settled"]
        /\ UNCHANGED <<roster, memberQueue, worker, outcome>>
    BY <1>1 DEF SubmitEmpty, memberVars, promiseVars
  <2> QED BY <1>0, <2>1 DEF TypeOK, Tracked
<1>2. CASE SubmitAndStart(g, S)
  <2>1. PICK s \in Orderings(S) :
          DrainMembers(memberQueue \o s, worker, activeMembers)
    BY <1>2 DEF SubmitAndStart
  <2>2. /\ state[g] = "collecting"
        /\ state' = [state EXCEPT ![g] = "running"]
        /\ roster' = [roster EXCEPT ![g] = S]
        /\ outcome' = outcome
    BY <1>2 DEF SubmitAndStart, promiseVars
  <2>3. s \in Seq(Members) /\ IsInjective(s) /\ ToSet(s) = S
    BY <1>0, OrderingElements
  <2>4. \A m \in Members : m \in worker \cup ToSet(memberQueue) =>
          state[GroupOf[m]] = "running"
    BY DEF IInv, NoLostMember
  <2>5. S \cap (worker \cup ToSet(memberQueue)) = {}
    BY <1>0, <2>2, <2>4
  <2>6. /\ memberQueue \in Seq(Members) /\ IsInjective(memberQueue)
        /\ worker \in SUBSET Members
        /\ ToSet(memberQueue) \cap worker = {}
        /\ activeMembers = Cardinality(worker)
        /\ activeMembers <= MaxConcurrentMembers
    <3>1. ToSet(memberQueue) \subseteq Members
      BY <1>0 DEF TypeOK, ToSet
    <3> QED BY <1>0, <3>1 DEF TypeOK, IInv, QueuesConsistent, NoLostMember, SlotAccounting
  <2>7. /\ memberQueue \o s \in Seq(Members) /\ IsInjective(memberQueue \o s)
        /\ ToSet(memberQueue \o s) = ToSet(memberQueue) \cup S
    BY <2>3, <2>5, <2>6, ConcatElements
  <2>8. ToSet(memberQueue \o s) \cap worker = {}
    BY <2>5, <2>6, <2>7
  <2>9. ToSet(memberQueue') \cup worker' = ToSet(memberQueue \o s) \cup worker
    BY <2>1, <2>6, <2>7, <2>8, DrainMembersEffect
  <2>10. \A m \in Members : m \in roster'[GroupOf[m]] => m \in roster[GroupOf[m]] \/ m \in S
    BY <1>0, <2>2 DEF TypeOK
  <2>11. Tracked' \subseteq Tracked \cup S
    BY <2>2, <2>7, <2>9, <2>10 DEF Tracked
  <2> QED BY <1>0, <2>2, <2>11 DEF TypeOK
<1>3. CASE SubmitQueueFull(g, S) \/ SubmitAndQueue(g, S)
  <2>1. /\ state' = [state EXCEPT ![g] = "settled"] \/ state' = [state EXCEPT ![g] = "queued"]
        /\ roster' = [roster EXCEPT ![g] = S]
        /\ UNCHANGED <<memberQueue, worker>>
        /\ \A m \in Members \ S : outcome'[m] = outcome[m]
        /\ \A m \in Members : outcome[m] # "none" => outcome'[m] # "none"
    BY <1>0, <1>3 DEF SubmitQueueFull, SubmitAndQueue, memberVars, promiseVars
  <2>2. \A m \in Members : m \in roster'[GroupOf[m]] => m \in roster[GroupOf[m]] \/ m \in S
    BY <1>0, <2>1 DEF TypeOK
  <2>3. Tracked' \subseteq Tracked \cup S
    BY <2>1, <2>2 DEF Tracked
  <2> QED BY <1>0, <2>1, <2>3 DEF TypeOK
<1> QED BY <1>1, <1>2, <1>3 DEF Submit

(* startSharedOperation and waitForSharedOperation, for requests that have *)
(* neither been answered nor joined an operation.                          *)
LEMMA ShareEffect ==
  ASSUME RInv, NEW missing \in SUBSET Members, Share(missing),
         \A r \in missing : joined[r] = None /\ origin[r] = None /\ answer[r] = "none"
  PROVE  /\ inFlight' \in [Keys -> Members \cup {None}]
         /\ joined' \in [Members -> Members \cup {None}]
         /\ waiters' \in [Members -> Nat]
         /\ \A k \in Keys :
              \/ inFlight'[k] = inFlight[k]
              \/ inFlight'[k] \in Creators(missing) /\ KeyOf[inFlight'[k]] = k
         /\ \A k \in Keys : inFlight[k] # None => inFlight'[k] = inFlight[k]
         /\ \A c \in Creators(missing) : inFlight'[KeyOf[c]] = c
         /\ \A r \in missing :
              /\ joined'[r] \in Live \cup Creators(missing)
              /\ KeyOf[joined'[r]] = KeyOf[r]
         /\ \A c \in Creators(missing) : joined'[c] = c
         /\ \A r \in Members \ missing : joined'[r] = joined[r]
         /\ \A o \in Members :
              waiters'[o] = Cardinality({r \in Members : joined'[r] = o /\ answer[r] = "none"})
<1> DEFINE S == Creators(missing)
<1>1. /\ inFlight \in [Keys -> Members \cup {None}]
      /\ joined \in [Members -> Members \cup {None}]
      /\ S \in SUBSET missing
  BY CreatorsAreMissing DEF RInv, RuntimeTypeOK
<1>2. /\ inFlight' = [k \in Keys |-> IF \E c \in S : KeyOf[c] = k
                                     THEN CHOOSE c \in S : KeyOf[c] = k
                                     ELSE inFlight[k]]
      /\ joined' = [r \in Members |-> IF r \in missing THEN Joins(r, missing) ELSE joined[r]]
      /\ waiters' = [o \in Members |->
           waiters[o] + Cardinality({r \in missing : Joins(r, missing) = o})]
  BY DEF Share
<1>3. \A c, d \in S : KeyOf[c] = KeyOf[d] => c = d
  <2> SUFFICES ASSUME NEW c \in S, NEW d \in S, KeyOf[c] = KeyOf[d]
               PROVE  c = d
    OBVIOUS
  <2>1. c \in Nat /\ d \in Nat
    BY <1>1
  <2>2. c <= d /\ d <= c
    BY DEF Creators
  <2> HIDE DEF S
  <2> QED BY <2>1, <2>2
<1>4. \A c \in S : inFlight[KeyOf[c]] = None
  BY DEF Creators
<1>5. \A k \in Keys : \/ /\ inFlight'[k] = inFlight[k]
                         /\ \A c \in S : KeyOf[c] # k
                      \/ inFlight'[k] \in S /\ KeyOf[inFlight'[k]] = k
  <2> HIDE DEF S
  <2> QED BY <1>2
<1>6. \A c \in S : inFlight'[KeyOf[c]] = c
  <2> SUFFICES ASSUME NEW c \in S PROVE inFlight'[KeyOf[c]] = c
    OBVIOUS
  <2>1. c \in Members /\ KeyOf[c] \in Keys
    BY <1>1
  <2> QED BY <1>3, <1>5, <2>1
<1>7. \A k \in Keys : inFlight[k] # None => inFlight'[k] = inFlight[k]
  BY <1>4, <1>5
<1>8. \A r \in missing : /\ Joins(r, missing) \in Live \cup S
                         /\ KeyOf[Joins(r, missing)] = KeyOf[r]
                         /\ r \in S => Joins(r, missing) = r
  <2> SUFFICES ASSUME NEW r \in missing
               PROVE  /\ Joins(r, missing) \in Live \cup S
                      /\ KeyOf[Joins(r, missing)] = KeyOf[r]
                      /\ r \in S => Joins(r, missing) = r
    OBVIOUS
  <2>1. CASE inFlight[KeyOf[r]] = None
    BY <1>1, <2>1, JoinsAnOperation
  <2>2. CASE inFlight[KeyOf[r]] # None
    <3> DEFINE j == inFlight[KeyOf[r]]
    <3>1. Joins(r, missing) = j /\ r \notin S
      BY <1>4, <2>2 DEF Joins
    <3>2. KeyOf[r] \in Keys /\ j \in Members
      BY <1>1, <2>2
    <3>3. KeyOf[j] = KeyOf[r]
      BY <2>2, <3>2 DEF RInv, OperationsOK
    <3>4. j \in Live
      BY <3>2, <3>3 DEF RInv, OneLiveOperation
    <3> QED BY <3>1, <3>3, <3>4
  <2> QED BY <2>1, <2>2
<1>9. Live \subseteq Members /\ S \subseteq Members
  BY <1>1 DEF Live
<1> HIDE DEF S
<1>10. /\ inFlight' \in [Keys -> Members \cup {None}]
       /\ joined' \in [Members -> Members \cup {None}]
  <2>1. \A k \in Keys : inFlight'[k] \in Members \cup {None}
    BY <1>1, <1>5, <1>9
  <2>2. \A r \in missing : Joins(r, missing) \in Members
    BY <1>8, <1>9
  <2> QED BY <1>1, <1>2, <2>1, <2>2
<1>11. /\ \A r \in missing : joined'[r] = Joins(r, missing)
       /\ \A r \in Members \ missing : joined'[r] = joined[r]
  BY <1>2
<1>12. ASSUME NEW o \in Members
       PROVE  /\ waiters'[o] = Cardinality({r \in Members : joined'[r] = o /\ answer[r] = "none"})
              /\ waiters'[o] \in Nat
  <2> DEFINE joining == {r \in missing : Joins(r, missing) = o}
  <2>1. {r \in Members : joined'[r] = o /\ answer[r] = "none"} = WaitersOf(o) \cup joining
    BY <1>11 DEF WaitersOf
  <2>2. WaitersOf(o) \cap joining = {}
    BY DEF WaitersOf
  <2>3. IsFiniteSet(WaitersOf(o)) /\ IsFiniteSet(joining)
        /\ Cardinality(WaitersOf(o)) \in Nat /\ Cardinality(joining) \in Nat
    <3>1. joining \in SUBSET Members
      OBVIOUS
    <3> QED BY <3>1, WaitersFinite, SubsetsFinite
  <2>4. waiters'[o] = Cardinality(WaitersOf(o)) + Cardinality(joining)
    BY <1>2 DEF RInv, SharedWorkSurvives
  <2> HIDE DEF joining
  <2>5. Cardinality(WaitersOf(o) \cup joining)
          = Cardinality(WaitersOf(o)) + Cardinality(joining) - Cardinality(WaitersOf(o) \cap joining)
    BY <2>3, FS_Union
  <2>6. Cardinality(WaitersOf(o) \cap joining) = 0
    BY <2>2, FS_EmptySet
  <2>7. waiters'[o] = Cardinality(WaitersOf(o) \cup joining) /\ waiters'[o] \in Nat
    BY <2>3, <2>4, <2>5, <2>6
  <2>8. Cardinality({r \in Members : joined'[r] = o /\ answer[r] = "none"})
          = Cardinality(WaitersOf(o) \cup joining)
    BY <2>1
  <2> QED BY <2>7, <2>8
<1>13. waiters' \in [Members -> Nat]
  BY <1>2, <1>12
<1>14. /\ \A r \in missing : joined'[r] \in Live \cup S /\ KeyOf[joined'[r]] = KeyOf[r]
       /\ \A c \in S : joined'[c] = c
  BY <1>1, <1>8, <1>11
<1>15. \A k \in Keys :
         \/ inFlight'[k] = inFlight[k]
         \/ inFlight'[k] \in S /\ KeyOf[inFlight'[k]] = k
  BY <1>5
<1> QED BY <1>6, <1>7, <1>10, <1>11, <1>12, <1>13, <1>14, <1>15 DEF S

(* executeAnalysis and executeBatch: identical requests join the operation *)
(* in flight, or the one their batch starts.                               *)
LEMMA CallKeepsRInv ==
  ASSUME RInv, IInv', NEW g \in Groups, Call(g)
  PROVE  RInv'
<1>1. PICK refused \in SUBSET MembersOf(g) :
        LET accepted == MembersOf(g) \ refused
        IN  /\ IF accepted = {} THEN UNCHANGED <<known, generation, cache>>
                                ELSE Synchronize
            /\ Share(Missing(accepted))
            /\ answer' = [r \in Members |->
                 IF r \in refused THEN "refused"
                 ELSE IF r \in Bypassed(accepted) THEN "bypass"
                 ELSE IF r \in Hits(accepted) THEN "hit"
                 ELSE answer[r]]
            /\ Submit(g, Creators(Missing(accepted)))
  BY DEF Call
<1> DEFINE accepted == MembersOf(g) \ refused
<1>2. /\ Missing(accepted) \in SUBSET accepted
      /\ Missing(accepted) \cap (refused \cup Bypassed(accepted) \cup Hits(accepted)) = {}
      /\ Bypassed(accepted) \subseteq accepted /\ Hits(accepted) \subseteq accepted
  BY DEF Missing, Bypassed, Hits
<1>3. PICK missing \in SUBSET accepted : missing = Missing(accepted)
  BY <1>2
<1>4. /\ IF accepted = {} THEN UNCHANGED <<known, generation, cache>> ELSE Synchronize
      /\ Share(missing)
      /\ answer' = [r \in Members |->
           IF r \in refused THEN "refused"
           ELSE IF r \in Bypassed(accepted) THEN "bypass"
           ELSE IF r \in Hits(accepted) THEN "hit"
           ELSE answer[r]]
      /\ Submit(g, Creators(missing))
  BY <1>1, <1>3
<1>5. /\ state[g] = "collecting"
      /\ UNCHANGED <<deployment, abandoned, resolved, settled>>
  BY DEF Call
<1> DEFINE S == Creators(missing)
<1>6. /\ S \subseteq missing /\ missing \subseteq MembersOf(g)
      /\ S \in SUBSET MembersOf(g) /\ missing \in SUBSET Members
      /\ \A r \in MembersOf(g) : r \in Members /\ GroupOf[r] = g
  BY CreatorsAreMissing DEF MembersOf
<1>7. \A r \in MembersOf(g) : origin[r] = None /\ joined[r] = None /\ answer[r] = "none"
  BY <1>5, <1>6 DEF RInv, OperationsOK
<1>8. /\ answer' \in [Members -> Answers]
      /\ \A r \in Members \ MembersOf(g) : answer'[r] = answer[r]
      /\ \A r \in missing : answer'[r] = answer[r]
  <2>1. answer \in [Members -> Answers]
    BY DEF RInv, RuntimeTypeOK
  <2>2. answer' \in [Members -> Answers]
    BY <1>4, <2>1 DEF Answers
  <2>3. \A r \in Members \ MembersOf(g) : answer'[r] = answer[r]
    <3>1. refused \cup Bypassed(accepted) \cup Hits(accepted) \subseteq MembersOf(g)
      BY <1>2
    <3> HIDE DEF accepted
    <3> QED BY <1>4, <3>1
  <2>4. \A r \in missing : answer'[r] = answer[r]
    <3>1. missing \cap (refused \cup Bypassed(accepted) \cup Hits(accepted)) = {}
      BY <1>2, <1>3
    <3> HIDE DEF accepted
    <3> QED BY <1>4, <1>6, <3>1
  <2> QED BY <2>2, <2>3, <2>4
<1>9. /\ inFlight' \in [Keys -> Members \cup {None}]
      /\ joined' \in [Members -> Members \cup {None}]
      /\ waiters' \in [Members -> Nat]
      /\ \A k \in Keys : \/ inFlight'[k] = inFlight[k]
                         \/ inFlight'[k] \in S /\ KeyOf[inFlight'[k]] = k
      /\ \A k \in Keys : inFlight[k] # None => inFlight'[k] = inFlight[k]
      /\ \A c \in S : inFlight'[KeyOf[c]] = c
      /\ \A r \in missing : joined'[r] \in Live \cup S /\ KeyOf[joined'[r]] = KeyOf[r]
      /\ \A c \in S : joined'[c] = c
      /\ \A r \in Members \ missing : joined'[r] = joined[r]
      /\ \A o \in Members :
           waiters'[o] = Cardinality({r \in Members : joined'[r] = o /\ answer[r] = "none"})
  BY <1>4, <1>6, <1>7, ShareEffect
<1>10. /\ Tracked' \subseteq Tracked \cup S
       /\ \A m \in Members : outcome[m] # "none" => outcome'[m] # "none"
       /\ \A h \in Groups : state'[h] = "collecting" => state[h] = "collecting" /\ h # g
  BY <1>4, <1>6, SubmitTracks DEF RInv
<1>11. /\ started' = [r \in Members |-> IF r \in S THEN generation' ELSE started[r]]
       /\ origin' = [r \in Members |-> IF r \in S THEN deployment ELSE origin[r]]
  BY <1>4 DEF Share
<1>12. /\ deployment \in Deployments /\ deployment # None
       /\ known' \in Deployments \cup {None}
       /\ generation' \in Nat
       /\ cache' \in [Keys -> Members \cup {None}]
       /\ generation <= generation'
       /\ generation' = generation => known' = known
       /\ missing # {} => known' = deployment
       /\ \A k \in Keys : cache'[k] # None => cache'[k] = cache[k] /\ known' = known
  BY <1>4 DEF Synchronize, RInv, RuntimeTypeOK
<1>13. \A o \in Live \cup abandoned \cup resolved \cup settled : o \notin S /\ o \in Members
  BY <1>6, <1>7 DEF RInv, OperationsOK, RuntimeTypeOK, Live
<1>14. \A p \in Members : /\ p \in S => origin'[p] = deployment
                          /\ p \notin S => origin'[p] = origin[p]
  BY <1>11
<1> HIDE DEF S, accepted
<1>15. RuntimeTypeOK'
  <2>1. started' \in [Members -> Nat] /\ origin' \in [Members -> Deployments \cup {None}]
    BY <1>11, <1>12 DEF RInv, RuntimeTypeOK
  <2>2. deployment' \in Deployments
        /\ abandoned' \in SUBSET Members /\ resolved' \in SUBSET Members
        /\ settled' \in SUBSET Members
    BY <1>5 DEF RInv, RuntimeTypeOK
  <2> QED BY <1>8, <1>9, <1>12, <2>1, <2>2 DEF RuntimeTypeOK
<1>16. CurrencyOK'
  <2>1. \A o \in Members : started'[o] <= generation'
    <3> SUFFICES ASSUME NEW o \in Members PROVE started'[o] <= generation'
      OBVIOUS
    <3>1. started[o] \in Nat /\ generation \in Nat /\ started[o] <= generation
      BY DEF RInv, RuntimeTypeOK, CurrencyOK
    <3> QED BY <1>11, <1>12, <3>1
  <2>2. ASSUME NEW o \in Members, origin'[o] # None, started'[o] = generation'
        PROVE  origin'[o] = known'
    <3>1. CASE o \in S
      BY <1>6, <1>12, <1>14, <3>1
    <3>2. CASE o \notin S
      <4>1. origin[o] # None /\ origin'[o] = origin[o] /\ started[o] = generation'
        BY <1>11, <1>14, <2>2, <3>2
      <4>2. started[o] \in Nat /\ generation \in Nat /\ started[o] <= generation
        BY DEF RInv, RuntimeTypeOK, CurrencyOK
      <4>3. generation' = generation
        BY <1>12, <4>1, <4>2
      <4> QED BY <1>12, <4>1, <4>3 DEF RInv, CurrencyOK
    <3> QED BY <3>1, <3>2
  <2>3. ASSUME NEW k \in Keys, cache'[k] # None
        PROVE  origin'[cache'[k]] = known'
    <3>1. cache[k] = cache'[k] /\ known' = known /\ origin[cache[k]] = known
      BY <1>12, <2>3 DEF RInv, CurrencyOK
    <3>2. cache[k] \in Members
      BY <2>3, <3>1 DEF RInv, RuntimeTypeOK
    <3>3. CASE cache[k] \in S
      <4>1. origin'[cache[k]] = deployment /\ known' = deployment
        BY <1>6, <1>12, <1>14, <3>2, <3>3
      <4> QED BY <3>1, <4>1
    <3>4. CASE cache[k] \notin S
      <4>1. origin'[cache[k]] = origin[cache[k]]
        BY <1>14, <3>2, <3>4
      <4> QED BY <3>1, <4>1
    <3> QED BY <3>3, <3>4
  <2> QED BY <2>1, <2>2, <2>3 DEF CurrencyOK
<1>17. OperationsOK'
  <2>1. ASSUME NEW r \in Members, state'[GroupOf[r]] = "collecting"
        PROVE  origin'[r] = None /\ joined'[r] = None /\ answer'[r] = "none"
    <3>1. GroupOf[r] \in Groups
      OBVIOUS
    <3>2. state[GroupOf[r]] = "collecting" /\ GroupOf[r] # g
      BY <1>10, <2>1, <3>1
    <3>3. r \notin MembersOf(g) /\ r \notin missing /\ r \notin S
      BY <1>6, <3>2
    <3>4. origin[r] = None /\ joined[r] = None /\ answer[r] = "none"
      BY <3>2 DEF RInv, OperationsOK
    <3> QED BY <1>8, <1>9, <1>14, <3>3, <3>4
  <2>2. \A o \in Tracked' \cup abandoned' \cup resolved' : origin'[o] # None
    <3> SUFFICES ASSUME NEW o \in Tracked \cup abandoned \cup resolved \cup S
                 PROVE  origin'[o] # None
      BY <1>5, <1>10
    <3>1. o \in Members
      BY <1>6, <1>13 DEF Tracked
    <3>2. CASE o \in S
      BY <1>12, <1>14, <3>1, <3>2
    <3>3. CASE o \notin S
      <4>1. origin[o] # None
        BY <3>3 DEF RInv, OperationsOK
      <4> QED BY <1>14, <3>1, <3>3, <4>1
    <3> QED BY <3>2, <3>3
  <2>3. \A o \in resolved' : outcome'[o] # "none"
    BY <1>5, <1>10, <1>13 DEF RInv, OperationsOK
  <2>4. settled' \subseteq resolved'
    BY <1>5 DEF RInv, OperationsOK
  <2>5. \A k \in Keys : inFlight'[k] # None => KeyOf[inFlight'[k]] = k
    BY <1>9 DEF RInv, OperationsOK
  <2>6. ASSUME NEW r \in Members, joined'[r] # None
        PROVE  KeyOf[joined'[r]] = KeyOf[r] /\ origin'[joined'[r]] # None
    <3>1. CASE r \in missing
      <4>1. KeyOf[joined'[r]] = KeyOf[r] /\ joined'[r] \in Live \cup S
        BY <1>9, <3>1
      <4>2. CASE joined'[r] \in S
        BY <1>6, <1>12, <1>14, <4>1, <4>2
      <4>3. CASE joined'[r] \in Live
        <5>1. joined'[r] \in Members /\ joined'[r] \notin S /\ origin[joined'[r]] # None
          BY <1>13, <4>3 DEF Live
        <5> QED BY <1>14, <4>1, <5>1
      <4> QED BY <4>1, <4>2, <4>3
    <3>2. CASE r \notin missing
      <4>1. joined'[r] = joined[r] /\ joined[r] \in Members
        BY <1>9, <2>6, <3>2 DEF RInv, RuntimeTypeOK
      <4>2. KeyOf[joined[r]] = KeyOf[r] /\ origin[joined[r]] # None
        BY <2>6, <4>1 DEF RInv, OperationsOK
      <4>3. joined[r] \notin S
        BY <1>6, <1>7, <4>2
      <4> QED BY <1>14, <4>1, <4>2, <4>3
    <3> QED BY <3>1, <3>2
  <2> QED BY <2>1, <2>2, <2>3, <2>4, <2>5, <2>6 DEF OperationsOK
<1>18. \A o \in Members :
         WaitersOf(o)' = {r \in Members : joined'[r] = o /\ answer[r] = "none"}
  <2> SUFFICES ASSUME NEW o \in Members, NEW r \in Members
               PROVE  (joined'[r] = o /\ answer'[r] = "none")
                        <=> (joined'[r] = o /\ answer[r] = "none")
    BY DEF WaitersOf
  <2>1. CASE r \in missing \/ r \notin MembersOf(g)
    BY <1>8, <2>1
  <2>2. CASE r \in MembersOf(g) \ missing
    <3>1. joined'[r] = None
      BY <1>7, <1>9, <2>2
    <3> QED BY <3>1
  <2> QED BY <2>1, <2>2
<1>19. SharedWorkSurvives'
  <2>1. \A o \in Members : waiters'[o] = Cardinality(WaitersOf(o)')
    BY <1>9, <1>18
  <2>2. ASSUME NEW o \in abandoned
        PROVE  WaitersOf(o)' = {} /\ inFlight'[KeyOf[o]] # o
    <3>1. o \in Members /\ o \notin S /\ o \notin Live
      BY <1>13 DEF Live
    <3>2. WaitersOf(o) = {} /\ inFlight[KeyOf[o]] # o
      BY DEF RInv, SharedWorkSurvives
    <3>3. inFlight'[KeyOf[o]] # o
      <4>1. KeyOf[o] \in Keys
        BY <3>1
      <4> QED BY <1>9, <3>1, <3>2, <4>1
    <3>4. \A r \in Members : ~ (joined'[r] = o /\ answer[r] = "none")
      <4>1. \A r \in missing : joined'[r] # o
        BY <1>9, <3>1
      <4>2. \A r \in Members \ missing : ~ (joined'[r] = o /\ answer[r] = "none")
        BY <1>9, <3>2 DEF WaitersOf
      <4> QED BY <4>1, <4>2
    <3> QED BY <1>18, <3>1, <3>3, <3>4
  <2> QED BY <1>5, <2>1, <2>2 DEF SharedWorkSurvives
<1>20. OneLiveOperation'
  <2>1. Live' = Live \cup S
    <3>1. \A p \in Members : p \in Live' <=> origin'[p] # None /\ p \notin settled \cup abandoned
      BY <1>5 DEF Live
    <3>2. \A p \in S : p \in Members /\ p \in Live'
      BY <1>6, <1>12, <1>13, <1>14, <3>1
    <3>3. \A p \in Members \ S : p \in Live' <=> p \in Live
      BY <1>14, <3>1 DEF Live
    <3>4. Live \subseteq Members /\ Live' \subseteq Members
      BY DEF Live
    <3> QED BY <3>2, <3>3, <3>4
  <2>2. ASSUME NEW o \in Members
        PROVE  o \in Live \cup S <=> inFlight'[KeyOf[o]] = o
    <3>1. KeyOf[o] \in Keys /\ o # None
      OBVIOUS
    <3>2. o \in Live <=> inFlight[KeyOf[o]] = o
      BY DEF RInv, OneLiveOperation
    <3>3. o \in Live => inFlight'[KeyOf[o]] = o
      BY <1>9, <3>1, <3>2
    <3> QED BY <1>9, <3>1, <3>2, <3>3
  <2>3. ASSUME NEW o \in Live \cup S
        PROVE  waiters'[o] > 0
    <3>1. o \in Members
      BY <1>6, <1>13
    <3> DEFINE W == {r \in Members : joined'[r] = o /\ answer[r] = "none"}
    <3>2. waiters'[o] = Cardinality(W) /\ waiters'[o] \in Nat
      BY <1>9, <3>1
    <3>3. W # {}
      <4>1. CASE o \in S
        BY <1>6, <1>7, <1>9, <4>1
      <4>2. CASE o \in Live
        <5>1. waiters[o] > 0 /\ waiters[o] = Cardinality(WaitersOf(o))
          BY <3>1, <4>2 DEF RInv, OneLiveOperation, SharedWorkSurvives
        <5>2. WaitersOf(o) # {}
          <6>1. Cardinality({}) = 0
            BY FS_EmptySet
          <6> QED BY <5>1, <6>1
        <5>3. PICK r \in Members : joined[r] = o /\ answer[r] = "none"
          BY <5>2 DEF WaitersOf
        <5>4. r \notin missing
          BY <1>6, <1>7, <3>1, <5>3
        <5> QED BY <1>9, <5>3, <5>4
      <4> QED BY <4>1, <4>2
    <3>4. IsFiniteSet(W)
      <4>1. W \in SUBSET Members
        OBVIOUS
      <4> QED BY <4>1, SubsetsFinite
    <3> HIDE DEF W
    <3>5. Cardinality(W) # 0
      BY <3>3, <3>4, FS_EmptySet
    <3> QED BY <3>2, <3>5
  <2> QED BY <2>1, <2>2, <2>3 DEF OneLiveOperation
<1> QED BY <1>15, <1>16, <1>17, <1>19, <1>20 DEF RInv

(* Nothing is known, in flight or waited for at the start.                 *)
LEMMA InitRInv == RuntimeInit => RInv
<1> SUFFICES ASSUME RuntimeInit PROVE RInv
  OBVIOUS
<1>1. IInv
  BY BeginsAsCoordinator, InitIInv
<1>2. RuntimeTypeOK /\ CurrencyOK
  BY DEF RuntimeInit, RuntimeTypeOK, CurrencyOK, Answers, Outcomes
<1>3. OperationsOK
  <2>1. Tracked = {}
    <3>1. /\ worker = {} /\ memberQueue = <<>>
          /\ \A m \in Members : m \notin roster[GroupOf[m]] /\ outcome[m] = "none"
      BY DEF RuntimeInit, Init
    <3>2. ToSet(memberQueue) = {}
      BY <3>1 DEF ToSet
    <3> QED BY <3>1, <3>2 DEF Tracked
  <2> QED BY <2>1 DEF RuntimeInit, OperationsOK
<1>4. SharedWorkSurvives
  <2>1. \A o \in Members : WaitersOf(o) = {}
    BY DEF RuntimeInit, WaitersOf
  <2>2. Cardinality({}) = 0
    BY FS_EmptySet
  <2> QED BY <2>1, <2>2 DEF RuntimeInit, SharedWorkSurvives
<1>5. OneLiveOperation
  BY DEF RuntimeInit, OneLiveOperation, Live
<1> QED BY <1>1, <1>2, <1>3, <1>4, <1>5 DEF RInv

(* Every step keeps the invariant.                                         *)
LEMMA NextKeepsRInv == RInv /\ [RuntimeNext]_runtimeVars => RInv'
<1> SUFFICES ASSUME RInv, [RuntimeNext]_runtimeVars PROVE RInv'
  OBVIOUS
<1>0. IInv /\ IInv'
  BY CoordinatorInvariantKept DEF RInv
<1>1. CASE \E g \in Groups : Call(g)
  BY <1>0, <1>1, CallKeepsRInv
<1>2. CASE \E g \in Groups : TimeoutOf(g)
  BY <1>0, <1>2, QueueTimeoutTracks, CoordinatorAloneKeepsRInv DEF TimeoutOf
<1>3. CASE \E r \in Members : Leave(r)
  BY <1>0, <1>3, LeaveKeepsRInv
<1>4. CASE \E r \in Members : Resolve(r)
  BY <1>0, <1>4, ResolveKeepsRInv
<1>5. CASE \E r \in Members : Finish(r)
  BY <1>0, <1>5, FinishKeepsRInv
<1>6. CASE \E r \in Members : Deliver(r)
  BY <1>0, <1>6, DeliverKeepsRInv
<1>7. CASE \E r \in Members : ExecutionTimeoutOf(r) \/ SettleOf(r)
  BY <1>0, <1>7, AtWorkTracks, CoordinatorAloneKeepsRInv
     DEF ExecutionTimeoutOf, SettleOf
<1>8. CASE \E r \in Members : ReleaseOf(r)
  BY <1>0, <1>8, ReleaseTracks, CoordinatorAloneKeepsRInv DEF ReleaseOf
<1>9. CASE Deploy
  BY <1>0, <1>9, DeployKeepsRInv
<1>10. CASE UNCHANGED runtimeVars
  BY <1>0, <1>10, IdleTracks, CoordinatorAloneKeepsRInv DEF runtimeVars
<1> QED BY <1>1, <1>2, <1>3, <1>4, <1>5, <1>6, <1>7, <1>8, <1>9, <1>10
        DEF RuntimeNext

-----------------------------------------------------------------------------
(* The inductive invariant holds in every state of the composed system.    *)
THEOREM RuntimeInductive == RuntimeSpec => []RInv
BY InitRInv, NextKeepsRInv, PTL DEF RuntimeSpec

(* The bounded runtime calls the coordinator only as the coordinator's own *)
(* specification allows, so everything proved of it holds here too.        *)
THEOREM RuntimeUsesCoordinator == RuntimeSpec => UsesCoordinator
<1>1. RuntimeInit => Init
  BY BeginsAsCoordinator
<1>2. RInv /\ [RuntimeNext]_runtimeVars => [Next]_vars
  BY StepsAsCoordinator
<1> QED BY <1>1, <1>2, RuntimeInductive, PTL DEF RuntimeSpec, UsesCoordinator, Spec

(* shared.waiters counts who waits, and an analysis is given up only when  *)
(* nobody does.                                                            *)
THEOREM SharedWorkIsShared == RuntimeSpec => []SharedWorkSurvives
<1>1. RInv => SharedWorkSurvives
  BY DEF RInv
<1> QED BY <1>1, RuntimeInductive, PTL

(* There is one live operation of a key, it is the one the map of analyses *)
(* names, and somebody waits for it.                                       *)
THEOREM IdenticalRequestsShare == RuntimeSpec => []OneLiveOperation
<1>1. RInv => OneLiveOperation
  BY DEF RInv
<1> QED BY <1>1, RuntimeInductive, PTL

(* A hit is a hit of the deployment that is active when it is taken.       *)
LEMMA StepHitsAreCurrent ==
  RInv /\ [RuntimeNext]_runtimeVars =>
    [\A r \in Members : answer[r] = "none" /\ answer'[r] = "hit"
       => origin[cache'[KeyOf[r]]] = deployment]_runtimeVars
<1> SUFFICES ASSUME RInv, RuntimeNext, NEW r \in Members,
                    answer[r] = "none", answer'[r] = "hit"
             PROVE  origin[cache'[KeyOf[r]]] = deployment
  OBVIOUS
<1>1. PICK g \in Groups : Call(g)
  <2>1. outcome \in [Members -> Outcomes] /\ answer \in [Members -> Answers]
    BY DEF RInv, RuntimeTypeOK, IInv, TypeOK
  <2>2. ASSUME NEW x \in Members, Leave(x) PROVE FALSE
    BY <2>1, <2>2 DEF Leave
  <2>3. ASSUME NEW x \in Members, Deliver(x) PROVE FALSE
    <3>1. joined[x] \in Members
      BY <2>3 DEF Deliver, RInv, RuntimeTypeOK
    <3>2. outcome[joined[x]] # "hit"
      BY <2>1, <3>1 DEF Outcomes, Rejections
    <3> QED BY <2>1, <2>3, <3>2 DEF Deliver
  <2>4. answer' # answer
    BY <2>1
  <2>5. ASSUME NEW x \in Members,
               Resolve(x) \/ Finish(x) \/ ExecutionTimeoutOf(x) \/ SettleOf(x) \/ ReleaseOf(x)
        PROVE  FALSE
    BY <2>4, <2>5 DEF Resolve, Finish, ExecutionTimeoutOf, SettleOf, ReleaseOf,
                      sharingVars, requestVars
  <2>6. ~ Deploy /\ \A x \in Groups : ~ TimeoutOf(x)
    BY <2>4 DEF Deploy, TimeoutOf, sharingVars, requestVars
  <2> QED BY <2>2, <2>3, <2>5, <2>6 DEF RuntimeNext
<1>2. PICK refused \in SUBSET MembersOf(g) :
        LET accepted == MembersOf(g) \ refused
        IN  /\ IF accepted = {} THEN UNCHANGED <<known, generation, cache>>
                                ELSE Synchronize
            /\ answer' = [x \in Members |->
                 IF x \in refused THEN "refused"
                 ELSE IF x \in Bypassed(accepted) THEN "bypass"
                 ELSE IF x \in Hits(accepted) THEN "hit"
                 ELSE answer[x]]
  BY <1>1 DEF Call
<1>3. r \in Hits(MembersOf(g) \ refused)
  BY <1>2
<1>4. Synchronize /\ cache'[KeyOf[r]] # None
  BY <1>2, <1>3 DEF Hits
<1>5. deployment = known /\ cache' = cache
  BY <1>4 DEF Synchronize
<1> QED BY <1>4, <1>5 DEF RInv, CurrencyOK

THEOREM CacheAnswersForTheActiveDeployment == RuntimeSpec => HitsAreCurrent
BY RuntimeInductive, StepHitsAreCurrent, PTL DEF RuntimeSpec, HitsAreCurrent
=============================================================================
