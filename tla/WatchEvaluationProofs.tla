------------------------ MODULE WatchEvaluationProofs ------------------------
(***************************************************************************)
(* Proofs about the evaluation of watches.  While every lease outlives the *)
(* work done under it, the batches of the evaluators are disjoint.  With   *)
(* or without that, evaluators that run at once, die and retry leave the   *)
(* events and evaluations of one that never fails, as long as no package   *)
(* is activated under them; and what that one leaves is one alert per      *)
(* watch and package, and revisions that name the alert they revise.  For  *)
(* any number of evaluators, watches, packages, deaths and lost leases.    *)
(***************************************************************************)
EXTENDS WatchEvaluation, TLAPS

(* What the leases and the runs are made of.                               *)
RunOK(r) ==
    /\ r = [package |-> r.package, claims |-> r.claims, at |-> r.at]
    /\ r.package \in Packages
    /\ r.claims \in Seq(ToSet(r.claims))
    /\ \A i \in DOMAIN r.claims : r.claims[i].watch \in Watches

EvaluationTypeOK ==
    /\ activation \in DOMAIN Schedule
    /\ lease = [w \in Watches |-> lease[w]]
    /\ \A w \in Watches : lease[w] = [p \in Packages |-> lease[w][p]]
    /\ \A w \in Watches, p \in Packages :
         lease[w][p] = [id |-> lease[w][p].id, live |-> lease[w][p].live]
    /\ run = [e \in Evaluators |-> run[e]]
    /\ \A e \in Evaluators : ~Idle(e) => RunOK(run[e])
    /\ outlived \in Nat

(* The claims of a batch are of different watches.                         *)
OneClaimPerWatch ==
    \A e \in Evaluators : ~Idle(e) =>
      \A i, j \in DOMAIN run[e].claims :
        run[e].claims[i].watch = run[e].claims[j].watch => i = j

(* A claim holds its lease.                                                *)
ClaimsAreLive ==
    outlived = 0 =>
      \A e \in Evaluators : ~Idle(e) =>
        \A i \in DOMAIN run[e].claims :
          LET c == run[e].claims[i]
              l == lease[c.watch][run[e].package]
          IN l.live /\ l.id = c.lease

(* The inductive invariant.                                                *)
EInv ==
    /\ EvaluationTypeOK
    /\ OneClaimPerWatch
    /\ ClaimsAreLive
    /\ DisjointBatches

-----------------------------------------------------------------------------

LEMMA ActiveIsPackage == ASSUME EInv PROVE Active \in Packages
<1>1. activation \in DOMAIN Schedule
  BY DEF EInv, EvaluationTypeOK
<1> QED BY <1>1, WatchAlertAssumption DEF Active

(* What a claim of a batch says of its lease.                              *)
LEMMA ClaimIsLive ==
    ASSUME ClaimsAreLive, outlived = 0,
           NEW e \in Evaluators, ~Idle(e), NEW i \in DOMAIN run[e].claims
    PROVE  /\ lease[run[e].claims[i].watch][run[e].package].live
           /\ lease[run[e].claims[i].watch][run[e].package].id = run[e].claims[i].lease
BY DEF ClaimsAreLive

(* Steps that leave the leases alone and claim nothing.                    *)
LEMMA RunsKeepEInv ==
    ASSUME EInv, activation' \in DOMAIN Schedule, UNCHANGED <<lease, outlived>>,
           run' = [e \in Evaluators |-> run'[e]],
           \A e \in Evaluators : ~Idle(e)' =>
             /\ RunOK(run'[e])
             /\ \/ run'[e].claims = <<>>
                \/ /\ ~Idle(e) /\ run'[e].claims = run[e].claims
                   /\ run'[e].package = run[e].package
    PROVE  EInv'
<1>1. EvaluationTypeOK'
  BY DEF EInv, EvaluationTypeOK
<1>2. \A e \in Evaluators : ~Idle(e)' => \A i \in DOMAIN run'[e].claims :
        /\ ~Idle(e) /\ run'[e].claims = run[e].claims
        /\ run'[e].package = run[e].package
  OBVIOUS
<1>3. OneClaimPerWatch'
  BY <1>2 DEF EInv, OneClaimPerWatch
<1>4. ClaimsAreLive'
  <2> SUFFICES ASSUME outlived = 0, NEW e \in Evaluators, ~Idle(e)',
                      NEW i \in DOMAIN run'[e].claims
               PROVE  LET d == run'[e].claims[i]
                          l == lease[d.watch][run'[e].package]
                      IN l.live /\ l.id = d.lease
    BY DEF ClaimsAreLive
  <2>1. ~Idle(e) /\ run'[e].claims = run[e].claims /\ run'[e].package = run[e].package
    BY <1>2
  <2>2. /\ lease[run[e].claims[i].watch][run[e].package].live
        /\ lease[run[e].claims[i].watch][run[e].package].id = run[e].claims[i].lease
    BY <2>1, ClaimIsLive DEF EInv
  <2> QED BY <2>1, <2>2
<1>5. DisjointBatches'
  <2> SUFFICES ASSUME outlived = 0,
                      NEW e \in Evaluators, NEW f \in Evaluators, e # f,
                      ~Idle(e)', ~Idle(f)',
                      NEW i \in DOMAIN run'[e].claims, NEW j \in DOMAIN run'[f].claims
               PROVE  ~(/\ run'[e].claims[i].watch = run'[f].claims[j].watch
                        /\ run'[e].package = run'[f].package)
    BY DEF DisjointBatches, ToSet
  <2> QED BY <1>2 DEF EInv, DisjointBatches, ToSet
<1> QED BY <1>1, <1>3, <1>4, <1>5 DEF EInv

LEMMA StartKeepsEInv ==
    ASSUME EInv, NEW e \in Evaluators, Start(e)
    PROVE  EInv'
<1> DEFINE r == [package |-> Active, claims |-> <<>>, at |-> "evaluate"]
<1>1. run' = [run EXCEPT ![e] = r] /\ UNCHANGED <<activation, lease, outlived>>
  BY DEF Start, logVars
<1>2. RunOK(r) /\ r.claims = <<>>
  BY ActiveIsPackage DEF RunOK
<1> HIDE DEF r
<1>3. ASSUME NEW f \in Evaluators, ~Idle(f)'
      PROVE  /\ RunOK(run'[f])
             /\ \/ run'[f].claims = <<>>
                \/ /\ ~Idle(f) /\ run'[f].claims = run[f].claims
                   /\ run'[f].package = run[f].package
  BY <1>1, <1>2, <1>3 DEF EInv, EvaluationTypeOK, Idle
<1>4. activation' \in DOMAIN Schedule /\ run' = [f \in Evaluators |-> run'[f]]
  BY <1>1 DEF EInv, EvaluationTypeOK
<1> QED BY <1>1, <1>3, <1>4, RunsKeepEInv

(* A step of an evaluator within a claim.                                  *)
LEMMA WithinAClaim ==
    ASSUME EInv, NEW e \in Evaluators, ~Idle(e), NEW at,
           run' = [run EXCEPT ![e].at = at], UNCHANGED <<activation, lease, outlived>>
    PROVE  EInv'
<1> DEFINE r == run[e]
           n == [r EXCEPT !.at = at]
<1>1. run' = [run EXCEPT ![e] = n]
  BY DEF EInv, EvaluationTypeOK
<1>2. RunOK(r)
  BY DEF EInv, EvaluationTypeOK
<1> HIDE DEF r
<1>3. /\ n.package = r.package /\ n.claims = r.claims
      /\ n = [package |-> r.package, claims |-> r.claims, at |-> at]
  BY <1>2 DEF RunOK
<1> HIDE DEF n
<1>4. RunOK(n)
  BY <1>2, <1>3 DEF RunOK
<1>5. ASSUME NEW f \in Evaluators, ~Idle(f)'
      PROVE  /\ RunOK(run'[f]) /\ ~Idle(f) /\ run'[f].claims = run[f].claims
             /\ run'[f].package = run[f].package
  <2>1. CASE f = e
    BY <1>1, <1>3, <1>4, <2>1 DEF r, EInv, EvaluationTypeOK
  <2>2. CASE f # e
    BY <1>1, <1>5, <2>2 DEF EInv, EvaluationTypeOK, Idle
  <2> QED BY <2>1, <2>2
<1>6. activation' \in DOMAIN Schedule /\ run' = [f \in Evaluators |-> run'[f]]
  BY <1>1 DEF EInv, EvaluationTypeOK
<1> QED BY <1>5, <1>6, RunsKeepEInv

LEMMA DieKeepsEInv ==
    ASSUME EInv, NEW e \in Evaluators, Die(e)
    PROVE  EInv'
<1>1. run' = [run EXCEPT ![e] = Null] /\ UNCHANGED <<activation, lease, outlived>>
  BY DEF Die, logVars
<1>2. ASSUME NEW f \in Evaluators, ~Idle(f)'
      PROVE  RunOK(run'[f]) /\ ~Idle(f) /\ run'[f] = run[f]
  BY <1>1, <1>2 DEF EInv, EvaluationTypeOK, Idle
<1>3. activation' \in DOMAIN Schedule /\ run' = [f \in Evaluators |-> run'[f]]
  BY <1>1 DEF EInv, EvaluationTypeOK
<1> QED BY <1>1, <1>2, <1>3, RunsKeepEInv

(* Steps outside the evaluators.                                           *)
LEMMA AroundKeepsEInv ==
    ASSUME EInv, activation' \in DOMAIN Schedule, UNCHANGED <<lease, run, outlived>>
    PROVE  EInv'
<1>1. \A e \in Evaluators : ~Idle(e)' => RunOK(run'[e]) /\ ~Idle(e) /\ run'[e] = run[e]
  BY DEF EInv, EvaluationTypeOK, Idle
<1>2. run' = [e \in Evaluators |-> run'[e]]
  BY DEF EInv, EvaluationTypeOK
<1> QED BY <1>1, <1>2, RunsKeepEInv

(* A lease that no claim holds may go or expire.                           *)
LEMMA LeaseGone ==
    ASSUME EInv, NEW w \in Watches, NEW p \in Packages, NEW l,
           l = [id |-> l.id, live |-> l.live], lease' = [lease EXCEPT ![w][p] = l],
           activation' \in DOMAIN Schedule, UNCHANGED run, outlived' \in Nat,
           outlived' = 0 =>
             /\ outlived = 0
             /\ \A e \in Evaluators : ~Idle(e) /\ run[e].package = p =>
                  \A i \in DOMAIN run[e].claims : run[e].claims[i].watch # w
    PROVE  EInv'
<1>1. \A v \in Watches, q \in Packages :
        lease'[v][q] = IF v = w /\ q = p THEN l ELSE lease[v][q]
  BY DEF EInv, EvaluationTypeOK
<1>2. /\ lease' = [v \in Watches |-> lease'[v]]
      /\ \A v \in Watches : lease'[v] = [q \in Packages |-> lease'[v][q]]
  BY DEF EInv, EvaluationTypeOK
<1>3. \A v \in Watches, q \in Packages :
         lease'[v][q] = [id |-> lease'[v][q].id, live |-> lease'[v][q].live]
  BY <1>1 DEF EInv, EvaluationTypeOK
<1>4. EvaluationTypeOK'
  BY <1>2, <1>3 DEF EInv, EvaluationTypeOK, Idle
<1>5. ClaimsAreLive'
  <2> SUFFICES ASSUME outlived' = 0, NEW e \in Evaluators, ~Idle(e),
                      NEW i \in DOMAIN run[e].claims
               PROVE  LET c == run[e].claims[i]
                          n == lease'[c.watch][run[e].package]
                      IN n.live /\ n.id = c.lease
    BY DEF ClaimsAreLive, Idle
  <2>1. run[e].claims[i].watch \in Watches /\ run[e].package \in Packages
    BY DEF EInv, EvaluationTypeOK, RunOK
  <2>2. ~(run[e].claims[i].watch = w /\ run[e].package = p)
    OBVIOUS
  <2>3. lease'[run[e].claims[i].watch][run[e].package]
          = lease[run[e].claims[i].watch][run[e].package]
    BY <1>1, <2>1, <2>2
  <2> QED BY <2>3 DEF EInv, ClaimsAreLive
<1>6. OneClaimPerWatch' /\ DisjointBatches'
  BY DEF EInv, OneClaimPerWatch, DisjointBatches, Idle
<1> QED BY <1>4, <1>5, <1>6 DEF EInv

LEMMA ExpiryKeepsEInv ==
    ASSUME EInv, NEW w \in Watches, NEW p \in Packages, Expire(w, p) \/ Outlive(w, p)
    PROVE  EInv'
<1> DEFINE l == lease[w][p]
           n == [l EXCEPT !.live = FALSE]
<1>1. l = [id |-> l.id, live |-> l.live]
  BY DEF EInv, EvaluationTypeOK
<1>2. /\ lease' = [lease EXCEPT ![w][p].live = FALSE] /\ UNCHANGED <<activation, run>>
      /\ \/ UNCHANGED outlived /\ ~Held(w, p)
         \/ outlived' = outlived + 1
  BY DEF Expire, Outlive, logVars
<1>3. lease' = [lease EXCEPT ![w][p] = n]
  BY <1>2 DEF EInv, EvaluationTypeOK
<1>4. outlived \in Nat /\ activation' \in DOMAIN Schedule
  BY <1>2 DEF EInv, EvaluationTypeOK
<1>5. ASSUME outlived' = 0
      PROVE  /\ outlived = 0
             /\ \A e \in Evaluators : ~Idle(e) /\ run[e].package = p =>
                  \A i \in DOMAIN run[e].claims : run[e].claims[i].watch # w
  <2>1. outlived = 0 /\ ~Held(w, p)
    BY <1>2, <1>4, <1>5
  <2>2. ASSUME NEW e \in Evaluators, ~Idle(e), run[e].package = p,
               NEW i \in DOMAIN run[e].claims, run[e].claims[i].watch = w
        PROVE  FALSE
    <3>1. run[e].claims[i].lease = lease[w][p].id
      BY <2>1, <2>2 DEF EInv, ClaimsAreLive
    <3> QED BY <2>1, <2>2, <3>1 DEF Held, ToSet
  <2> QED BY <2>1, <2>2
<1>6. n = [id |-> n.id, live |-> n.live]
  <2> HIDE DEF l
  <2>1. DOMAIN n = {"id", "live"} /\ n = [x \in DOMAIN n |-> n[x]]
    BY <1>1
  <2> HIDE DEF n
  <2> QED BY <2>1
<1>7. outlived' \in Nat
  BY <1>2, <1>4
<1>8. UNCHANGED run
  BY <1>2
<1> HIDE DEF n
<1> QED BY <1>3, <1>4, <1>5, <1>6, <1>7, <1>8, LeaseGone

(* The claims that are left when the first of them is completed.           *)
LEMMA TailOfClaims ==
    ASSUME NEW s, s \in Seq(ToSet(s)), s # <<>>
    PROVE  /\ Head(s) = s[1] /\ 1 \in DOMAIN s
           /\ Tail(s) \in Seq(ToSet(Tail(s)))
           /\ \A i \in DOMAIN Tail(s) :
                /\ i + 1 \in DOMAIN s /\ i + 1 # 1 /\ Tail(s)[i] = s[i + 1]
                /\ i \in Nat
<1> DEFINE t == Tail(s)
<1>1. t \in Seq(ToSet(s)) /\ Len(t) = Len(s) - 1 /\ Len(s) \in Nat /\ Len(s) # 0
  OBVIOUS
<1>2. \A i \in 1 .. Len(t) : t[i] = s[i + 1]
  BY <1>1
<1>3. DOMAIN s = 1 .. Len(s) /\ DOMAIN t = 1 .. Len(t)
  BY <1>1
<1>4. t \in Seq(ToSet(t))
  <2>1. \A i \in 1 .. Len(t) : t[i] \in ToSet(t)
    BY <1>3 DEF ToSet
  <2> DEFINE T == ToSet(s)
             U == ToSet(t)
  <2>2. t \in Seq(T) /\ \A i \in 1 .. Len(t) : t[i] \in U
    BY <1>1, <2>1
  <2> HIDE DEF T, t
  <2>3. Len(t) \in Nat /\ t = [i \in 1 .. Len(t) |-> t[i]]
    BY <2>2
  <2> HIDE DEF U
  <2>4. t \in Seq(U)
    BY <2>2, <2>3
  <2> QED BY <2>4 DEF U
<1> QED BY <1>1, <1>2, <1>3, <1>4

LEMMA FinishKeepsEInv ==
    ASSUME EInv, NEW e \in Evaluators, Finish(e)
    PROVE  EInv'
<1> DEFINE r == run[e]
           p == r.package
           c == Head(r.claims)
           t == Tail(r.claims)
           n == [package |-> p, claims |-> t, at |-> "evaluate"]
<1>1. /\ ~Idle(e) /\ r.claims # <<>> /\ UNCHANGED <<activation, outlived>>
      /\ run' = [run EXCEPT ![e].claims = t, ![e].at = "evaluate"]
      /\ lease' = lease \/ lease' = [lease EXCEPT ![c.watch][p] = NoLease]
  BY DEF Finish, Complete, ClaimOf
<1>2. RunOK(r)
  BY <1>1 DEF EInv, EvaluationTypeOK
<1>3. /\ c = r.claims[1] /\ 1 \in DOMAIN r.claims
      /\ t \in Seq(ToSet(t))
      /\ \A i \in DOMAIN t : /\ i + 1 \in DOMAIN r.claims /\ i + 1 # 1
                             /\ t[i] = r.claims[i + 1] /\ i \in Nat
  <2> HIDE DEF r
  <2> QED BY <1>1, <1>2, TailOfClaims DEF RunOK, r
<1>4. c.watch \in Watches /\ p \in Packages
  BY <1>2, <1>3 DEF RunOK
<1>5. run' = [run EXCEPT ![e] = n]
  <2>1. run' = [run EXCEPT ![e] = [[r EXCEPT !.claims = t] EXCEPT !.at = "evaluate"]]
    BY <1>1 DEF EInv, EvaluationTypeOK
  <2>2. [[r EXCEPT !.claims = t] EXCEPT !.at = "evaluate"] = n
    <3> HIDE DEF r, t
    <3> DEFINE u == [r EXCEPT !.claims = t]
    <3>1. r = [package |-> p, claims |-> r.claims, at |-> r.at]
      BY <1>2 DEF RunOK
    <3>2. u = [package |-> p, claims |-> t, at |-> r.at]
      BY <3>1
    <3> HIDE DEF u
    <3>3. [u EXCEPT !.at = "evaluate"] = n
      BY <3>2
    <3> QED BY <3>3 DEF u
  <2> QED BY <2>1, <2>2
<1>6. /\ run' = [f \in Evaluators |-> run'[f]] /\ run'[e] = n
      /\ \A f \in Evaluators \ {e} : run'[f] = run[f] /\ (~Idle(f)' => ~Idle(f))
  BY <1>5 DEF EInv, EvaluationTypeOK, Idle
<1>7. RunOK(n)
  <2> HIDE DEF t, r
  <2>1. n.package = p /\ n.claims = t /\ n.at = "evaluate"
    OBVIOUS
  <2>2. \A i \in DOMAIN t : t[i].watch \in Watches
    BY <1>2, <1>3 DEF RunOK
  <2> QED BY <1>3, <1>4, <2>1, <2>2 DEF RunOK
<1> DEFINE Kept(v, q) == ~(v = c.watch /\ q = p)
<1>8. \A v \in Watches, q \in Packages : Kept(v, q) => lease'[v][q] = lease[v][q]
  BY <1>1, <1>4 DEF EInv, EvaluationTypeOK
<1>9. /\ lease' = [v \in Watches |-> lease'[v]]
      /\ \A v \in Watches : lease'[v] = [q \in Packages |-> lease'[v][q]]
      /\ \A v \in Watches, q \in Packages :
           lease'[v][q] = [id |-> lease'[v][q].id, live |-> lease'[v][q].live]
  <2>1. CASE lease' = lease
    BY <2>1 DEF EInv, EvaluationTypeOK
  <2>2. CASE lease' = [lease EXCEPT ![c.watch][p] = NoLease]
    <3>0. lease = [v \in Watches |-> lease[v]]
          /\ \A v \in Watches : lease[v] = [q \in Packages |-> lease[v][q]]
      BY DEF EInv, EvaluationTypeOK
    <3>1. lease' = [v \in Watches |-> lease'[v]]
          /\ \A v \in Watches : lease'[v] = [q \in Packages |-> lease'[v][q]]
      BY <2>2, <3>0
    <3>2. lease'[c.watch][p] = NoLease
      BY <1>4, <2>2 DEF EInv, EvaluationTypeOK
    <3>3. NoLease = [id |-> NoLease.id, live |-> NoLease.live]
      BY DEF NoLease
    <3>4. ASSUME NEW v \in Watches, NEW q \in Packages
          PROVE  lease'[v][q] = [id |-> lease'[v][q].id, live |-> lease'[v][q].live]
      <4>1. CASE Kept(v, q)
        <5>1. lease[v][q] = [id |-> lease[v][q].id, live |-> lease[v][q].live]
          BY DEF EInv, EvaluationTypeOK
        <5>2. lease'[v][q] = lease[v][q]
          BY <1>8, <4>1
        <5> QED BY <5>1, <5>2
      <4>2. CASE ~Kept(v, q)
        <5>1. lease'[v][q] = NoLease
          BY <3>2, <4>2
        <5> QED BY <3>3, <5>1
      <4> QED BY <4>1, <4>2
    <3> QED BY <3>1, <3>4
  <2> QED BY <1>1, <2>1, <2>2
<1>10. EvaluationTypeOK'
  <2>1. \A f \in Evaluators : ~Idle(f)' => RunOK(run'[f])
    BY <1>6, <1>7 DEF EInv, EvaluationTypeOK
  <2>2. activation' \in DOMAIN Schedule /\ outlived' \in Nat
    BY <1>1 DEF EInv, EvaluationTypeOK
  <2> QED BY <1>6, <1>9, <2>1, <2>2 DEF EvaluationTypeOK
<1>11. n.claims = t /\ n.package = p
  OBVIOUS
<1> HIDE DEF n, t, c
<1>12. OneClaimPerWatch'
  <2> SUFFICES ASSUME NEW f \in Evaluators, ~Idle(f)',
                      NEW i \in DOMAIN run'[f].claims, NEW j \in DOMAIN run'[f].claims,
                      run'[f].claims[i].watch = run'[f].claims[j].watch
               PROVE  i = j
    BY DEF OneClaimPerWatch
  <2>1. CASE f = e
    <3>1. i \in DOMAIN t /\ j \in DOMAIN t /\ t[i].watch = t[j].watch
      BY <1>6, <1>11, <2>1
    <3>2. i + 1 = j + 1 /\ i \in Nat /\ j \in Nat
      BY <1>1, <1>3, <3>1 DEF EInv, OneClaimPerWatch
    <3> QED BY <3>2
  <2>2. CASE f # e
    BY <1>6, <2>2 DEF EInv, OneClaimPerWatch
  <2> QED BY <2>1, <2>2
<1>13. ClaimsAreLive'
  <2> SUFFICES ASSUME outlived = 0, NEW f \in Evaluators, ~Idle(f)',
                      NEW i \in DOMAIN run'[f].claims
               PROVE  LET d == run'[f].claims[i]
                          l == lease'[d.watch][run'[f].package]
                      IN l.live /\ l.id = d.lease
    BY <1>1 DEF ClaimsAreLive
  <2>1. CASE f = e
    <3>1. run'[f].claims = t /\ run'[f].package = p /\ i \in DOMAIN t
      BY <1>6, <1>11, <2>1
    <3>2. /\ i + 1 \in DOMAIN r.claims /\ i + 1 # 1 /\ t[i] = r.claims[i + 1]
      BY <1>3, <3>1
    <3>3. t[i].watch \in Watches /\ t[i].watch # c.watch
      BY <1>1, <1>2, <1>3, <3>2 DEF RunOK, EInv, OneClaimPerWatch
    <3>4. lease'[t[i].watch][p] = lease[t[i].watch][p]
      BY <1>4, <1>8, <3>3
    <3>5. lease[t[i].watch][p].live /\ lease[t[i].watch][p].id = t[i].lease
      <4>1. /\ lease[r.claims[i + 1].watch][r.package].live
            /\ lease[r.claims[i + 1].watch][r.package].id = r.claims[i + 1].lease
        BY <1>1, <3>2, ClaimIsLive DEF EInv
      <4> QED BY <3>2, <4>1
    <3> QED BY <3>1, <3>4, <3>5
  <2>2. CASE f # e
    <3>1. run'[f] = run[f] /\ ~Idle(f) /\ i \in DOMAIN run[f].claims
      BY <1>6, <2>2
    <3>2. run[f].claims[i].watch \in Watches /\ run[f].package \in Packages
      BY <3>1 DEF EInv, EvaluationTypeOK, RunOK
    <3>3. Kept(run[f].claims[i].watch, run[f].package)
      <4>1. c \in ToSet(r.claims) /\ run[f].claims[i] \in ToSet(run[f].claims)
        BY <1>3, <3>1 DEF ToSet
      <4> QED BY <1>1, <2>2, <3>1, <4>1 DEF EInv, DisjointBatches
    <3>4. lease'[run[f].claims[i].watch][run[f].package]
            = lease[run[f].claims[i].watch][run[f].package]
      BY <1>8, <3>2, <3>3
    <3>5. /\ lease[run[f].claims[i].watch][run[f].package].live
          /\ lease[run[f].claims[i].watch][run[f].package].id = run[f].claims[i].lease
      BY <3>1, ClaimIsLive DEF EInv
    <3> QED BY <3>1, <3>4, <3>5
  <2> QED BY <2>1, <2>2
<1>14. DisjointBatches'
  <2>1. \A f \in Evaluators : ~Idle(f)' =>
          /\ ~Idle(f) /\ run'[f].package = run[f].package
          /\ \A i \in DOMAIN run'[f].claims :
               \E k \in DOMAIN run[f].claims : run'[f].claims[i] = run[f].claims[k]
    <3> SUFFICES ASSUME NEW f \in Evaluators, ~Idle(f)'
                 PROVE  /\ ~Idle(f) /\ run'[f].package = run[f].package
                        /\ \A i \in DOMAIN run'[f].claims :
                             \E k \in DOMAIN run[f].claims :
                               run'[f].claims[i] = run[f].claims[k]
      OBVIOUS
    <3>1. CASE f = e
      <4>1. run'[f].claims = t /\ run'[f].package = p
        BY <1>6, <1>11, <3>1
      <4>2. \A i \in DOMAIN t : \E k \in DOMAIN r.claims : t[i] = r.claims[k]
        BY <1>3
      <4>3. ~Idle(f) /\ run[f].package = p /\ run[f].claims = r.claims
        BY <1>1, <3>1
      <4> HIDE DEF r
      <4> QED BY <4>1, <4>2, <4>3
    <3>2. CASE f # e
      BY <1>6, <3>2
    <3> QED BY <3>1, <3>2
  <2>2. \A f \in Evaluators : ~Idle(f)' =>
          /\ ~Idle(f) /\ run'[f].package = run[f].package
          /\ ToSet(run'[f].claims) \subseteq ToSet(run[f].claims)
    BY <2>1 DEF ToSet
  <2>3. SUFFICES ASSUME outlived = 0,
                      NEW f \in Evaluators, NEW g \in Evaluators, f # g,
                      ~Idle(f)', ~Idle(g)',
                      NEW x \in ToSet(run'[f].claims), NEW y \in ToSet(run'[g].claims)
               PROVE  ~(x.watch = y.watch /\ run'[f].package = run'[g].package)
    BY <1>1 DEF DisjointBatches, ToSet
  <2>4. x \in ToSet(run[f].claims) /\ y \in ToSet(run[g].claims)
    BY <2>2, <2>3
  <2> QED BY <2>2, <2>3, <2>4 DEF EInv, DisjointBatches
<1> QED BY <1>10, <1>12, <1>13, <1>14 DEF EInv

(* The next batch: of watches that no live lease keeps, each once.         *)
LEMMA BatchElements ==
    ASSUME NEW p
    PROVE  /\ Batch(p) \in Seq(Watches) /\ IsInjective(Batch(p))
           /\ \A i \in DOMAIN Batch(p) : Claimable(Batch(p)[i], p)
<1> DEFINE S == {w \in Watches : Claimable(w, p)}
<1>1. S \in SUBSET Nat /\ IsFiniteSet(S) /\ S \subseteq Watches
  BY WatchAlertAssumption, WatchEvaluationAssumption, FS_Subset
<1>2. Batch(p) = FirstOf(S, BatchSize)
  BY DEF Batch
<1>3. \A w \in S : Claimable(w, p)
  OBVIOUS
<1>4. BatchSize \in Nat
  BY WatchEvaluationAssumption
<1> DEFINE b == Batch(p)
<1> HIDE DEF S
<1>5. b \in Seq(S) /\ IsInjective(b)
  BY <1>1, <1>2, <1>4, FirstOfElements
<1> HIDE DEF b
<1>6. b \in Seq(Watches) /\ \A i \in DOMAIN b : b[i] \in S
  <2>1. Len(b) \in Nat /\ b = [i \in 1 .. Len(b) |-> b[i]] /\ DOMAIN b = 1 .. Len(b)
    BY <1>5
  <2>2. \A i \in DOMAIN b : b[i] \in S
    BY <1>5
  <2>3. \A i \in DOMAIN b : b[i] \in Watches
    BY <1>1, <2>2
  <2> QED BY <2>1, <2>2, <2>3
<1> QED BY <1>3, <1>5, <1>6 DEF b

LEMMA ClaimKeepsEInv ==
    ASSUME EInv, NEW e \in Evaluators, Claim(e)
    PROVE  EInv'
<1> DEFINE r == run[e]
           p == r.package
           b == Batch(p)
           id(i) == Nth(Leases \ InUse, i)
           prior(i) == evaluation[b[i]]
           s == [i \in DOMAIN b |-> [watch |-> b[i], lease |-> id(i), prior |-> prior(i)]]
           taken(w) == (CHOOSE c \in ToSet(s) : c.watch = w).lease
           new(w) == [id |-> taken(w), live |-> TRUE]
           n == [r EXCEPT !.claims = s]
<1>1. /\ ~Idle(e) /\ UNCHANGED <<activation, outlived>>
      /\ run' = [run EXCEPT ![e] = IF b = <<>> THEN Null ELSE n]
      /\ lease' = [w \in Watches |-> IF w \in ToSet(b) THEN [lease[w] EXCEPT ![p] = new(w)]
                                     ELSE lease[w]]
  BY DEF Claim, logVars
<1>2. RunOK(r) /\ p \in Packages
  BY <1>1 DEF EInv, EvaluationTypeOK, RunOK
<1>3. /\ b \in Seq(Watches) /\ \A i, j \in DOMAIN b : b[i] = b[j] => i = j
      /\ \A i \in DOMAIN b : Claimable(b[i], p)
  BY BatchElements DEF IsInjective
<1>4. \A i \in DOMAIN b : b[i] \in Watches /\ ~lease[b[i]][p].live
  BY <1>3 DEF Claimable
<1> HIDE DEF r, p, b, id, prior
<1>5. /\ DOMAIN s = DOMAIN b
      /\ \A i \in DOMAIN b : s[i] = [watch |-> b[i], lease |-> id(i), prior |-> prior(i)]
  OBVIOUS
<1>6. s \in Seq(ToSet(s))
  <2>1. \A i \in DOMAIN b : s[i] \in ToSet(s)
    BY <1>5 DEF ToSet
  <2>2. DOMAIN b = 1 .. Len(b) /\ Len(b) \in Nat
    BY <1>3
  <2>3. s = [i \in 1 .. Len(b) |-> s[i]]
    BY <1>5, <2>2
  <2> DEFINE S == ToSet(s)
  <2>4. \A i \in 1 .. Len(b) : s[i] \in S
    BY <2>1, <2>2
  <2> HIDE DEF s, S
  <2>5. s \in Seq(S)
    BY <2>2, <2>3, <2>4
  <2> QED BY <2>5 DEF S
<1>7. \A i \in DOMAIN b : s[i].watch = b[i]
  BY <1>5
<1> HIDE DEF s
<1>8. ASSUME NEW i \in DOMAIN b PROVE taken(b[i]) = s[i].lease
  <2>1. s[i] \in ToSet(s) /\ s[i].watch = b[i]
    BY <1>5, <1>7, <1>8 DEF ToSet
  <2>2. \A c \in ToSet(s) : c.watch = b[i] => c = s[i]
    BY <1>3, <1>5, <1>7, <1>8 DEF ToSet
  <2>3. (CHOOSE c \in ToSet(s) : c.watch = b[i]) = s[i]
    BY <2>1, <2>2
  <2> QED BY <2>3
<1> HIDE DEF taken
<1> DEFINE Taken(w, q) == w \in ToSet(b) /\ q = p
<1>9. /\ lease' = [w \in Watches |-> lease'[w]]
      /\ \A w \in Watches : lease'[w] = [q \in Packages |-> lease'[w][q]]
      /\ \A w \in Watches, q \in Packages :
           lease'[w][q] = IF Taken(w, q) THEN new(w) ELSE lease[w][q]
  BY <1>1, <1>2 DEF EInv, EvaluationTypeOK
<1>10. /\ n.package = p /\ n.claims = s
       /\ n = [package |-> p, claims |-> s, at |-> r.at]
  BY <1>2 DEF RunOK, p
<1> HIDE DEF n
<1>11. RunOK(n)
  <2>1. \A i \in DOMAIN s : s[i].watch \in Watches
    BY <1>4, <1>5, <1>7
  <2> QED BY <1>2, <1>6, <1>10, <2>1 DEF RunOK
<1>12. /\ run' = [f \in Evaluators |-> run'[f]]
       /\ ~Idle(e)' => run'[e] = n
       /\ \A f \in Evaluators \ {e} : run'[f] = run[f] /\ (~Idle(f)' => ~Idle(f))
  BY <1>1 DEF EInv, EvaluationTypeOK, Idle
<1>13. EvaluationTypeOK'
  <2>1. \A w \in Watches, q \in Packages :
          lease'[w][q] = [id |-> lease'[w][q].id, live |-> lease'[w][q].live]
    <3>1. \A w : new(w) = [id |-> new(w).id, live |-> new(w).live]
      OBVIOUS
    <3> HIDE DEF new
    <3> QED BY <1>9, <3>1 DEF EInv, EvaluationTypeOK
  <2>2. \A f \in Evaluators : ~Idle(f)' => RunOK(run'[f])
    BY <1>11, <1>12 DEF EInv, EvaluationTypeOK
  <2>3. activation' \in DOMAIN Schedule /\ outlived' \in Nat
    BY <1>1 DEF EInv, EvaluationTypeOK
  <2> QED BY <1>9, <1>12, <2>1, <2>2, <2>3 DEF EvaluationTypeOK
<1>14. OneClaimPerWatch'
  <2> SUFFICES ASSUME NEW f \in Evaluators, ~Idle(f)',
                      NEW i \in DOMAIN run'[f].claims, NEW j \in DOMAIN run'[f].claims,
                      run'[f].claims[i].watch = run'[f].claims[j].watch
               PROVE  i = j
    BY DEF OneClaimPerWatch
  <2>1. CASE f = e
    <3>1. run'[f].claims = s
      BY <1>10, <1>12, <2>1
    <3> QED BY <1>3, <1>5, <1>7, <3>1
  <2>2. CASE f # e
    BY <1>12, <2>2 DEF EInv, OneClaimPerWatch
  <2> QED BY <2>1, <2>2
\* while leases hold, the others' claims are of other watches
<1>15. ASSUME outlived = 0, NEW f \in Evaluators \ {e}, ~Idle(f)',
              NEW i \in DOMAIN run[f].claims
       PROVE  /\ run[f].claims[i].watch \in Watches /\ run[f].package \in Packages
              /\ ~Taken(run[f].claims[i].watch, run[f].package)
              /\ LET c == run[f].claims[i]
                     l == lease[c.watch][run[f].package]
                 IN l.live /\ l.id = c.lease
  <2>1. ~Idle(f)
    BY <1>12, <1>15
  <2>2. run[f].claims[i].watch \in Watches /\ run[f].package \in Packages
    BY <1>15, <2>1 DEF EInv, EvaluationTypeOK, RunOK
  <2>3. LET c == run[f].claims[i]
            l == lease[c.watch][run[f].package]
        IN l.live /\ l.id = c.lease
    BY <1>15, <2>1 DEF EInv, ClaimsAreLive
  <2>4. ~Taken(run[f].claims[i].watch, run[f].package)
    BY <1>4, <2>3 DEF ToSet
  <2> QED BY <2>2, <2>3, <2>4
<1>16. ClaimsAreLive'
  <2> SUFFICES ASSUME outlived = 0, NEW f \in Evaluators, ~Idle(f)',
                      NEW i \in DOMAIN run'[f].claims
               PROVE  LET c == run'[f].claims[i]
                          l == lease'[c.watch][run'[f].package]
                      IN l.live /\ l.id = c.lease
    BY <1>1 DEF ClaimsAreLive
  <2>1. CASE f = e
    <3>1. run'[f].claims = s /\ run'[f].package = p /\ i \in DOMAIN b
      BY <1>5, <1>10, <1>12, <2>1
    <3>2. b[i] \in Watches /\ Taken(b[i], p)
      BY <1>4, <3>1 DEF ToSet
    <3>3. lease'[b[i]][p] = new(b[i])
      BY <1>2, <1>9, <3>2
    <3>4. new(b[i]).live /\ new(b[i]).id = taken(b[i])
      OBVIOUS
    <3>5. taken(b[i]) = s[i].lease /\ s[i].watch = b[i]
      BY <1>7, <1>8, <3>1
    <3> HIDE DEF new
    <3> QED BY <3>1, <3>3, <3>4, <3>5
  <2>2. CASE f # e
    <3>1. run'[f] = run[f] /\ i \in DOMAIN run[f].claims
      BY <1>12, <2>2
    <3> DEFINE c == run[f].claims[i]
               q == run[f].package
    <3>2. /\ c.watch \in Watches /\ q \in Packages /\ ~Taken(c.watch, q)
          /\ lease[c.watch][q].live /\ lease[c.watch][q].id = c.lease
      BY <1>15, <2>2, <3>1
    <3>3. lease'[c.watch][q] = lease[c.watch][q]
      <4>1. \A v \in Watches, o \in Packages : ~Taken(v, o) => lease'[v][o] = lease[v][o]
        BY <1>9
      <4> HIDE DEF c, q, Taken
      <4> QED BY <3>2, <4>1
    <3> QED BY <3>1, <3>2, <3>3
  <2> QED BY <2>1, <2>2
<1>17. DisjointBatches'
  <2>1. ASSUME outlived = 0, NEW f \in Evaluators \ {e}, ~Idle(e)', ~Idle(f)',
               NEW c \in ToSet(run'[e].claims), NEW d \in ToSet(run'[f].claims)
        PROVE  ~(c.watch = d.watch /\ run'[e].package = run'[f].package)
    <3>1. run'[e].claims = s /\ run'[e].package = p /\ run'[f] = run[f]
      BY <1>10, <1>12, <2>1
    <3>2. c.watch \in ToSet(b)
      BY <1>5, <1>7, <2>1, <3>1 DEF ToSet
    <3>3. ~Taken(d.watch, run[f].package)
      BY <1>15, <2>1, <3>1 DEF ToSet
    <3> QED BY <3>1, <3>2, <3>3
  <2>2. ASSUME outlived = 0, NEW f \in Evaluators \ {e}, NEW g \in Evaluators \ {e}, f # g,
               ~Idle(f)', ~Idle(g)',
               NEW c \in ToSet(run'[f].claims), NEW d \in ToSet(run'[g].claims)
        PROVE  ~(c.watch = d.watch /\ run'[f].package = run'[g].package)
    BY <1>12, <2>2 DEF EInv, DisjointBatches
  <2>3. SUFFICES ASSUME outlived = 0,
                      NEW f \in Evaluators, NEW g \in Evaluators, f # g,
                      ~Idle(f)', ~Idle(g)',
                      NEW x \in ToSet(run'[f].claims), NEW y \in ToSet(run'[g].claims)
               PROVE  ~(x.watch = y.watch /\ run'[f].package = run'[g].package)
    BY <1>1 DEF DisjointBatches, ToSet
  <2>4. CASE f = e
    BY <2>1, <2>3, <2>4
  <2>5. CASE g = e
    BY <2>1, <2>3, <2>5
  <2>6. CASE f # e /\ g # e
    BY <2>2, <2>3, <2>6
  <2> QED BY <2>4, <2>5, <2>6
<1> QED BY <1>13, <1>14, <1>16, <1>17 DEF EInv

-----------------------------------------------------------------------------

LEMMA InitEInv == EvaluationInit => EInv
<1> SUFFICES ASSUME EvaluationInit PROVE EInv
  OBVIOUS
<1>1. activation = 1 /\ 1 \in DOMAIN Schedule
  BY WatchAlertAssumption DEF EvaluationInit, LogInit
<1>2. /\ lease = [w \in Watches |-> [p \in Packages |-> NoLease]]
      /\ run = [e \in Evaluators |-> Null] /\ outlived = 0
  BY DEF EvaluationInit
<1>3. NoLease = [id |-> NoLease.id, live |-> NoLease.live]
  BY DEF NoLease
<1>4. EvaluationTypeOK
  BY <1>1, <1>2, <1>3 DEF EvaluationTypeOK, Idle
<1> QED BY <1>2, <1>4 DEF EInv, OneClaimPerWatch, ClaimsAreLive, DisjointBatches, Idle

LEMMA NextKeepsEInv ==
    ASSUME EInv, [EvaluationNext]_evaluationVars
    PROVE  EInv'
<1>1. activation \in DOMAIN Schedule
  BY DEF EInv, EvaluationTypeOK
<1>2. CASE UNCHANGED evaluationVars
  BY <1>1, <1>2, AroundKeepsEInv DEF evaluationVars, logVars
<1>3. ASSUME NEW e \in Evaluators, Record(e) \/ EnsureDeliveries(e) PROVE EInv'
  <2>1. ~Idle(e) /\ UNCHANGED <<activation, lease, outlived>>
    BY <1>3 DEF Record, EnsureDeliveries, logVars
  <2>2. \E at : run' = [run EXCEPT ![e].at = at]
    BY <1>3 DEF Record, EnsureDeliveries
  <2> QED BY <2>1, <2>2, WithinAClaim
<1>4. ASSUME NEW e \in Evaluators, Step(e) \/ Die(e) PROVE EInv'
  BY <1>3, <1>4, StartKeepsEInv, ClaimKeepsEInv, FinishKeepsEInv, DieKeepsEInv DEF Step
<1>5. ASSUME NEW w \in Watches, NEW p \in Packages, Expire(w, p) \/ Outlive(w, p)
      PROVE  EInv'
  BY <1>5, ExpiryKeepsEInv
<1>6. CASE ActivatePackage
  <2>1. activation < Len(Schedule) /\ activation' = activation + 1
        /\ UNCHANGED <<lease, run, outlived>>
    BY <1>6 DEF ActivatePackage, Activate
  <2>2. activation' \in DOMAIN Schedule
    BY <1>1, <2>1, WatchAlertAssumption
  <2> QED BY <2>1, <2>2, AroundKeepsEInv
<1>7. ASSUME NEW w \in Watches, NEW to, ChangeStatus(w, to) PROVE EInv'
  BY <1>1, <1>7, AroundKeepsEInv DEF ChangeStatus, logVars
<1> QED BY <1>2, <1>4, <1>5, <1>6, <1>7 DEF EvaluationNext

(* Every claim holds its live lease, and the claims of one batch are of    *)
(* different watches, as long as no lease expired under its holder.        *)
THEOREM EvaluationInductive == EvaluationSpec => []EInv
<1> QED BY InitEInv, NextKeepsEInv, PTL DEF EvaluationSpec

(* claimWatchesForEvaluation: however many evaluators run, die and retry,  *)
(* and whatever owners do to their watches meanwhile, two of them never    *)
(* work on the same watch for the same package.                            *)
THEOREM BatchesAreDisjoint == EvaluationSpec => []DisjointBatches
<1>1. EInv => DisjointBatches
  BY DEF EInv
<1> QED BY <1>1, EvaluationInductive, PTL
-----------------------------------------------------------------------------
(* The promise itself: what one evaluator that never fails leaves.         *)

LogTypeOK ==
    /\ activation \in DOMAIN Schedule
    /\ lastPackage = [w \in Watches |-> lastPackage[w]]
    /\ evaluation = [w \in Watches |-> evaluation[w]]
    /\ events \in Seq(ToSet(events))

(* The alert an evaluation names is a signal of its watch and month.       *)
AlertsAreSignals ==
    \A w \in Watches : evaluation[w] # Null /\ evaluation[w].alert # Null =>
        LET i == evaluation[w].alert IN
        /\ i \in DOMAIN events
        /\ events[i].watch = w
        /\ events[i].cutoff = evaluation[w].cutoff
        /\ events[i].kind = "MOMENTUM_SIGNAL"

LogInv == LogTypeOK /\ AlertsAreSignals /\ RevisionsReferToTheirAlert

(* A watch still to be evaluated for the active package has either raised  *)
(* the alert it is about to raise, or fewer than the package's activations.*)
AlertsLeft(w) ==
    \/ Recorded(EventOf(w, Active, evaluation[w]))
    \/ Cardinality(AlertsAbout(w, Active)) < Cardinality(ActivationsOf(Active))

PendingAlert == \A w \in Watches : lastPackage[w] # Active => AlertsLeft(w)

AlertInv == LogTypeOK /\ PendingAlert /\ OneAlertPerActivation

LEMMA InitLogType == LogInit => LogTypeOK
<1> SUFFICES ASSUME LogInit PROVE LogTypeOK
  OBVIOUS
<1>1. activation = 1 /\ 1 \in DOMAIN Schedule
  BY WatchAlertAssumption DEF LogInit
<1> QED BY <1>1 DEF LogInit, LogTypeOK, ToSet

(* What is appended to the log is its last event; the others stay.         *)
LEMMA AppendedEvent ==
    ASSUME LogTypeOK, NEW x, events' = Append(events, x)
    PROVE  /\ Len(events) \in Nat /\ DOMAIN events = 1 .. Len(events)
           /\ DOMAIN events' = 1 .. Len(events) + 1
           /\ events'[Len(events) + 1] = x
           /\ \A i \in DOMAIN events : i \in DOMAIN events' /\ events'[i] = events[i]
           /\ events' \in Seq(ToSet(events'))
<1> DEFINE S == ToSet(events) \cup {x}
           n == events'
<1>1. events \in Seq(S) /\ x \in S
  BY DEF LogTypeOK
<1> HIDE DEF S
<1>2. /\ n \in Seq(S) /\ Len(n) = Len(events) + 1 /\ n[Len(events) + 1] = x
      /\ \A i \in 1 .. Len(events) : n[i] = events[i]
      /\ Len(events) \in Nat /\ DOMAIN events = 1 .. Len(events)
  BY <1>1
<1> HIDE DEF n
<1>3. DOMAIN n = 1 .. Len(events) + 1 /\ n = [i \in 1 .. Len(events) + 1 |-> n[i]]
  BY <1>2
<1>4. n \in Seq(ToSet(n))
  <2> DEFINE T == ToSet(n)
  <2>1. \A i \in 1 .. Len(events) + 1 : n[i] \in T
    BY <1>3 DEF ToSet
  <2> HIDE DEF T
  <2>2. n \in Seq(T)
    BY <1>2, <1>3, <2>1
  <2> QED BY <2>2 DEF T
<1> QED BY <1>2, <1>3, <1>4 DEF n

LEMMA NextKeepsLogType ==
    ASSUME LogTypeOK, [LogNext]_logVars
    PROVE  LogTypeOK'
<1>1. CASE UNCHANGED logVars
  BY <1>1 DEF LogTypeOK, logVars, ToSet
<1>2. CASE Activate
  <2>1. activation' \in DOMAIN Schedule
    BY <1>2, WatchAlertAssumption DEF Activate, LogTypeOK
  <2> QED BY <1>2, <2>1 DEF Activate, LogTypeOK, ToSet
<1>3. ASSUME NEW w \in Watches, Announce(w) PROVE LogTypeOK'
  <2>1. events' = Append(events, EventOf(w, Active, evaluation[w]))
        /\ UNCHANGED <<activation, lastPackage, evaluation>>
    BY <1>3 DEF Announce
  <2>2. events' \in Seq(ToSet(events'))
    BY <2>1, AppendedEvent
  <2> QED BY <2>1, <2>2 DEF LogTypeOK, ToSet
<1>4. ASSUME NEW w \in Watches, Evaluate(w) PROVE LogTypeOK'
  <2>1. UNCHANGED <<activation, events>>
    BY <1>4 DEF Evaluate
  <2>2. lastPackage' = [v \in Watches |-> lastPackage'[v]]
        /\ evaluation' = [v \in Watches |-> evaluation'[v]]
    BY <1>4 DEF Evaluate, LogTypeOK
  <2> QED BY <2>1, <2>2 DEF LogTypeOK, ToSet
<1> QED BY <1>1, <1>2, <1>3, <1>4 DEF LogNext

(* A revision is announced only of an alert of the month it revises.       *)
LEMMA RevisionsRevise ==
    ASSUME NEW w, NEW p, NEW prior, Announcement(w, p, prior) \in Revisions
    PROVE  prior # Null /\ prior.alert # Null /\ prior.cutoff = Cutoff[p]
<1>1. RevisionKind(prior, outcome[p][w], Cutoff[p], Supersedes[p]) # Null
  BY WatchAlertAssumption DEF Announcement, Revisions
<1> QED BY <1>1 DEF RevisionKind

LEMMA AnnouncedKinds ==
    ASSUME NEW w, NEW p, NEW prior
    PROVE  Announcement(w, p, prior) \in Revisions \cup {"MOMENTUM_SIGNAL", Null}
BY DEF Announcement, RevisionKind, Revisions

(* What an evaluation takes over from the events announced before it.      *)
LEMMA AlertOfEvaluation ==
    ASSUME NEW w \in Watches, NEW p, NEW prior,
           prior # Null /\ prior.alert # Null =>
             /\ prior.alert \in DOMAIN events
             /\ events[prior.alert].watch = w
             /\ events[prior.alert].cutoff = prior.cutoff
             /\ events[prior.alert].kind = "MOMENTUM_SIGNAL",
           Announcement(w, p, prior) # Null => Recorded(EventOf(w, p, prior)),
           EvaluationOf(w, p, prior).alert # Null
    PROVE  LET i == EvaluationOf(w, p, prior).alert IN
           /\ i \in DOMAIN events
           /\ events[i].watch = w
           /\ events[i].cutoff = Cutoff[p]
           /\ events[i].kind = "MOMENTUM_SIGNAL"
<1> DEFINE kind == Announcement(w, p, prior)
           event == EventOf(w, p, prior)
           i == EvaluationOf(w, p, prior).alert
<1>1. i = CASE kind = Null -> Null
            [] kind \in Revisions -> AlertOf(prior)
            [] OTHER -> IdOf(event)
  BY DEF EvaluationOf
<1>2. kind \in Revisions \cup {"MOMENTUM_SIGNAL", Null}
  BY AnnouncedKinds
<1>3. kind # Null
  BY <1>1, WatchAlertAssumption
<1>4. CASE kind \in Revisions
  <2>1. prior # Null /\ prior.alert # Null /\ prior.cutoff = Cutoff[p]
    BY <1>4, RevisionsRevise
  <2>2. i = prior.alert
    BY <1>1, <1>3, <1>4, <2>1 DEF AlertOf
  <2> QED BY <2>1, <2>2
<1>5. CASE kind \notin Revisions
  <2>1. kind = "MOMENTUM_SIGNAL" /\ i = IdOf(event)
    BY <1>1, <1>2, <1>3, <1>5
  <2>2. i \in DOMAIN events /\ events[i] = event
    BY <1>3, <2>1 DEF Recorded, IdOf
  <2>3. event.watch = w /\ event.cutoff = Cutoff[p] /\ event.kind = kind
    BY DEF EventOf
  <2> QED BY <2>1, <2>2, <2>3
<1> QED BY <1>4, <1>5

LEMMA AnnounceKeepsLogInv ==
    ASSUME LogInv, NEW w \in Watches, Announce(w)
    PROVE  AlertsAreSignals' /\ RevisionsReferToTheirAlert'
<1> DEFINE event == EventOf(w, Active, evaluation[w])
           n == Len(events)
<1>1. events' = Append(events, event) /\ UNCHANGED evaluation
  BY DEF Announce
<1>2. /\ n \in Nat /\ DOMAIN events = 1 .. n /\ DOMAIN events' = 1 .. n + 1
      /\ events'[n + 1] = event
      /\ \A i \in DOMAIN events : i \in DOMAIN events' /\ events'[i] = events[i]
  BY <1>1, AppendedEvent DEF LogInv
<1>3. AlertsAreSignals'
  BY <1>1, <1>2 DEF LogInv, AlertsAreSignals
<1>4. event.kind = Announcement(w, Active, evaluation[w]) /\ event.watch = w
      /\ event.cutoff = Cutoff[Active] /\ event.prior = AlertOf(evaluation[w])
  BY DEF EventOf
<1> HIDE DEF event, n
<1>5. RevisionsReferToTheirAlert'
  <2> SUFFICES ASSUME NEW j \in DOMAIN events', events'[j].kind \in Revisions
               PROVE  LET i == events'[j].prior IN
                      /\ i \in 1 .. j - 1
                      /\ events'[i].watch = events'[j].watch
                      /\ events'[i].cutoff = events'[j].cutoff
                      /\ events'[i].kind = "MOMENTUM_SIGNAL"
    BY DEF RevisionsReferToTheirAlert
  <2>1. CASE j \in DOMAIN events
    <3>1. events'[j] = events[j]
      BY <1>2, <2>1
    <3>2. LET i == events[j].prior IN
          /\ i \in 1 .. j - 1
          /\ events[i].watch = events[j].watch
          /\ events[i].cutoff = events[j].cutoff
          /\ events[i].kind = "MOMENTUM_SIGNAL"
      BY <2>1, <3>1 DEF LogInv, RevisionsReferToTheirAlert
    <3>3. events[j].prior \in DOMAIN events
      BY <1>2, <2>1, <3>2
    <3> QED BY <1>2, <3>1, <3>2, <3>3
  <2>2. CASE j \notin DOMAIN events
    <3>1. j = n + 1 /\ events'[j] = event
      BY <1>2, <2>2
    <3> DEFINE prior == evaluation[w]
    <3>2. prior # Null /\ prior.alert # Null /\ prior.cutoff = Cutoff[Active]
      <4>1. Announcement(w, Active, evaluation[w]) \in Revisions
        BY <1>4, <3>1
      <4> QED BY <4>1, RevisionsRevise
    <3>3. /\ prior.alert \in DOMAIN events
          /\ events[prior.alert].watch = w
          /\ events[prior.alert].cutoff = prior.cutoff
          /\ events[prior.alert].kind = "MOMENTUM_SIGNAL"
      BY <3>2 DEF LogInv, AlertsAreSignals
    <3>4. event.prior = prior.alert
      BY <1>4, <3>2 DEF AlertOf
    <3>5. prior.alert \in 1 .. j - 1
      BY <1>2, <3>1, <3>3
    <3> QED BY <1>2, <1>4, <3>1, <3>2, <3>3, <3>4, <3>5
  <2> QED BY <2>1, <2>2
<1> QED BY <1>3, <1>5

LEMMA EvaluateKeepsLogInv ==
    ASSUME LogInv, NEW w \in Watches, Evaluate(w)
    PROVE  AlertsAreSignals' /\ RevisionsReferToTheirAlert'
<1> DEFINE prior == evaluation[w]
           next == EvaluationOf(w, Active, prior)
<1>1. /\ UNCHANGED events
      /\ EventOf(w, Active, prior).kind # Null => Recorded(EventOf(w, Active, prior))
      /\ evaluation' = evaluation \/ evaluation' = [evaluation EXCEPT ![w] = next]
  BY DEF Evaluate
<1>2. RevisionsReferToTheirAlert'
  BY <1>1 DEF LogInv, RevisionsReferToTheirAlert
<1>3. /\ next.cutoff = Cutoff[Active]
      /\ next.alert # Null =>
           /\ next.alert \in DOMAIN events
           /\ events[next.alert].watch = w
           /\ events[next.alert].cutoff = Cutoff[Active]
           /\ events[next.alert].kind = "MOMENTUM_SIGNAL"
  <2>1. EventOf(w, Active, prior).kind = Announcement(w, Active, prior)
    BY DEF EventOf
  <2>2. prior # Null /\ prior.alert # Null =>
           /\ prior.alert \in DOMAIN events
           /\ events[prior.alert].watch = w
           /\ events[prior.alert].cutoff = prior.cutoff
           /\ events[prior.alert].kind = "MOMENTUM_SIGNAL"
    BY DEF LogInv, AlertsAreSignals
  <2>3. next.cutoff = Cutoff[Active]
    BY DEF EvaluationOf
  <2> HIDE DEF prior
  <2> QED BY <1>1, <2>1, <2>2, <2>3, AlertOfEvaluation
<1> HIDE DEF next
<1>4. \A v \in Watches : evaluation'[v] = evaluation[v] \/ (v = w /\ evaluation'[v] = next)
  BY <1>1 DEF LogInv, LogTypeOK
<1>5. AlertsAreSignals'
  BY <1>1, <1>3, <1>4 DEF LogInv, AlertsAreSignals
<1> QED BY <1>2, <1>5

(* recordAlertEvent and completeEvaluation: the event of a revision names  *)
(* the earlier signal of the same watch about the same month.              *)
LEMMA LogRevisions == LogSpec => []LogInv
<1>1. LogInit => LogInv
  <2>1. LogInit => LogTypeOK
    BY InitLogType
  <2>2. LogInit => AlertsAreSignals /\ RevisionsReferToTheirAlert
    BY DEF LogInit, AlertsAreSignals, RevisionsReferToTheirAlert
  <2> QED BY <2>1, <2>2 DEF LogInv
<1>2. LogInv /\ [LogNext]_logVars => LogInv'
  <2> SUFFICES ASSUME LogInv, [LogNext]_logVars
               PROVE  AlertsAreSignals' /\ RevisionsReferToTheirAlert'
    BY NextKeepsLogType DEF LogInv
  <2>1. CASE UNCHANGED logVars \/ Activate
    BY <2>1 DEF logVars, Activate, LogInv, AlertsAreSignals, RevisionsReferToTheirAlert
  <2> QED BY <2>1, AnnounceKeepsLogInv, EvaluateKeepsLogInv DEF LogNext
<1> QED BY <1>1, <1>2, PTL DEF LogSpec

-----------------------------------------------------------------------------
(* A watch is alerted at most once for each activation of a package.        *)

LEMMA FiniteCounts ==
    ASSUME LogTypeOK, NEW w, NEW p
    PROVE  /\ IsFiniteSet(AlertsAbout(w, p)) /\ Cardinality(AlertsAbout(w, p)) \in Nat
           /\ IsFiniteSet(ActivationsOf(p)) /\ Cardinality(ActivationsOf(p)) \in Nat
<1>1. DOMAIN events = 1 .. Len(events) /\ Len(events) \in Int
  BY DEF LogTypeOK
<1>2. activation \in Int
  BY WatchAlertAssumption DEF LogTypeOK
<1>3. IsFiniteSet(1 .. Len(events)) /\ IsFiniteSet(1 .. activation)
  BY <1>1, <1>2, FS_Interval
<1>4. AlertsAbout(w, p) \subseteq 1 .. Len(events) /\ ActivationsOf(p) \subseteq 1 .. activation
  BY <1>1 DEF AlertsAbout, ActivationsOf
<1> QED BY <1>3, <1>4, FS_Subset, FS_CardinalityType

LEMMA AnnounceKeepsAlertInv ==
    ASSUME AlertInv, NEW w \in Watches, Announce(w)
    PROVE  PendingAlert' /\ OneAlertPerActivation'
<1> DEFINE event == EventOf(w, Active, evaluation[w])
           n == Len(events)
<1>1. /\ lastPackage[w] # Active /\ ~Recorded(event)
      /\ events' = Append(events, event)
      /\ UNCHANGED <<activation, outcome, lastPackage, evaluation>>
  BY DEF Announce
<1>2. /\ n \in Nat /\ DOMAIN events = 1 .. n /\ DOMAIN events' = 1 .. n + 1
      /\ events'[n + 1] = event
      /\ \A i \in DOMAIN events : i \in DOMAIN events' /\ events'[i] = events[i]
  BY <1>1, AppendedEvent DEF AlertInv
<1>3. event.watch = w /\ event.package = Active
  BY DEF EventOf
<1>4. Active' = Active /\ \A p : ActivationsOf(p)' = ActivationsOf(p)
  BY <1>1 DEF Active, ActivationsOf
<1>5. \A v : EventOf(v, Active, evaluation[v])' = EventOf(v, Active, evaluation[v])
  BY <1>1 DEF EventOf, Announcement, IsSkipped, IsDue, Active, AlertOf
<1>6. ASSUME NEW v \in Watches, NEW p, ~(v = w /\ p = Active)
      PROVE  AlertsAbout(v, p)' = AlertsAbout(v, p)
  BY <1>2, <1>3, <1>6 DEF AlertsAbout
<1>7. /\ AlertsAbout(w, Active)' = AlertsAbout(w, Active) \cup {n + 1}
      /\ n + 1 \notin AlertsAbout(w, Active)
  BY <1>1, <1>2, <1>3, <1>4 DEF AlertsAbout
<1> HIDE DEF event
<1>8. Cardinality(AlertsAbout(w, Active)') = Cardinality(AlertsAbout(w, Active)) + 1
  BY <1>7, FiniteCounts, FS_AddElement DEF AlertInv
<1>9. Cardinality(AlertsAbout(w, Active)) < Cardinality(ActivationsOf(Active))
  BY <1>1 DEF AlertInv, PendingAlert, AlertsLeft, event
<1>10. Recorded(event)'
  BY <1>1, <1>2, <1>5 DEF Recorded, event
<1>11. \A x : Recorded(x) => \E i \in DOMAIN events' : events'[i] = x
  BY <1>2 DEF Recorded
<1>12. PendingAlert'
  <2> SUFFICES ASSUME NEW v \in Watches, lastPackage[v] # Active PROVE AlertsLeft(v)'
    BY <1>1, <1>4 DEF PendingAlert
  <2>1. CASE v = w
    BY <1>4, <1>5, <1>10, <2>1 DEF AlertsLeft, event
  <2>2. CASE v # w
    <3>1. AlertsAbout(v, Active)' = AlertsAbout(v, Active)
      BY <1>4, <1>6, <2>2
    <3>2. Recorded(EventOf(v, Active, evaluation[v])) => Recorded(EventOf(v, Active, evaluation[v]))'
      BY <1>5, <1>11 DEF Recorded
    <3>3. ActivationsOf(Active)' = ActivationsOf(Active)
      BY <1>4
    <3>4. AlertsLeft(v)
      BY DEF AlertInv, PendingAlert
    <3> QED BY <3>1, <3>2, <3>3, <3>4 DEF AlertsLeft
  <2> QED BY <2>1, <2>2
<1>13. OneAlertPerActivation'
  <2> SUFFICES ASSUME NEW v \in Watches, NEW p \in Packages
               PROVE  Cardinality(AlertsAbout(v, p)') <= Cardinality(ActivationsOf(p)')
    BY DEF OneAlertPerActivation
  <2>1. CASE v = w /\ p = Active
    <3>1. /\ Cardinality(AlertsAbout(w, Active)) \in Nat
          /\ Cardinality(ActivationsOf(Active)) \in Nat
      BY FiniteCounts DEF AlertInv
    <3>2. AlertsAbout(v, p)' = AlertsAbout(w, Active)' /\ ActivationsOf(p)' = ActivationsOf(Active)
      BY <1>4, <2>1
    <3> QED BY <1>8, <1>9, <3>1, <3>2
  <2>2. CASE ~(v = w /\ p = Active)
    <3>1. AlertsAbout(v, p)' = AlertsAbout(v, p) /\ ActivationsOf(p)' = ActivationsOf(p)
      BY <1>4, <1>6, <2>2
    <3> QED BY <3>1 DEF AlertInv, OneAlertPerActivation
  <2> QED BY <2>1, <2>2
<1> QED BY <1>12, <1>13

LEMMA EvaluateKeepsAlertInv ==
    ASSUME AlertInv, NEW w \in Watches, Evaluate(w)
    PROVE  PendingAlert' /\ OneAlertPerActivation'
<1>1. /\ UNCHANGED <<activation, outcome, events>>
      /\ lastPackage' = [lastPackage EXCEPT ![w] = Active]
      /\ \/ evaluation' = evaluation
         \/ evaluation' = [evaluation EXCEPT ![w] = EvaluationOf(w, Active, @)]
  BY DEF Evaluate
<1>2. /\ Active' = Active
      /\ \A v, p : AlertsAbout(v, p)' = AlertsAbout(v, p) /\ ActivationsOf(p)' = ActivationsOf(p)
  BY <1>1 DEF Active, AlertsAbout, ActivationsOf
<1>3. \A v \in Watches : lastPackage'[v] # Active =>
        v # w /\ lastPackage'[v] = lastPackage[v] /\ evaluation'[v] = evaluation[v]
  BY <1>1 DEF AlertInv, LogTypeOK
<1>4. PendingAlert'
  <2> SUFFICES ASSUME NEW v \in Watches, lastPackage'[v] # Active PROVE AlertsLeft(v)'
    BY <1>2 DEF PendingAlert
  <2>1. lastPackage[v] # Active /\ evaluation'[v] = evaluation[v]
    BY <1>3
  <2>2. EventOf(v, Active, evaluation[v])' = EventOf(v, Active, evaluation[v])
    BY <1>1, <2>1 DEF EventOf, Announcement, IsSkipped, IsDue, Active, AlertOf
  <2>3. AlertsLeft(v)
    BY <2>1 DEF AlertInv, PendingAlert
  <2>4. /\ AlertsAbout(v, Active)' = AlertsAbout(v, Active)
        /\ ActivationsOf(Active)' = ActivationsOf(Active)
    BY <1>2
  <2> QED BY <1>1, <2>2, <2>3, <2>4 DEF AlertsLeft, Recorded
<1>5. OneAlertPerActivation'
  BY <1>2 DEF AlertInv, OneAlertPerActivation
<1> QED BY <1>4, <1>5

(* Activated once more, a package allows one alert more.                   *)
LEMMA ActivateKeepsAlertInv ==
    ASSUME AlertInv, Activate
    PROVE  PendingAlert' /\ OneAlertPerActivation'
<1>1. /\ activation' = activation + 1 /\ UNCHANGED <<lastPackage, evaluation, events>>
      /\ activation' \in DOMAIN Schedule
  BY WatchAlertAssumption DEF Activate, AlertInv, LogTypeOK
<1>2. activation \in Nat /\ Active' \in Packages
  BY <1>1, WatchAlertAssumption DEF AlertInv, LogTypeOK, Active
<1>3. \A v, p : AlertsAbout(v, p)' = AlertsAbout(v, p)
  BY <1>1 DEF AlertsAbout
<1>4. ASSUME NEW p, p # Active' PROVE ActivationsOf(p)' = ActivationsOf(p)
  BY <1>1, <1>2, <1>4 DEF ActivationsOf, Active
<1> PICK p \in Packages : p = Active'
  BY <1>2
<1>5. /\ ActivationsOf(p)' = ActivationsOf(p) \cup {activation + 1}
      /\ activation + 1 \notin ActivationsOf(p)
  BY <1>1, <1>2 DEF ActivationsOf, Active
<1>6. Cardinality(ActivationsOf(p)') = Cardinality(ActivationsOf(p)) + 1
  BY <1>5, FiniteCounts, FS_AddElement DEF AlertInv
<1>7. ASSUME NEW v \in Watches
      PROVE  Cardinality(AlertsAbout(v, p)') < Cardinality(ActivationsOf(p)')
  <2>1. Cardinality(AlertsAbout(v, p)) <= Cardinality(ActivationsOf(p))
    BY <1>2 DEF AlertInv, OneAlertPerActivation
  <2>2. Cardinality(AlertsAbout(v, p)) \in Nat /\ Cardinality(ActivationsOf(p)) \in Nat
    BY FiniteCounts DEF AlertInv
  <2> QED BY <1>3, <1>6, <2>1, <2>2
<1>8. PendingAlert'
  BY <1>7 DEF PendingAlert, AlertsLeft
<1>9. OneAlertPerActivation'
  <2> SUFFICES ASSUME NEW v \in Watches, NEW q \in Packages
               PROVE  Cardinality(AlertsAbout(v, q)') <= Cardinality(ActivationsOf(q)')
    BY DEF OneAlertPerActivation
  <2>1. CASE q = p
    <3>1. /\ Cardinality(AlertsAbout(v, p)) \in Nat /\ Cardinality(ActivationsOf(p)) \in Nat
      BY FiniteCounts DEF AlertInv
    <3>2. AlertsAbout(v, q)' = AlertsAbout(v, p) /\ ActivationsOf(q)' = ActivationsOf(p)'
      BY <1>3, <2>1
    <3>3. Cardinality(AlertsAbout(v, p)) < Cardinality(ActivationsOf(p)')
      BY <1>3, <1>7
    <3> QED BY <1>6, <3>1, <3>2, <3>3
  <2>2. CASE q # p
    <3>1. AlertsAbout(v, q)' = AlertsAbout(v, q) /\ ActivationsOf(q)' = ActivationsOf(q)
      BY <1>3, <1>4, <2>2
    <3> QED BY <3>1 DEF AlertInv, OneAlertPerActivation
  <2> QED BY <2>1, <2>2
<1> QED BY <1>8, <1>9

LEMMA InitAlertInv == ASSUME LogInit PROVE AlertInv
<1>1. LogTypeOK
  BY InitLogType
<1>2. events = <<>> /\ activation = 1 /\ 1 \in DOMAIN Schedule
  BY WatchAlertAssumption DEF LogInit
<1>3. \A v, p : AlertsAbout(v, p) = {}
  BY <1>2 DEF AlertsAbout
<1>4. 1 \in ActivationsOf(Active)
  BY <1>2 DEF ActivationsOf, Active
<1>5. Cardinality(ActivationsOf(Active)) # 0
  BY <1>1, <1>4, FiniteCounts, FS_EmptySet
<1>6. \A p : Cardinality(ActivationsOf(p)) \in Nat
  BY <1>1, FiniteCounts
<1>7. \A v, p : Cardinality(AlertsAbout(v, p)) = 0
  BY <1>3, FS_EmptySet
<1> QED BY <1>1, <1>5, <1>6, <1>7 DEF AlertInv, PendingAlert, AlertsLeft, OneAlertPerActivation

LEMMA LogAlerts == LogSpec => []AlertInv
<1>1. LogInit => AlertInv
  BY InitAlertInv
<1>2. AlertInv /\ [LogNext]_logVars => AlertInv'
  <2> SUFFICES ASSUME AlertInv, [LogNext]_logVars
               PROVE  PendingAlert' /\ OneAlertPerActivation'
    BY NextKeepsLogType DEF AlertInv
  <2>1. CASE UNCHANGED logVars
    <3>1. UNCHANGED <<activation, outcome, lastPackage, evaluation, events>>
      BY <2>1 DEF logVars
    <3>2. PendingAlert' <=> PendingAlert
      BY <3>1 DEF PendingAlert, AlertsLeft, AlertsAbout, ActivationsOf, Recorded,
                  EventOf, Announcement, IsSkipped, IsDue, Active, AlertOf
    <3>3. OneAlertPerActivation' <=> OneAlertPerActivation
      BY <3>1 DEF OneAlertPerActivation, AlertsAbout, ActivationsOf
    <3> QED BY <3>2, <3>3 DEF AlertInv
  <2> QED BY <2>1, AnnounceKeepsAlertInv, EvaluateKeepsAlertInv, ActivateKeepsAlertInv
          DEF LogNext
<1> QED BY <1>1, <1>2, PTL DEF LogSpec

-----------------------------------------------------------------------------
(* How the evaluators keep it, when no package is activated under them.    *)

Noted(c) == Recorded(EventOf(c.watch, Active, c.prior))

(* A claim knows the last evaluation of a watch still to be evaluated; of  *)
(* one that another evaluator finished, it has nothing left to announce.   *)
Current(c) ==
    /\ c.watch \in Watches
    /\ c.lease # Null
    /\ lastPackage[c.watch] # Active => c.prior = evaluation[c.watch]
    /\ lastPackage[c.watch] = Active =>
         Announcement(c.watch, Active, c.prior) = Null \/ Noted(c)

RunCurrent(r) ==
    /\ r.package = Active
    /\ r.claims = <<>> => r.at = "evaluate"
    /\ \A i \in DOMAIN r.claims : Current(r.claims[i])
    /\ r.claims # <<>> /\ r.at # "evaluate" => Noted(r.claims[1])

(* What was evaluated is not leased.                                       *)
EvaluatedUnleased ==
    \A w \in Watches, p \in Packages : lastPackage[w] = p => lease[w][p] = NoLease

FInv ==
    /\ EInv
    /\ LogTypeOK
    /\ \A e \in Evaluators : ~Idle(e) => RunCurrent(run[e])
    /\ EvaluatedUnleased

LEMMA NotedAfterwards ==
    ASSUME LogTypeOK, UNCHANGED outcome, NEW x,
           events' = events \/ events' = Append(events, x)
    PROVE  /\ \A y : Recorded(y) => Recorded(y)'
           /\ events' = Append(events, x) => Recorded(x)'
           /\ \A w, p, prior : EventOf(w, p, prior)' = EventOf(w, p, prior)
           /\ \A w, p, prior : Announcement(w, p, prior)' = Announcement(w, p, prior)
<1>1. \A w, p, prior : Announcement(w, p, prior)' = Announcement(w, p, prior)
  BY DEF Announcement, IsSkipped, IsDue
<1>2. \A w, p, prior : EventOf(w, p, prior)' = EventOf(w, p, prior)
  BY <1>1 DEF EventOf, AlertOf
<1>3. CASE events' = events
  <2>1. \A y : Recorded(y) => Recorded(y)'
    BY <1>3 DEF Recorded
  <2>2. events' = Append(events, x) => FALSE
    <3> SUFFICES ASSUME events' = Append(events, x) PROVE FALSE
      OBVIOUS
    <3>1. Len(events) \in Nat /\ DOMAIN events = 1 .. Len(events)
          /\ DOMAIN events' = 1 .. Len(events) + 1
      BY AppendedEvent
    <3> QED BY <1>3, <3>1
  <2> QED BY <1>1, <1>2, <2>1, <2>2
<1>4. CASE events' = Append(events, x)
  <2>1. /\ Len(events) \in Nat /\ DOMAIN events' = 1 .. Len(events) + 1
        /\ events'[Len(events) + 1] = x
        /\ \A i \in DOMAIN events : i \in DOMAIN events' /\ events'[i] = events[i]
    BY <1>4, AppendedEvent
  <2>2. Recorded(x)' /\ \A y : Recorded(y) => Recorded(y)'
    BY <2>1 DEF Recorded
  <2> QED BY <1>1, <1>2, <2>2
<1> QED BY <1>3, <1>4

(* What one evaluator announces and evaluates leaves the claims of the     *)
(* others current.                                                         *)
LEMMA ClaimsStayCurrent ==
    ASSUME LogTypeOK, NEW w \in Watches,
           Announce(w) \/ Evaluate(w) \/ UNCHANGED logVars
    PROVE  /\ Active' = Active
           /\ \A c : Current(c) => Current(c)'
           /\ \A c : Noted(c) => Noted(c)'
<1> DEFINE event == EventOf(w, Active, evaluation[w])
<1>1. /\ UNCHANGED <<activation, outcome>>
      /\ events' = events \/ events' = Append(events, event)
  BY DEF Announce, Evaluate, logVars
<1>2. Active' = Active
  BY <1>1 DEF Active
<1> HIDE DEF event
<1>3. /\ \A y : Recorded(y) => Recorded(y)'
      /\ \A v, p, prior : EventOf(v, p, prior)' = EventOf(v, p, prior)
      /\ \A v, p, prior : Announcement(v, p, prior)' = Announcement(v, p, prior)
  BY <1>1, NotedAfterwards
<1>4. ASSUME NEW c, Noted(c) PROVE Noted(c)'
  <2>1. EventOf(c.watch, Active, c.prior)' = EventOf(c.watch, Active, c.prior)
    BY <1>2, <1>3
  <2> QED BY <1>3, <1>4, <2>1 DEF Noted
<1>5. ASSUME NEW c, Current(c) PROVE Current(c)'
  <2>1. Announcement(c.watch, Active, c.prior)' = Announcement(c.watch, Active, c.prior)
    BY <1>2, <1>3
  <2>2. c.watch \in Watches /\ c.lease # Null
    BY <1>5 DEF Current
  <2>3. CASE UNCHANGED <<lastPackage, evaluation>>
    BY <1>2, <1>4, <1>5, <2>1, <2>3 DEF Current
  <2>4. CASE Evaluate(w) /\ c.watch # w
    <3>1. lastPackage'[c.watch] = lastPackage[c.watch]
          /\ evaluation'[c.watch] = evaluation[c.watch]
      BY <2>2, <2>4 DEF Evaluate, LogTypeOK
    <3> QED BY <1>2, <1>4, <1>5, <2>1, <3>1 DEF Current
  <2>5. CASE Evaluate(w) /\ c.watch = w
    <3>1. /\ lastPackage[w] # Active /\ lastPackage'[w] = Active
          /\ EventOf(w, Active, evaluation[w]).kind # Null
               => Recorded(EventOf(w, Active, evaluation[w]))
      BY <2>5 DEF Evaluate, LogTypeOK
    <3>2. c.prior = evaluation[w]
      BY <1>5, <2>5, <3>1 DEF Current
    <3>3. Announcement(w, Active, c.prior) = Null \/ Noted(c)
      BY <2>5, <3>1, <3>2 DEF EventOf, Noted
    <3> QED BY <1>2, <1>4, <2>1, <2>2, <2>5, <3>1, <3>3 DEF Current
  <2>6. UNCHANGED <<lastPackage, evaluation>> \/ Evaluate(w)
    BY DEF Announce, logVars
  <2> QED BY <2>3, <2>4, <2>5, <2>6
<1> QED BY <1>2, <1>4, <1>5

(* A step of the evaluators: the log makes a step or none, and every run   *)
(* that was not current before is shown to be current.                     *)
LEMMA LogStepKeepsFInv ==
    ASSUME FInv, EInv', NEW w \in Watches,
           Announce(w) \/ Evaluate(w) \/ UNCHANGED logVars,
           EvaluatedUnleased',
           \A e \in Evaluators : ~Idle(e)' =>
             (~Idle(e) /\ run'[e] = run[e]) \/ RunCurrent(run[e])'
    PROVE  FInv'
<1>1. [LogNext]_logVars
  BY DEF LogNext
<1>2. LogTypeOK'
  BY <1>1, NextKeepsLogType DEF FInv
<1>3. /\ Active' = Active
      /\ \A c : Current(c) => Current(c)'
      /\ \A c : Noted(c) => Noted(c)'
  BY ClaimsStayCurrent DEF FInv
<1>4. ASSUME NEW e \in Evaluators, ~Idle(e)' PROVE RunCurrent(run[e])'
  <2> SUFFICES ASSUME ~Idle(e), run'[e] = run[e] PROVE RunCurrent(run[e])'
    BY <1>4
  <2>1. RunCurrent(run[e])
    BY DEF FInv
  <2> QED BY <1>3, <2>1 DEF RunCurrent
<1> QED BY <1>2, <1>4 DEF FInv

LEMMA RecordRefines ==
    ASSUME FInv, NEW e \in Evaluators, Record(e)
    PROVE  LET w == ClaimOf(e).watch IN
           w \in Watches /\ (Announce(w) \/ UNCHANGED logVars) /\ RunCurrent(run[e])'
<1> DEFINE r == run[e]
           c == Head(r.claims)
           w == c.watch
           event == EventOf(w, r.package, c.prior)
<1>1. /\ ~Idle(e) /\ r.claims # <<>> /\ event.kind # Null
      /\ events' = IF Recorded(event) THEN events ELSE Append(events, event)
      /\ run' = [run EXCEPT ![e].at = IF Recorded(event) THEN "complete" ELSE "deliver"]
      /\ UNCHANGED <<activation, outcome, lastPackage, evaluation>>
  BY DEF Record, ClaimOf
<1>2. RunOK(r) /\ RunCurrent(r)
  BY <1>1 DEF FInv, EInv, EvaluationTypeOK
<1>3. c = r.claims[1] /\ 1 \in DOMAIN r.claims
  <2> HIDE DEF r
  <2> QED BY <1>1, <1>2, TailOfClaims DEF RunOK
<1>4. Current(c) /\ w \in Watches /\ r.package = Active
  BY <1>2, <1>3 DEF RunCurrent, Current
<1>5. event.kind = Announcement(w, Active, c.prior) /\ event = EventOf(w, Active, c.prior)
  BY <1>4 DEF EventOf
<1>6. ASSUME Recorded(event) PROVE UNCHANGED logVars
  BY <1>1, <1>6 DEF logVars
<1>7. ASSUME ~Recorded(event) PROVE Announce(w)
  <2>1. lastPackage[w] # Active
    BY <1>1, <1>4, <1>5, <1>7 DEF Current, Noted
  <2>2. c.prior = evaluation[w]
    BY <1>4, <2>1 DEF Current
  <2> QED BY <1>1, <1>5, <1>7, <2>1, <2>2 DEF Announce
<1>8. Announce(w) \/ UNCHANGED logVars
  BY <1>6, <1>7
<1>9. PICK at : run' = [run EXCEPT ![e].at = at]
  BY <1>1
<1> DEFINE n == [r EXCEPT !.at = at]
<1>10. run'[e] = n
  BY <1>9 DEF FInv, EInv, EvaluationTypeOK
<1>11. n.package = r.package /\ n.claims = r.claims
  <2> HIDE DEF r
  <2> QED BY <1>2 DEF RunOK
<1>12. /\ Active' = Active
       /\ \A d : Current(d) => Current(d)'
       /\ \A d : Noted(d) => Noted(d)'
  BY <1>4, <1>8, ClaimsStayCurrent DEF FInv
<1>13. ASSUME NEW d, d = c PROVE Noted(d)'
  <2>1. /\ \A y : Recorded(y) => Recorded(y)'
        /\ events' = Append(events, event) => Recorded(event)'
        /\ \A v, p, prior : EventOf(v, p, prior)' = EventOf(v, p, prior)
    BY <1>1, NotedAfterwards DEF FInv
  <2> PICK x : x = event
    OBVIOUS
  <2>2. Recorded(x)'
    BY <1>1, <2>1
  <2>3. x = EventOf(d.watch, Active, d.prior)
    BY <1>5, <1>13
  <2> QED BY <1>12, <2>1, <2>2, <2>3 DEF Noted
<1>14. RunCurrent(run[e])'
  <2> HIDE DEF r, n
  <2> PICK d : d = c
    OBVIOUS
  <2>1. Noted(d)' /\ n.claims[1] = d
    BY <1>3, <1>11, <1>13
  <2>2. n.claims # <<>>
    BY <1>1, <1>11
  <2>3. \A i \in DOMAIN n.claims : Current(n.claims[i])
    BY <1>2, <1>11 DEF RunCurrent
  <2> QED BY <1>4, <1>10, <1>11, <1>12, <2>1, <2>2, <2>3 DEF RunCurrent
<1> QED BY <1>4, <1>8, <1>14 DEF ClaimOf

LEMMA RecordKeepsFInv ==
    ASSUME FInv, EInv', NEW e \in Evaluators, Record(e)
    PROVE  [LogNext]_logVars /\ FInv'
<1>1. PICK w \in Watches : (Announce(w) \/ UNCHANGED logVars) /\ RunCurrent(run[e])'
  BY RecordRefines
<1>2. UNCHANGED <<lease, lastPackage>> /\ \E at : run' = [run EXCEPT ![e].at = at]
  BY DEF Record
<1>3. EvaluatedUnleased'
  BY <1>2 DEF FInv, EvaluatedUnleased
<1>4. \A f \in Evaluators \ {e} : ~Idle(f)' => ~Idle(f) /\ run'[f] = run[f]
  BY <1>2 DEF FInv, EInv, EvaluationTypeOK, Idle
<1>5. \A f \in Evaluators : ~Idle(f)' =>
        (~Idle(f) /\ run'[f] = run[f]) \/ RunCurrent(run[f])'
  <2> SUFFICES ASSUME NEW f \in Evaluators, ~Idle(f)'
               PROVE  (~Idle(f) /\ run'[f] = run[f]) \/ RunCurrent(run[f])'
    OBVIOUS
  <2>1. CASE f = e
    BY <1>1, <2>1
  <2>2. CASE f # e
    BY <1>4, <2>2
  <2> QED BY <2>1, <2>2
<1>6. Announce(w) \/ Evaluate(w) \/ UNCHANGED logVars
  BY <1>1
<1>7. FInv'
  BY <1>3, <1>5, <1>6, LogStepKeepsFInv
<1> QED BY <1>1, <1>7 DEF LogNext

(* A step that leaves the log alone.                                       *)
LEMMA QuietKeepsFInv ==
    ASSUME FInv, EInv', UNCHANGED logVars, EvaluatedUnleased',
           \A e \in Evaluators : ~Idle(e)' =>
             (~Idle(e) /\ run'[e] = run[e]) \/ RunCurrent(run[e])'
    PROVE  [LogNext]_logVars /\ FInv'
<1>1. LogTypeOK'
  BY NextKeepsLogType DEF FInv
<1>2. /\ Active' = Active
      /\ \A c : Current(c) => Current(c)'
      /\ \A c : Noted(c) => Noted(c)'
  <2>1. UNCHANGED <<activation, outcome, lastPackage, evaluation, events>>
    BY DEF logVars
  <2>2. Active' = Active
    BY <2>1 DEF Active
  <2>3. /\ \A w, p, prior : EventOf(w, p, prior)' = EventOf(w, p, prior)
        /\ \A w, p, prior : Announcement(w, p, prior)' = Announcement(w, p, prior)
    BY <2>1, NotedAfterwards DEF FInv
  <2>4. \A y : Recorded(y) => Recorded(y)'
    BY <2>1 DEF Recorded
  <2>5. \A c : EventOf(c.watch, Active, c.prior)' = EventOf(c.watch, Active, c.prior)
    BY <2>2, <2>3
  <2>6. \A c : Noted(c) => Noted(c)'
    BY <2>4, <2>5 DEF Noted
  <2>7. \A c : Announcement(c.watch, Active, c.prior)' = Announcement(c.watch, Active, c.prior)
    BY <2>2, <2>3
  <2> QED BY <2>1, <2>2, <2>6, <2>7 DEF Current
<1>3. \A e \in Evaluators : ~Idle(e)' => RunCurrent(run[e])'
  <2> SUFFICES ASSUME NEW e \in Evaluators, ~Idle(e)', ~Idle(e), run'[e] = run[e]
               PROVE  RunCurrent(run[e])'
    OBVIOUS
  <2>1. RunCurrent(run[e])
    BY DEF FInv
  <2> QED BY <1>2, <2>1 DEF RunCurrent
<1> QED BY <1>1, <1>3 DEF FInv

LEMMA StartKeepsFInv ==
    ASSUME FInv, EInv', NEW e \in Evaluators, Start(e)
    PROVE  [LogNext]_logVars /\ FInv'
<1> DEFINE r == [package |-> Active, claims |-> <<>>, at |-> "evaluate"]
<1>1. run' = [run EXCEPT ![e] = r] /\ UNCHANGED <<logVars, lease>>
  BY DEF Start
<1>2. run'[e] = r /\ \A f \in Evaluators \ {e} : run'[f] = run[f]
  BY <1>1 DEF FInv, EInv, EvaluationTypeOK
<1>3. Active' = Active /\ lastPackage' = lastPackage
  BY <1>1 DEF Active, logVars
<1>4. RunCurrent(run[e])'
  <2>1. r.package = Active /\ r.claims = <<>> /\ r.at = "evaluate" /\ DOMAIN r.claims = {}
    OBVIOUS
  <2> HIDE DEF r
  <2> QED BY <1>2, <1>3, <2>1 DEF RunCurrent
<1>5. EvaluatedUnleased'
  BY <1>1, <1>3 DEF FInv, EvaluatedUnleased
<1>6. \A f \in Evaluators : ~Idle(f)' =>
        (~Idle(f) /\ run'[f] = run[f]) \/ RunCurrent(run[f])'
  BY <1>2, <1>4 DEF Idle
<1> QED BY <1>1, <1>5, <1>6, QuietKeepsFInv DEF logVars

LEMMA DeliverKeepsFInv ==
    ASSUME FInv, EInv', NEW e \in Evaluators, EnsureDeliveries(e)
    PROVE  [LogNext]_logVars /\ FInv'
<1> DEFINE r == run[e]
           n == [r EXCEPT !.at = "complete"]
<1>1. /\ ~Idle(e) /\ r.claims # <<>> /\ r.at = "deliver"
      /\ run' = [run EXCEPT ![e].at = "complete"] /\ UNCHANGED <<logVars, lease>>
  BY DEF EnsureDeliveries
<1>2. RunOK(r) /\ RunCurrent(r)
  BY <1>1 DEF FInv, EInv, EvaluationTypeOK
<1>3. run'[e] = n /\ \A f \in Evaluators \ {e} : run'[f] = run[f]
  BY <1>1 DEF FInv, EInv, EvaluationTypeOK
<1>4. n.package = r.package /\ n.claims = r.claims
  <2> HIDE DEF r
  <2> QED BY <1>2 DEF RunOK
<1>5. UNCHANGED <<activation, outcome, lastPackage, evaluation, events>>
  BY <1>1 DEF logVars
<1>6. PICK w \in Watches : TRUE
  <2>1. 1 \in DOMAIN r.claims
    <3> HIDE DEF r
    <3> QED BY <1>1, <1>2, TailOfClaims DEF RunOK
  <2> QED BY <1>2, <2>1 DEF RunOK
<1>7. /\ Active' = Active
      /\ \A c : Current(c) => Current(c)'
      /\ \A c : Noted(c) => Noted(c)'
  BY <1>1, <1>6, ClaimsStayCurrent DEF FInv, logVars
<1>8. RunCurrent(run[e])'
  <2>1. Noted(r.claims[1])
    BY <1>1, <1>2 DEF RunCurrent
  <2>2. r.package = Active /\ \A i \in DOMAIN r.claims : Current(r.claims[i])
    BY <1>2 DEF RunCurrent
  <2> HIDE DEF r, n
  <2> QED BY <1>1, <1>3, <1>4, <1>7, <2>1, <2>2 DEF RunCurrent
<1>9. EvaluatedUnleased'
  BY <1>1, <1>5 DEF FInv, EvaluatedUnleased
<1>10. \A f \in Evaluators : ~Idle(f)' =>
        (~Idle(f) /\ run'[f] = run[f]) \/ RunCurrent(run[f])'
  BY <1>3, <1>8 DEF Idle
<1> QED BY <1>1, <1>9, <1>10, QuietKeepsFInv DEF logVars

(* completeEvaluation under the lease the evaluator still holds is the one *)
(* evaluation of the watch; without it, it is nothing.                     *)
LEMMA FinishRefines ==
    ASSUME FInv, NEW e \in Evaluators, Finish(e)
    PROVE  LET w == ClaimOf(e).watch IN
           /\ w \in Watches /\ ClaimOf(e) = run[e].claims[1]
           /\ run[e].package = Active
           /\ \/ Evaluate(w) /\ lease' = [lease EXCEPT ![w][Active] = NoLease]
              \/ UNCHANGED <<logVars, lease>>
<1> DEFINE r == run[e]
           c == Head(r.claims)
           w == c.watch
<1>1. /\ ~Idle(e) /\ r.claims # <<>>
      /\ r.at = "complete" \/ Announcement(w, r.package, c.prior) = Null
      /\ Complete(c, r.package)
      /\ UNCHANGED <<activation, outcome, events>>
  BY DEF Finish, ClaimOf
<1>2. RunOK(r) /\ RunCurrent(r)
  BY <1>1 DEF FInv, EInv, EvaluationTypeOK
<1>3. c = r.claims[1] /\ 1 \in DOMAIN r.claims
  <2> HIDE DEF r
  <2> QED BY <1>1, <1>2, TailOfClaims DEF RunOK
<1>4. Current(c) /\ w \in Watches /\ r.package = Active
  BY <1>2, <1>3 DEF RunCurrent, Current
<1>5. ASSUME ~HoldsLease(c, Active) PROVE UNCHANGED <<logVars, lease>>
  BY <1>1, <1>4, <1>5 DEF Complete, logVars
<1>6. ASSUME HoldsLease(c, Active)
      PROVE  Evaluate(w) /\ lease' = [lease EXCEPT ![w][Active] = NoLease]
  <2>1. lastPackage[w] # Active
    <3>1. lease[w][Active].id = c.lease /\ c.lease # Null /\ NoLease.id = Null
      BY <1>4, <1>6 DEF HoldsLease, Current, NoLease
    <3>2. Active \in Packages
      BY ActiveIsPackage DEF FInv
    <3> QED BY <1>4, <3>1, <3>2 DEF FInv, EvaluatedUnleased
  <2>2. c.prior = evaluation[w]
    BY <1>4, <2>1 DEF Current
  <2>3. EventOf(w, Active, evaluation[w]).kind # Null
          => Recorded(EventOf(w, Active, evaluation[w]))
    <3>1. r.at = "complete" => Noted(c)
      BY <1>1, <1>2, <1>3 DEF RunCurrent
    <3>2. EventOf(w, Active, c.prior).kind = Announcement(w, Active, c.prior)
      BY DEF EventOf
    <3> QED BY <1>1, <1>4, <2>2, <3>1, <3>2 DEF Noted
  <2>4. /\ lastPackage' = [lastPackage EXCEPT ![w] = Active]
        /\ evaluation' = IF IsSkipped(w, Active, c.prior) THEN evaluation
                         ELSE [evaluation EXCEPT ![w] = EvaluationOf(w, Active, c.prior)]
        /\ lease' = [lease EXCEPT ![w][Active] = NoLease]
    BY <1>1, <1>4, <1>6 DEF Complete
  <2> QED BY <1>1, <2>1, <2>2, <2>3, <2>4 DEF Evaluate
<1> QED BY <1>3, <1>4, <1>5, <1>6 DEF ClaimOf

LEMMA FinishKeepsFInv ==
    ASSUME FInv, EInv', NEW e \in Evaluators, Finish(e)
    PROVE  [LogNext]_logVars /\ FInv'
<1> DEFINE r == run[e]
           t == Tail(r.claims)
<1>1. PICK w \in Watches :
        \/ Evaluate(w) /\ lease' = [lease EXCEPT ![w][Active] = NoLease]
        \/ UNCHANGED <<logVars, lease>>
  BY FinishRefines
<1>2. Evaluate(w) \/ UNCHANGED logVars
  BY <1>1 DEF logVars
<1>3. /\ ~Idle(e) /\ r.claims # <<>>
      /\ run' = [run EXCEPT ![e].claims = t, ![e].at = "evaluate"]
  BY DEF Finish
<1>4. RunOK(r) /\ RunCurrent(r)
  BY <1>3 DEF FInv, EInv, EvaluationTypeOK
<1>5. \A i \in DOMAIN t : i + 1 \in DOMAIN r.claims /\ t[i] = r.claims[i + 1]
  <2> HIDE DEF r
  <2> QED BY <1>3, <1>4, TailOfClaims DEF RunOK
<1>6. /\ run'[e].package = r.package /\ run'[e].claims = t /\ run'[e].at = "evaluate"
      /\ \A f \in Evaluators \ {e} : run'[f] = run[f]
  <2>1. run' = [run EXCEPT ![e] = [[r EXCEPT !.claims = t] EXCEPT !.at = "evaluate"]]
    BY <1>3 DEF FInv, EInv, EvaluationTypeOK
  <2> DEFINE u == [r EXCEPT !.claims = t]
             n == [u EXCEPT !.at = "evaluate"]
  <2>2. n.package = r.package /\ n.claims = t /\ n.at = "evaluate"
    <3> HIDE DEF r, t
    <3>1. u = [package |-> r.package, claims |-> t, at |-> r.at]
      BY <1>4 DEF RunOK
    <3> HIDE DEF u
    <3> QED BY <3>1
  <2>3. run' = [run EXCEPT ![e] = n]
    BY <2>1
  <2> HIDE DEF n
  <2>4. run'[e] = n /\ \A f \in Evaluators \ {e} : run'[f] = run[f]
    BY <2>3 DEF FInv, EInv, EvaluationTypeOK
  <2> QED BY <2>2, <2>4
<1>7. /\ Active' = Active
      /\ \A c : Current(c) => Current(c)'
  BY <1>2, ClaimsStayCurrent DEF FInv
<1>8. RunCurrent(run[e])'
  <2>1. \A i \in DOMAIN t : Current(t[i])
    BY <1>4, <1>5 DEF RunCurrent
  <2>2. r.package = Active
    BY <1>4 DEF RunCurrent
  <2> HIDE DEF r, t
  <2> QED BY <1>6, <1>7, <2>1, <2>2 DEF RunCurrent
<1>9. EvaluatedUnleased'
  <2>1. CASE UNCHANGED <<logVars, lease>>
    BY <2>1 DEF FInv, EvaluatedUnleased, logVars
  <2>2. CASE Evaluate(w) /\ lease' = [lease EXCEPT ![w][Active] = NoLease]
    <3>1. lastPackage' = [lastPackage EXCEPT ![w] = Active]
      BY <2>2 DEF Evaluate
    <3>2. \A v \in Watches, p \in Packages :
            lease'[v][p] = lease[v][p] \/ (v = w /\ p = Active /\ lease'[v][p] = NoLease)
      BY <2>2 DEF FInv, EInv, EvaluationTypeOK
    <3>3. \A v \in Watches, p \in Packages : v = w /\ p = Active => lease'[v][p] = NoLease
      BY <2>2 DEF FInv, EInv, EvaluationTypeOK
    <3>4. \A v \in Watches :
            lastPackage'[v] = lastPackage[v] \/ (v = w /\ lastPackage'[v] = Active)
      BY <3>1 DEF FInv, LogTypeOK
    <3> QED BY <3>2, <3>3, <3>4 DEF FInv, EvaluatedUnleased
  <2> QED BY <1>1, <2>1, <2>2
<1>10. \A f \in Evaluators : ~Idle(f)' =>
        (~Idle(f) /\ run'[f] = run[f]) \/ RunCurrent(run[f])'
  BY <1>6, <1>8 DEF Idle
<1>11. FInv'
  BY <1>2, <1>9, <1>10, LogStepKeepsFInv
<1> QED BY <1>2, <1>11 DEF LogNext

-----------------------------------------------------------------------------
(* There is always a lease identity left for a claim.                      *)

LEMMA LeasesOfRows ==
    LET Ids == {lease[w][p].id : w \in Watches, p \in Packages} IN
    /\ IsFiniteSet(Ids)
    /\ Cardinality(Ids) <= Cardinality(Watches) * Cardinality(Packages)
<1> DEFINE Ids == {lease[w][p].id : w \in Watches, p \in Packages}
           Pairs == Watches \X Packages
           f == [x \in Pairs |-> lease[x[1]][x[2]].id]
<1>1. IsFiniteSet(Pairs)
      /\ Cardinality(Pairs) = Cardinality(Watches) * Cardinality(Packages)
  BY FS_Product, WatchEvaluationAssumption
<1>2. f \in Surjection(Pairs, Ids)
  <2>1. \A x \in Pairs : f[x] \in Ids
    OBVIOUS
  <2>2. ASSUME NEW i \in Ids PROVE \E x \in Pairs : f[x] = i
    <3>1. PICK w \in Watches, p \in Packages : i = lease[w][p].id
      OBVIOUS
    <3>2. <<w, p>> \in Pairs /\ f[<<w, p>>] = i
      BY <3>1
    <3> QED BY <3>2
  <2> HIDE DEF Ids, Pairs
  <2>3. f \in [Pairs -> Ids]
    BY <2>1
  <2> HIDE DEF f
  <2> QED BY <2>2, <2>3 DEF Surjection
<1> HIDE DEF Ids, Pairs, f
<1>3. IsFiniteSet(Ids) /\ Cardinality(Ids) <= Cardinality(Pairs)
  BY <1>1, <1>2, FS_Surjection
<1> QED BY <1>1, <1>3 DEF Ids

(* An evaluator holds at most one lease per watch.                         *)
LEMMA LeasesOfClaims ==
    ASSUME EInv, NEW e \in Evaluators, run[e].claims = <<>>
    PROVE  LET Ids == UNION {{c.lease : c \in ToSet(run[f].claims)} :
                              f \in {g \in Evaluators : ~Idle(g)}}
           IN  /\ IsFiniteSet(Ids)
               /\ Cardinality(Ids) <=
                    Cardinality(Watches) * (Cardinality(Evaluators) - 1)
<1> DEFINE Ids == UNION {{c.lease : c \in ToSet(run[f].claims)} :
                          f \in {g \in Evaluators : ~Idle(g)}}
           Others == Evaluators \ {e}
           Holds(f, w, l) == /\ ~Idle(f)
                            /\ \E i \in DOMAIN run[f].claims :
                                 run[f].claims[i].watch = w /\ run[f].claims[i].lease = l
           Pairs == {x \in Watches \X Others : \E l : Holds(x[2], x[1], l)}
           fn == [x \in Pairs |-> CHOOSE l : Holds(x[2], x[1], l)]
<1>1. /\ IsFiniteSet(Others) /\ Cardinality(Others) = Cardinality(Evaluators) - 1
  BY FS_RemoveElement, WatchEvaluationAssumption
<1>2. /\ IsFiniteSet(Watches \X Others)
      /\ Cardinality(Watches \X Others) = Cardinality(Watches) * Cardinality(Others)
  BY <1>1, FS_Product, WatchEvaluationAssumption
<1>3. IsFiniteSet(Pairs) /\ Cardinality(Pairs) <= Cardinality(Watches \X Others)
  BY <1>2, FS_Subset
<1>4. ASSUME NEW f, NEW w, NEW l, NEW m, f \in Evaluators, Holds(f, w, l), Holds(f, w, m)
      PROVE  l = m
  BY <1>4 DEF EInv, OneClaimPerWatch
<1>5. \A x \in Pairs : Holds(x[2], x[1], fn[x])
  OBVIOUS
<1>6. fn \in Surjection(Pairs, Ids)
  <2>1. ASSUME NEW x \in Pairs PROVE fn[x] \in Ids
    <3>1. Holds(x[2], x[1], fn[x]) /\ x[2] \in Evaluators
      BY <1>5
    <3>2. PICK i \in DOMAIN run[x[2]].claims : run[x[2]].claims[i].lease = fn[x]
      BY <3>1
    <3>3. run[x[2]].claims[i] \in ToSet(run[x[2]].claims)
      BY DEF ToSet
    <3> HIDE DEF fn
    <3> QED BY <3>1, <3>2, <3>3
  <2>2. ASSUME NEW l \in Ids PROVE \E x \in Pairs : fn[x] = l
    <3>1. PICK f \in Evaluators : ~Idle(f) /\ \E c \in ToSet(run[f].claims) : l = c.lease
      OBVIOUS
    <3>2. PICK i \in DOMAIN run[f].claims : l = run[f].claims[i].lease
      BY <3>1 DEF ToSet
    <3> DEFINE w == run[f].claims[i].watch
    <3>3. w \in Watches /\ Holds(f, w, l)
      BY <3>1, <3>2 DEF EInv, EvaluationTypeOK, RunOK
    <3>4. f # e
      BY <3>2
    <3>5. <<w, f>> \in Pairs
      BY <3>3, <3>4
    <3>6. Holds(f, w, fn[<<w, f>>])
      BY <1>5, <3>5
    <3> HIDE DEF Holds, fn, w, Pairs
    <3> QED BY <1>4, <3>3, <3>5, <3>6
  <2> HIDE DEF Ids, Pairs, Holds
  <2>3. fn \in [Pairs -> Ids]
    BY <2>1
  <2> HIDE DEF fn
  <2> QED BY <2>2, <2>3 DEF Surjection
<1> HIDE DEF Ids, Pairs, fn, Others, Holds
<1>7. IsFiniteSet(Ids) /\ Cardinality(Ids) <= Cardinality(Pairs)
  BY <1>3, <1>6, FS_Surjection
<1>8. Cardinality(Ids) \in Nat /\ Cardinality(Pairs) \in Nat
      /\ Cardinality(Watches \X Others) \in Nat
  BY <1>2, <1>3, <1>7, FS_CardinalityType
<1>9. Cardinality(Ids) <= Cardinality(Watches \X Others)
  BY <1>3, <1>7, <1>8
<1> QED BY <1>1, <1>2, <1>7, <1>9 DEF Ids

LEMMA FreshLeases ==
    ASSUME EInv, NEW e \in Evaluators, run[e].claims = <<>>, NEW p,
           NEW i \in DOMAIN Batch(p)
    PROVE  Nth(Leases \ InUse, i) \in Leases \ InUse
<1> DEFINE W == Cardinality(Watches)
           P == Cardinality(Packages)
           E == Cardinality(Evaluators)
           L == Cardinality(Leases)
           Rows == {lease[w][q].id : w \in Watches, q \in Packages}
           Claims == UNION {{c.lease : c \in ToSet(run[f].claims)} :
                             f \in {g \in Evaluators : ~Idle(g)}}
           Free == Leases \ InUse
<1>1. W \in Nat /\ P \in Nat /\ E \in Nat /\ L \in Nat /\ L >= W * (P + E)
  BY FS_CardinalityType, WatchEvaluationAssumption
<1>2. IsFiniteSet(Rows) /\ Cardinality(Rows) <= W * P
  BY LeasesOfRows
<1>3. IsFiniteSet(Claims) /\ Cardinality(Claims) <= W * (E - 1)
  BY LeasesOfClaims
<1>4. InUse = Rows \cup Claims
  BY DEF InUse
<1> HIDE DEF Rows, Claims
<1>5. /\ Cardinality(Rows) \in Nat /\ Cardinality(Claims) \in Nat
      /\ Cardinality(Rows \cap Claims) \in Nat
  <2>1. IsFiniteSet(Rows \cap Claims)
    BY <1>2, FS_Subset
  <2> QED BY <1>2, <1>3, <2>1, FS_CardinalityType
<1>6. IsFiniteSet(InUse) /\ Cardinality(InUse) <= W * P + W * (E - 1)
  <2>1. IsFiniteSet(Rows \cup Claims)
        /\ Cardinality(Rows \cup Claims)
             = Cardinality(Rows) + Cardinality(Claims) - Cardinality(Rows \cap Claims)
    BY <1>2, <1>3, FS_Union
  <2>2. W * P \in Int /\ W * (E - 1) \in Int
    BY <1>1
  <2> HIDE DEF W, P, E
  <2> QED BY <1>2, <1>3, <1>4, <1>5, <2>1, <2>2
<1>7. /\ IsFiniteSet(Free)
      /\ Cardinality(Free) = L - Cardinality(Leases \cap InUse)
      /\ Cardinality(Leases \cap InUse) <= Cardinality(InUse)
      /\ Cardinality(Leases \cap InUse) \in Nat /\ Cardinality(InUse) \in Nat
  <2>1. IsFiniteSet(Leases)
    BY WatchEvaluationAssumption
  <2>2. IsFiniteSet(Leases \cap InUse)
        /\ Cardinality(Leases \cap InUse) <= Cardinality(InUse)
    BY <1>6, FS_Subset
  <2> QED BY <1>6, <2>1, <2>2, FS_Difference, FS_CardinalityType
<1>8. Cardinality(Free) >= W
  <2>1. W * (P + E) = W * P + W * (E - 1) + W
    <3> HIDE DEF W, P, E
    <3> QED BY <1>1
  <2>2. W * P + W * (E - 1) \in Int /\ W * (P + E) \in Int
    BY <1>1
  <2> HIDE DEF W, P, E, L, Free
  <2>3. Cardinality(InUse) <= W * P + W * (E - 1)
    BY <1>6
  <2> QED BY <1>1, <1>7, <2>1, <2>2, <2>3
<1>9. i \in 1 .. W
  <2> DEFINE S == {w \in Watches : Claimable(w, p)}
  <2>1. S \in SUBSET Nat /\ IsFiniteSet(S) /\ Cardinality(S) <= W /\ Cardinality(S) \in Nat
    BY WatchAlertAssumption, WatchEvaluationAssumption, FS_Subset, FS_CardinalityType
  <2>2. BatchSize \in Nat
    BY WatchEvaluationAssumption
  <2>3. Batch(p) = FirstOf(S, BatchSize)
    BY DEF Batch
  <2> HIDE DEF S
  <2>4. /\ FirstOf(S, BatchSize) \in Seq(S)
        /\ Len(FirstOf(S, BatchSize)) =
             IF Cardinality(S) < BatchSize THEN Cardinality(S) ELSE BatchSize
    BY <2>1, <2>2, FirstOfElements
  <2> DEFINE b == Batch(p)
  <2>5. b \in Seq(S) /\ Len(b) <= W /\ Len(b) \in Nat
    BY <1>1, <2>1, <2>2, <2>3, <2>4
  <2>6. DOMAIN b = 1 .. Len(b)
    BY <2>5
  <2> HIDE DEF b, W
  <2>7. i \in DOMAIN b
    BY DEF b
  <2> QED BY <1>1, <2>5, <2>6, <2>7
<1>10. Free \in SUBSET Nat
  BY WatchEvaluationAssumption
<1>11. i \in 1 .. Cardinality(Free)
  <2>1. Cardinality(Free) \in Nat
    BY <1>7, FS_CardinalityType
  <2> HIDE DEF Free, W
  <2> QED BY <1>1, <1>8, <1>9, <2>1
<1> HIDE DEF Free
<1>12. Nth(Free, i) \in Free
  BY <1>7, <1>10, <1>11, NthElement
<1> QED BY <1>12 DEF Free

LEMMA ClaimKeepsFInv ==
    ASSUME FInv, EInv', NEW e \in Evaluators, Claim(e)
    PROVE  [LogNext]_logVars /\ FInv'
<1> DEFINE r == run[e]
           p == r.package
           b == Batch(p)
           id(i) == Nth(Leases \ InUse, i)
           prior(i) == evaluation[b[i]]
           s == [i \in DOMAIN b |-> [watch |-> b[i], lease |-> id(i), prior |-> prior(i)]]
           taken(w) == (CHOOSE c \in ToSet(s) : c.watch = w).lease
           new(w) == [id |-> taken(w), live |-> TRUE]
           n == [r EXCEPT !.claims = s]
<1>1. /\ ~Idle(e) /\ r.claims = <<>> /\ UNCHANGED logVars
      /\ run' = [run EXCEPT ![e] = IF b = <<>> THEN Null ELSE n]
      /\ lease' = [w \in Watches |-> IF w \in ToSet(b) THEN [lease[w] EXCEPT ![p] = new(w)]
                                     ELSE lease[w]]
  BY DEF Claim
<1>2. RunOK(r) /\ RunCurrent(r)
  BY <1>1 DEF FInv, EInv, EvaluationTypeOK
<1>3. p = Active /\ r.at = "evaluate"
  BY <1>1, <1>2 DEF RunCurrent
<1>4. \A i \in DOMAIN b : id(i) \in Leases
  BY <1>1, FreshLeases DEF FInv
<1>5. \A i \in DOMAIN b : b[i] \in Watches /\ lastPackage[b[i]] # p
  <2>1. b \in Seq(Watches) /\ \A i \in DOMAIN b : Claimable(b[i], p)
    BY BatchElements
  <2>2. \A i \in DOMAIN b : lastPackage[b[i]] # p
    BY <2>1 DEF Claimable
  <2> HIDE DEF b
  <2> QED BY <2>1, <2>2
<1>6. UNCHANGED <<activation, outcome, lastPackage, evaluation, events>> /\ Active' = Active
  BY <1>1 DEF logVars, Active
<1> HIDE DEF r, p, b, id, taken
<1>7. n.package = p /\ n.claims = s /\ n.at = r.at
  BY <1>2 DEF RunOK, p
<1>8. \A i \in DOMAIN s : s[i].watch = b[i] /\ s[i].lease = id(i) /\ s[i].prior = prior(i)
                          /\ i \in DOMAIN b
  OBVIOUS
<1> HIDE DEF s, n
<1>9. \A c : (\E i \in DOMAIN s : c = s[i]) => Current(c)'
  <2> SUFFICES ASSUME NEW c, NEW i \in DOMAIN s, c = s[i] PROVE Current(c)'
    OBVIOUS
  <2>1. c.watch \in Watches /\ c.lease # Null /\ lastPackage[c.watch] # Active
        /\ c.prior = evaluation[c.watch]
    BY <1>3, <1>4, <1>5, <1>8, WatchEvaluationAssumption
  <2> QED BY <1>6, <2>1 DEF Current
<1>10. ~Idle(e)' => run'[e] = n
  BY <1>1 DEF FInv, EInv, EvaluationTypeOK, Idle
<1>11. ~Idle(e)' => RunCurrent(run[e])'
  BY <1>3, <1>6, <1>7, <1>9, <1>10 DEF RunCurrent
<1>12. \A f \in Evaluators \ {e} : run'[f] = run[f]
  BY <1>1 DEF FInv, EInv, EvaluationTypeOK
<1>13. EvaluatedUnleased'
  <2> SUFFICES ASSUME NEW w \in Watches, NEW q \in Packages, lastPackage[w] = q
               PROVE  lease'[w][q] = NoLease
    BY <1>6 DEF EvaluatedUnleased
  <2>1. ~(w \in ToSet(b) /\ q = p)
    BY <1>5 DEF ToSet
  <2>2. lease'[w][q] = lease[w][q]
    BY <1>1, <2>1 DEF FInv, EInv, EvaluationTypeOK
  <2> QED BY <2>2 DEF FInv, EvaluatedUnleased
<1>14. \A f \in Evaluators : ~Idle(f)' =>
        (~Idle(f) /\ run'[f] = run[f]) \/ RunCurrent(run[f])'
  BY <1>11, <1>12 DEF Idle
<1> QED BY <1>1, <1>13, <1>14, QuietKeepsFInv

(* A step that leaves the log alone and starts no run.                     *)
LEMMA AroundKeepsFInv ==
    ASSUME FInv, EInv', UNCHANGED logVars, EvaluatedUnleased',
           \A e \in Evaluators : ~Idle(e)' => ~Idle(e) /\ run'[e] = run[e]
    PROVE  [LogNext]_logVars /\ FInv'
BY QuietKeepsFInv

LEMMA DieKeepsFInv ==
    ASSUME FInv, EInv', NEW e \in Evaluators, Die(e)
    PROVE  [LogNext]_logVars /\ FInv'
<1>1. run' = [run EXCEPT ![e] = Null] /\ UNCHANGED <<logVars, lease>>
  BY DEF Die
<1>2. \A f \in Evaluators : ~Idle(f)' => ~Idle(f) /\ run'[f] = run[f]
  BY <1>1 DEF FInv, EInv, EvaluationTypeOK, Idle
<1>3. EvaluatedUnleased'
  BY <1>1 DEF FInv, EvaluatedUnleased, logVars
<1> QED BY <1>1, <1>2, <1>3, AroundKeepsFInv DEF logVars

LEMMA ExpiryKeepsFInv ==
    ASSUME FInv, EInv', NEW w \in Watches, NEW p \in Packages, Expire(w, p) \/ Outlive(w, p)
    PROVE  [LogNext]_logVars /\ FInv'
<1>1. /\ lease[w][p].live /\ lease' = [lease EXCEPT ![w][p].live = FALSE]
      /\ UNCHANGED <<logVars, run>>
  BY DEF Expire, Outlive
<1>2. lease[w][p] # NoLease
  BY <1>1 DEF NoLease
<1>3. \A v \in Watches, q \in Packages : ~(v = w /\ q = p) => lease'[v][q] = lease[v][q]
  BY <1>1 DEF FInv, EInv, EvaluationTypeOK
<1>4. EvaluatedUnleased'
  BY <1>1, <1>2, <1>3 DEF FInv, EvaluatedUnleased, logVars
<1> QED BY <1>1, <1>4, AroundKeepsFInv DEF Idle, logVars

(* Nothing is claimed when the next package is activated.                  *)
LEMMA ActivationKeepsFInv ==
    ASSUME FInv, EInv', ~Overlap, ActivatePackage
    PROVE  [LogNext]_logVars /\ FInv'
<1>1. /\ \A e \in Evaluators : Idle(e)
      /\ Activate /\ UNCHANGED <<lease, run>>
  BY DEF ActivatePackage
<1>2. [LogNext]_logVars
  BY <1>1 DEF LogNext
<1>3. LogTypeOK'
  BY <1>2, NextKeepsLogType DEF FInv
<1>4. EvaluatedUnleased'
  BY <1>1 DEF FInv, EvaluatedUnleased, Activate
<1>5. \A e \in Evaluators : Idle(e)'
  BY <1>1 DEF Idle
<1> QED BY <1>2, <1>3, <1>4, <1>5 DEF FInv

LEMMA InitFInv == EvaluationInit => FInv
<1> SUFFICES ASSUME EvaluationInit PROVE FInv
  OBVIOUS
<1>1. EInv
  BY InitEInv
<1>2. LogTypeOK
  BY InitLogType DEF EvaluationInit
<1>3. \A e \in Evaluators : Idle(e)
  BY DEF EvaluationInit, Idle
<1>4. EvaluatedUnleased
  BY DEF EvaluationInit, EvaluatedUnleased
<1> QED BY <1>1, <1>2, <1>3, <1>4 DEF FInv

LEMMA NextRefines ==
    ASSUME FInv, ~Overlap, [EvaluationNext]_evaluationVars
    PROVE  [LogNext]_logVars /\ FInv'
<1>1. EInv'
  BY NextKeepsEInv DEF FInv
<1>2. CASE UNCHANGED evaluationVars
  <2>1. UNCHANGED <<logVars, lease, run>>
    BY <1>2 DEF evaluationVars
  <2>2. EvaluatedUnleased'
    BY <2>1 DEF FInv, EvaluatedUnleased, logVars
  <2> QED BY <1>1, <2>1, <2>2, AroundKeepsFInv DEF Idle, logVars
<1>3. ASSUME NEW e \in Evaluators, Step(e) \/ Die(e)
      PROVE  [LogNext]_logVars /\ FInv'
  BY <1>1, <1>3, StartKeepsFInv, ClaimKeepsFInv, RecordKeepsFInv, DeliverKeepsFInv,
     FinishKeepsFInv, DieKeepsFInv DEF Step
<1>4. ASSUME NEW w \in Watches, NEW p \in Packages, Expire(w, p) \/ Outlive(w, p)
      PROVE  [LogNext]_logVars /\ FInv'
  BY <1>1, <1>4, ExpiryKeepsFInv
<1>5. CASE ActivatePackage
  BY <1>1, <1>5, ActivationKeepsFInv
<1>6. ASSUME NEW w \in Watches, NEW to, ChangeStatus(w, to)
      PROVE  [LogNext]_logVars /\ FInv'
  <2>1. UNCHANGED <<logVars, lease, run>>
    BY <1>6 DEF ChangeStatus
  <2>2. EvaluatedUnleased'
    BY <2>1 DEF FInv, EvaluatedUnleased, logVars
  <2> QED BY <1>1, <2>1, <2>2, AroundKeepsFInv DEF Idle, logVars
<1> QED BY <1>2, <1>3, <1>4, <1>5, <1>6 DEF EvaluationNext

(* Evaluators that run at once, die, retry and lose their leases append    *)
(* the events and store the evaluations of one that never fails, as long   *)
(* as no package is activated under them.                                  *)
THEOREM EvaluatorsActAsOne ==
    ASSUME ~Overlap PROVE EvaluationSpec => ActsAsOneEvaluator
<1>1. EvaluationInit => FInv /\ LogInit
  BY InitFInv DEF EvaluationInit
<1>2. FInv /\ [EvaluationNext]_evaluationVars => [LogNext]_logVars /\ FInv'
  BY NextRefines
<1> QED BY <1>1, <1>2, PTL DEF EvaluationSpec, ActsAsOneEvaluator, LogSpec

(* recordAlertEvent and completeEvaluation: a revision event names the     *)
(* earlier signal of the same watch about the same month, whatever         *)
(* evaluators ran, died and were overtaken in between.                     *)
THEOREM RevisionsNameTheirAlert ==
    ASSUME ~Overlap PROVE EvaluationSpec => []RevisionsReferToTheirAlert
<1>1. LogInv => RevisionsReferToTheirAlert
  BY DEF LogInv
<1>2. LogSpec => []LogInv
  BY LogRevisions
<1> QED BY <1>1, <1>2, EvaluatorsActAsOne, PTL DEF ActsAsOneEvaluator

(* The dedupe key and the cursor of the watch together: retried, taken     *)
(* over or finished late, the evaluations for one activation of a package  *)
(* raise one alert per watch; a package activated n times, at most n.      *)
THEOREM OneAlertForAnActivation ==
    ASSUME ~Overlap PROVE EvaluationSpec => []OneAlertPerActivation
<1>1. AlertInv => OneAlertPerActivation
  BY DEF AlertInv
<1>2. LogSpec => []AlertInv
  BY LogAlerts
<1> QED BY <1>1, <1>2, EvaluatorsActAsOne, PTL DEF ActsAsOneEvaluator
=============================================================================
