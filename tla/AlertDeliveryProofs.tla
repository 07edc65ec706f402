------------------------- MODULE AlertDeliveryProofs -------------------------
(***************************************************************************)
(* Proofs about the delivery of alerts: the provider is called within the  *)
(* attempt budget, give or take the workers that race or die, and a        *)
(* complaint about the address is never dropped, for any number of         *)
(* workers, events, attempts and deaths.                                   *)
(***************************************************************************)
EXTENDS AlertDelivery, FiniteSetTheorems, TLAPS

TypeOK ==
  /\ account \in BOOLEAN
  /\ watch \in {"ACTIVE", "PAUSED", "DELETED"}
  /\ raised \in 0 .. MaxEvents
  /\ delivery \in [Events -> Rows \cup {Null}]
  /\ job \in [Workers -> Runs \cup {Null}]
  /\ sends \in [Events -> 0 .. Cap]
  /\ bounced \in BOOLEAN
  /\ deaths \in 0 .. MaxDeaths

(* A run lists events that were raised, and no row is ahead of its event.  *)
OnlyRaised ==
  /\ \A k \in Workers : Busy(k) => \A i \in DOMAIN job[k].todo : job[k].todo[i] <= raised
  /\ \A e \in Events : e > raised => delivery[e] = Null

(* A run remembers an answer of the provider while it acts on it.          *)
AnswersOK ==
  \A k \in Workers : Busy(k) =>
    /\ job[k].at = "record" => job[k].answer # Null
    /\ job[k].at = "suppress" => job[k].answer \in Complaints
    /\ job[k].at \notin {"record", "suppress"} => job[k].answer \notin Complaints

(* The workers that are about to send an event, and those that have sent   *)
(* it and are about to record the answer.                                  *)
Sending(e) == {k \in Workers : At(k, "send") /\ EventAt(k) = e}
Recording(e) == {k \in Workers : At(k, "record") /\ EventAt(k) = e}

Attempts(e) == IF delivery[e] = Null THEN 0 ELSE delivery[e].attempts

(* A call of the provider is counted in the row, about to be counted, or   *)
(* lost with a worker, until the row's count reaches its limit; and the    *)
(* workers about to send are within the budget too.                        *)
Counted(e) ==
  /\ account /\ Attempts(e) < MaxAttempts =>
       sends[e] <= Attempts(e) + Cardinality(Recording(e)) + deaths
  /\ sends[e] + Cardinality(Sending(e))
       <= MaxAttempts + (Cardinality(Workers) - 1) + deaths

SendsCounted == \A e \in Events : Counted(e)

(* The inductive invariant.                                                *)
DInv ==
  /\ TypeOK
  /\ OnlyRaised
  /\ AnswersOK
  /\ SendsCounted
  /\ ComplaintsAreKept

LEMMA BudgetArithmetic ==
  /\ \A s, a, r, t, d, w, m \in Int :
       s <= a + r + d /\ a <= m - 1 /\ t + r <= w => s + t <= m + (w - 1) + d
  /\ \A s, s2, a, r, d \in Int :
       s <= a + r + d /\ s2 <= s + 1 => s2 <= a + (r + 1) + d
  /\ \A s, s2, t, d, w, m \in Int :
       s + t <= m + (w - 1) + d /\ s2 <= s + 1 => s2 + (t - 1) <= m + (w - 1) + d
OBVIOUS

USE AlertDeliveryAssumption

-----------------------------------------------------------------------------
(* Lemmas on the sets of workers that are counted.                         *)

LEMMA WorkerSetsFinite ==
  \A S \in SUBSET Workers : /\ IsFiniteSet(S) /\ Cardinality(S) \in Nat
                            /\ Cardinality(S) <= Cardinality(Workers)
BY FS_Subset, FS_CardinalityType

(* One worker's step changes a set of workers by that worker at most.      *)
LEMMA OneWorkerMoves ==
  ASSUME NEW S, NEW T, IsFiniteSet(S), IsFiniteSet(T), NEW k, S \ {k} = T \ {k}
  PROVE  /\ Cardinality(S) \in Nat /\ Cardinality(T) \in Nat
         /\ k \in S /\ k \notin T => Cardinality(T) = Cardinality(S) - 1
         /\ k \notin S /\ k \in T => Cardinality(T) = Cardinality(S) + 1
         /\ (k \in S <=> k \in T) => Cardinality(T) = Cardinality(S)
<1>1. Cardinality(S) \in Nat /\ Cardinality(T) \in Nat
  BY FS_CardinalityType
<1>2. ASSUME k \in S, k \notin T PROVE Cardinality(T) = Cardinality(S) - 1
  <2>1. T = S \ {k}
    BY <1>2
  <2> QED BY <1>2, <2>1, FS_RemoveElement
<1>3. ASSUME k \notin S, k \in T PROVE Cardinality(T) = Cardinality(S) + 1
  <2>1. T = S \cup {k}
    BY <1>3
  <2> QED BY <1>3, <2>1, FS_AddElement
<1>4. ASSUME k \in S <=> k \in T PROVE Cardinality(T) = Cardinality(S)
  <2>1. CASE k \in S
    <3>1. S = (S \ {k}) \cup {k} /\ T = (T \ {k}) \cup {k}
      BY <1>4, <2>1
    <3> QED BY <3>1
  <2>2. CASE k \notin S
    <3>1. S = S \ {k} /\ T = T \ {k}
      BY <1>4, <2>2
    <3> QED BY <3>1
  <2> QED BY <2>1, <2>2
<1> QED BY <1>1, <1>2, <1>3, <1>4

LEMMA CardinalityOfHands ==
  ASSUME NEW k \in Workers, NEW e, \A j \in Workers \ {k} : job'[j] = job[j]
  PROVE  /\ Cardinality(Sending(e)) \in Nat /\ Cardinality(Sending(e)') \in Nat
         /\ Cardinality(Recording(e)) \in Nat /\ Cardinality(Recording(e)') \in Nat
         /\ k \in Sending(e) /\ k \notin Sending(e)' =>
              Cardinality(Sending(e)') = Cardinality(Sending(e)) - 1
         /\ (k \in Sending(e) <=> k \in Sending(e)') =>
              Cardinality(Sending(e)') = Cardinality(Sending(e))
         /\ k \in Recording(e) /\ k \notin Recording(e)' =>
              Cardinality(Recording(e)') = Cardinality(Recording(e)) - 1
         /\ k \notin Recording(e) /\ k \in Recording(e)' =>
              Cardinality(Recording(e)') = Cardinality(Recording(e)) + 1
         /\ (k \in Recording(e) <=> k \in Recording(e)') =>
              Cardinality(Recording(e)') = Cardinality(Recording(e))
         /\ Cardinality(Sending(e)') + Cardinality(Recording(e)') <= Cardinality(Workers)
<1>1. /\ Sending(e) \ {k} = Sending(e)' \ {k}
      /\ Recording(e) \ {k} = Recording(e)' \ {k}
  BY DEF Sending, Recording, At, Busy, EventAt
<1>2. /\ Sending(e) \in SUBSET Workers /\ Sending(e)' \in SUBSET Workers
      /\ Recording(e) \in SUBSET Workers /\ Recording(e)' \in SUBSET Workers
      /\ Sending(e)' \cap Recording(e)' = {}
  BY DEF Sending, Recording, At
<1> DEFINE S == Sending(e)
           T == Sending(e)'
           R == Recording(e)
           Q == Recording(e)'
<1>3. IsFiniteSet(S) /\ IsFiniteSet(T) /\ IsFiniteSet(R) /\ IsFiniteSet(Q)
  BY <1>2, WorkerSetsFinite
<1>4. Cardinality(T) + Cardinality(Q) <= Cardinality(Workers)
  <2>1. T \cup Q \in SUBSET Workers
    BY <1>2
  <2> HIDE DEF T, Q
  <2>2. Cardinality(T \cup Q) = Cardinality(T) + Cardinality(Q) - Cardinality(T \cap Q)
    BY <1>3, FS_Union
  <2>3. Cardinality(T \cap Q) = 0
    BY <1>2, FS_EmptySet DEF T, Q
  <2>4. Cardinality(T \cup Q) <= Cardinality(Workers)
    BY <2>1, WorkerSetsFinite
  <2>5. Cardinality(T) \in Nat /\ Cardinality(Q) \in Nat /\ Cardinality(Workers) \in Nat
    BY <1>3, FS_CardinalityType
  <2> QED BY <2>2, <2>3, <2>4, <2>5
<1>5. S \ {k} = T \ {k} /\ R \ {k} = Q \ {k}
  BY <1>1
<1> HIDE DEF S, T, R, Q
<1>6. /\ Cardinality(S) \in Nat /\ Cardinality(T) \in Nat
      /\ k \in S /\ k \notin T => Cardinality(T) = Cardinality(S) - 1
      /\ (k \in S <=> k \in T) => Cardinality(T) = Cardinality(S)
  BY <1>3, <1>5, OneWorkerMoves
<1>7. /\ Cardinality(R) \in Nat /\ Cardinality(Q) \in Nat
      /\ k \in R /\ k \notin Q => Cardinality(Q) = Cardinality(R) - 1
      /\ k \notin R /\ k \in Q => Cardinality(Q) = Cardinality(R) + 1
      /\ (k \in R <=> k \in Q) => Cardinality(Q) = Cardinality(R)
  BY <1>3, <1>5, OneWorkerMoves
<1> QED BY <1>4, <1>6, <1>7 DEF S, T, R, Q

LEMMA CountsAreNumbers ==
  ASSUME TypeOK, NEW e \in Events
  PROVE  Attempts(e) \in 0 .. MaxAttempts /\ sends[e] \in Nat /\ deaths \in Nat
         /\ Cardinality(Workers) \in Nat
<1>1. Cardinality(Workers) \in Nat
  BY FS_CardinalityType
<1>2. sends[e] \in 0 .. Cap /\ Cap \in Nat
  BY <1>1 DEF TypeOK, Cap
<1>3. Attempts(e) \in 0 .. MaxAttempts
  <2>1. delivery[e] \in Rows \cup {Null}
    BY DEF TypeOK
  <2> QED BY <2>1 DEF Attempts, Rows
<1> QED BY <1>1, <1>2, <1>3 DEF TypeOK

-----------------------------------------------------------------------------
(* How the three kinds of steps keep the counts of an event right.         *)

(* A worker that neither is about to send nor has just sent the event: an  *)
(* answer it was about to record is recorded, or the worker died.          *)
LEMMA AnsweredCounted ==
  ASSUME TypeOK, TypeOK', NEW e \in Events, Counted(e), NEW k \in Workers,
         \A j \in Workers \ {k} : job'[j] = job[j],
         k \notin Sending(e)', k \notin Recording(e)',
         sends'[e] = sends[e], deaths' >= deaths,
         account' => account, account' => Attempts(e)' >= Attempts(e),
         k \in Recording(e) /\ account' =>
           \/ Attempts(e)' >= MaxAttempts
           \/ Attempts(e)' >= Attempts(e) + 1
           \/ deaths' >= deaths + 1
  PROVE  Counted(e)'
<1> DEFINE s == Cardinality(Sending(e))
           s2 == Cardinality(Sending(e)')
           r == Cardinality(Recording(e))
           r2 == Cardinality(Recording(e)')
<1>1. /\ s \in Nat /\ s2 \in Nat /\ r \in Nat /\ r2 \in Nat
      /\ s2 <= s /\ r2 <= r /\ r <= r2 + 1
      /\ k \notin Recording(e) => r = r2
  BY CardinalityOfHands
<1>2. /\ Attempts(e) \in 0 .. MaxAttempts /\ sends[e] \in Nat /\ deaths \in Nat
      /\ Cardinality(Workers) \in Nat
  BY CountsAreNumbers
<1>3. Attempts(e)' \in 0 .. MaxAttempts /\ deaths' \in Nat
  <2>1. delivery'[e] \in Rows \cup {Null}
    BY DEF TypeOK
  <2> QED BY <2>1 DEF TypeOK, Attempts, Rows
<1>4. /\ account /\ Attempts(e) < MaxAttempts => sends[e] <= Attempts(e) + r + deaths
      /\ sends[e] + s <= MaxAttempts + (Cardinality(Workers) - 1) + deaths
  BY DEF Counted
<1> HIDE DEF s, s2, r, r2
<1>5. sends'[e] + s2 <= MaxAttempts + (Cardinality(Workers) - 1) + deaths'
  BY <1>1, <1>2, <1>3, <1>4
<1>6. ASSUME account', Attempts(e)' < MaxAttempts
      PROVE  sends'[e] <= Attempts(e)' + r2 + deaths'
  <2>1. Attempts(e) <= Attempts(e)' /\ Attempts(e) < MaxAttempts /\ account
    BY <1>2, <1>3, <1>6
  <2>2. sends[e] <= Attempts(e) + r + deaths
    BY <1>4, <2>1
  <2>3. CASE k \notin Recording(e)
    BY <1>1, <1>2, <1>3, <2>1, <2>2, <2>3
  <2>4. CASE k \in Recording(e)
    <3>1. Attempts(e)' >= Attempts(e) + 1 \/ deaths' >= deaths + 1
      BY <1>2, <1>3, <1>6, <2>4
    <3> QED BY <1>1, <1>2, <1>3, <2>1, <2>2, <3>1
  <2> QED BY <2>3, <2>4
<1> QED BY <1>5, <1>6 DEF Counted, s2, r2

(* A worker comes to the call of the provider only below the limit.        *)
LEMMA AboutToSendCounted ==
  ASSUME TypeOK, TypeOK', NEW e \in Events, Counted(e), NEW k \in Workers,
         \A j \in Workers \ {k} : job'[j] = job[j],
         k \notin Sending(e), k \in Sending(e)', k \notin Recording(e)',
         sends'[e] = sends[e], deaths' = deaths, account, Attempts(e)' < MaxAttempts,
         Attempts(e)' = IF k \in Recording(e) THEN Attempts(e) + 1 ELSE Attempts(e)
  PROVE  Counted(e)'
<1> DEFINE s2 == Cardinality(Sending(e)')
           r == Cardinality(Recording(e))
           r2 == Cardinality(Recording(e)')
           a2 == Attempts(e)'
<1>1. /\ s2 \in Nat /\ r \in Nat /\ r2 \in Nat
      /\ r2 = IF k \in Recording(e) THEN r - 1 ELSE r
      /\ s2 + r2 <= Cardinality(Workers)
  BY CardinalityOfHands
<1>2. /\ Attempts(e) \in 0 .. MaxAttempts /\ sends[e] \in Nat /\ deaths \in Nat
      /\ Cardinality(Workers) \in Nat
  BY CountsAreNumbers
<1>3. Attempts(e) < MaxAttempts
  BY <1>2
<1>4. sends[e] <= Attempts(e) + r + deaths
  BY <1>3 DEF Counted
<1>5. a2 = IF k \in Recording(e) THEN Attempts(e) + 1 ELSE Attempts(e)
  OBVIOUS
<1>6. a2 < MaxAttempts /\ sends'[e] = sends[e] /\ deaths' = deaths
  OBVIOUS
<1> HIDE DEF s2, r, r2, a2
<1>7. sends'[e] <= a2 + r2 + deaths'
  BY <1>1, <1>2, <1>4, <1>5, <1>6
<1>8. a2 <= MaxAttempts - 1
  BY <1>2, <1>5, <1>6
<1>9. sends'[e] + s2 <= MaxAttempts + (Cardinality(Workers) - 1) + deaths'
  <2>1. /\ sends'[e] \in Int /\ deaths' \in Int /\ a2 \in Int /\ r2 \in Int /\ s2 \in Int
        /\ Cardinality(Workers) \in Int /\ MaxAttempts \in Int
    BY <1>1, <1>2, <1>5, <1>6
  <2> QED BY <1>1, <1>7, <1>8, <2>1, BudgetArithmetic
<1> QED BY <1>7, <1>9 DEF Counted, s2, r2, a2

(* The call itself: the worker changes hands.                              *)
LEMMA SentCounted ==
  ASSUME TypeOK, NEW e \in Events, Counted(e), NEW k \in Workers,
         \A j \in Workers \ {k} : job'[j] = job[j],
         k \in Sending(e), k \notin Recording(e), k \notin Sending(e)', k \in Recording(e)',
         sends'[e] \in Nat, sends'[e] <= sends[e] + 1,
         UNCHANGED <<account, delivery, deaths>>
  PROVE  Counted(e)'
<1> DEFINE s == Cardinality(Sending(e))
           s2 == Cardinality(Sending(e)')
           r == Cardinality(Recording(e))
           r2 == Cardinality(Recording(e)')
<1>1. s \in Nat /\ s2 = s - 1 /\ r \in Nat /\ r2 = r + 1
  BY CardinalityOfHands
<1>2. /\ Attempts(e) \in 0 .. MaxAttempts /\ sends[e] \in Nat /\ deaths \in Nat
      /\ Cardinality(Workers) \in Nat
  BY CountsAreNumbers
<1>3. Attempts(e)' = Attempts(e) /\ deaths' = deaths /\ account' = account
  BY DEF Attempts
<1>4. /\ account /\ Attempts(e) < MaxAttempts => sends[e] <= Attempts(e) + r + deaths
      /\ sends[e] + s <= MaxAttempts + (Cardinality(Workers) - 1) + deaths
  BY DEF Counted
<1>5. sends'[e] \in Int /\ sends'[e] <= sends[e] + 1
  OBVIOUS
<1> HIDE DEF s, s2, r, r2
<1>6. account /\ Attempts(e) < MaxAttempts => sends'[e] <= Attempts(e) + r2 + deaths
  BY <1>1, <1>2, <1>4, <1>5, BudgetArithmetic
<1>7. sends'[e] + s2 <= MaxAttempts + (Cardinality(Workers) - 1) + deaths
  BY <1>1, <1>2, <1>4, <1>5, BudgetArithmetic
<1> QED BY <1>3, <1>6, <1>7 DEF Counted, s2, r2

(* A step of no worker, with the row as it was.                            *)
LEMMA QuietCounted ==
  ASSUME NEW e \in Events, Counted(e), UNCHANGED <<job, sends, deaths>>,
         account' => account /\ Attempts(e)' = Attempts(e)
  PROVE  Counted(e)'
BY DEF Counted, Sending, Recording, At, Busy, EventAt

-----------------------------------------------------------------------------
(* What the steps of a worker do to its run and to the delivery rows.      *)

LEMMA EventInHand ==
  ASSUME TypeOK, OnlyRaised, NEW k \in Workers, Busy(k)
  PROVE  job[k] \in Runs /\ EventAt(k) \in Events /\ EventAt(k) <= raised
<1>1. job[k] \in Runs
  BY DEF TypeOK, Busy
<1>2. job[k].todo \in Seq(Events) /\ job[k].todo # <<>>
  BY <1>1 DEF Runs
<1>3. Head(job[k].todo) \in Events /\ Head(job[k].todo) = job[k].todo[1]
      /\ 1 \in DOMAIN job[k].todo
  BY <1>2
<1> QED BY <1>1, <1>3 DEF OnlyRaised, EventAt

LEMMA RunEnds ==
  ASSUME TypeOK, NEW k \in Workers, job' = [job EXCEPT ![k] = Null]
  PROVE  /\ job' \in [Workers -> Runs \cup {Null}]
         /\ \A j \in Workers \ {k} : job'[j] = job[j]
         /\ ~Busy(k)'
BY DEF TypeOK, Busy

LEMMA RunTurns ==
  ASSUME TypeOK, OnlyRaised, NEW k \in Workers, Busy(k), NextEvent(k)
  PROVE  /\ job' \in [Workers -> Runs \cup {Null}]
         /\ \A j \in Workers \ {k} : job'[j] = job[j]
         /\ Busy(k)' => /\ job'[k].at = "screen" /\ job'[k].answer = Null
                        /\ \A i \in DOMAIN job'[k].todo : job'[k].todo[i] <= raised
<1>1. job[k] \in Runs
  BY EventInHand
<1>2. job[k].todo \in Seq(Events) /\ job[k].todo # <<>>
  BY <1>1 DEF Runs
<1>3. \A j \in Workers \ {k} : job'[j] = job[j]
  BY DEF TypeOK, NextEvent
<1>4. CASE Len(job[k].todo) = 1
  <2>1. job' = [job EXCEPT ![k] = Null]
    BY <1>4 DEF NextEvent
  <2> QED BY <2>1, <1>3, RunEnds
<1>5. CASE Len(job[k].todo) # 1
  <2> DEFINE rest == Tail(job[k].todo)
             run == [job[k] EXCEPT !.todo = rest, !.at = "screen", !.answer = Null]
  <2>1. job' = [job EXCEPT ![k] = run]
    BY <1>5 DEF NextEvent
  <2>2. rest \in Seq(Events) /\ rest # <<>>
    <3>1. rest \in Seq(Events)
      BY <1>2
    <3>2. Len(rest) # 0
      BY <1>2, <1>5
    <3> HIDE DEF rest
    <3>3. rest # <<>>
      BY <3>2
    <3> QED BY <3>1, <3>3
  <2>3. \A i \in DOMAIN rest : rest[i] <= raised
    <3>1. \A i \in DOMAIN rest : i + 1 \in DOMAIN job[k].todo /\ rest[i] = job[k].todo[i + 1]
      BY <1>2
    <3> QED BY <3>1 DEF OnlyRaised
  <2>4. run \in Runs /\ run.at = "screen" /\ run.answer = Null /\ run.todo = rest
    <3> HIDE DEF rest
    <3> QED BY <1>1, <2>2 DEF Runs, Places
  <2>5. job'[k] = run /\ job' \in [Workers -> Runs \cup {Null}]
    <3> HIDE DEF run
    <3> QED BY <2>1, <2>4 DEF TypeOK
  <2> QED BY <1>3, <2>3, <2>4, <2>5
<1> QED BY <1>4, <1>5

LEMMA RunGoesOn ==
  ASSUME TypeOK, OnlyRaised, NEW k \in Workers, Busy(k),
         NEW step \in Places, NEW answer \in Outcomes \cup {Null},
         job' = [job EXCEPT ![k] = [@ EXCEPT !.at = step, !.answer = answer]]
  PROVE  /\ job' \in [Workers -> Runs \cup {Null}]
         /\ \A j \in Workers \ {k} : job'[j] = job[j]
         /\ Busy(k)' /\ job'[k].at = step /\ job'[k].answer = answer
         /\ job'[k].todo = job[k].todo
         /\ \A i \in DOMAIN job'[k].todo : job'[k].todo[i] <= raised
<1> DEFINE run == [job[k] EXCEPT !.at = step, !.answer = answer]
<1>1. job[k] \in Runs
  BY EventInHand
<1>2. run \in Runs /\ run.at = step /\ run.answer = answer /\ run.todo = job[k].todo
  BY <1>1 DEF Runs
<1>3. job' = [job EXCEPT ![k] = run]
  OBVIOUS
<1> HIDE DEF run
<1>4. job'[k] = run /\ job' \in [Workers -> Runs \cup {Null}]
      /\ \A j \in Workers \ {k} : job'[j] = job[j]
  BY <1>2, <1>3 DEF TypeOK
<1> QED BY <1>2, <1>4 DEF Busy, OnlyRaised

LEMMA RunGoesTo ==
  ASSUME TypeOK, OnlyRaised, NEW k \in Workers, Busy(k), NEW step \in Places, Goto(k, step)
  PROVE  /\ job' \in [Workers -> Runs \cup {Null}]
         /\ \A j \in Workers \ {k} : job'[j] = job[j]
         /\ Busy(k)' /\ job'[k].at = step /\ job'[k].answer = job[k].answer
         /\ job'[k].todo = job[k].todo
         /\ \A i \in DOMAIN job'[k].todo : job'[k].todo[i] <= raised
<1>1. job[k] \in Runs
  BY EventInHand
<1>2. [job[k] EXCEPT !.at = step] = [job[k] EXCEPT !.at = step, !.answer = job[k].answer]
  BY <1>1 DEF Runs
<1>3. job' = [job EXCEPT ![k] = [@ EXCEPT !.at = step, !.answer = job[k].answer]]
  BY <1>2 DEF Goto
<1>4. job[k].answer \in Outcomes \cup {Null}
  BY <1>1 DEF Runs
<1> QED BY <1>3, <1>4, RunGoesOn

LEMMA RowIsWritten ==
  ASSUME TypeOK, NEW e \in Events,
         NEW status \in {"SENT", "FAILED", "SUPPRESSED", "DEAD_LETTER"},
         Attempted(e, status)
  PROVE  /\ delivery' \in [Events -> Rows \cup {Null}]
         /\ \A f \in Events \ {e} : delivery'[f] = delivery[f] /\ Attempts(f)' = Attempts(f)
         /\ Attempts(e)' = delivery'[e].attempts
         /\ \/ Attempts(e)' = Attempts(e) + 1
            \/ Attempts(e)' = MaxAttempts /\ Attempts(e) = MaxAttempts
<1>1. delivery[e] \in Rows \cup {Null} /\ delivery \in [Events -> Rows \cup {Null}]
  BY DEF TypeOK
<1> DEFINE n == IF delivery[e] = Null THEN 1 ELSE Up(delivery[e].attempts, MaxAttempts)
           row == [status |-> status, attempts |-> n]
<1>2. Attempts(e) \in 0 .. MaxAttempts
  BY CountsAreNumbers
<1>3. /\ n \in 0 .. MaxAttempts
      /\ n = Attempts(e) + 1 \/ (n = MaxAttempts /\ Attempts(e) = MaxAttempts)
  BY <1>1, <1>2 DEF Attempts, Up
<1>4. delivery' = [delivery EXCEPT ![e] = row]
  BY DEF Attempted
<1> HIDE DEF n
<1>5. row \in Rows /\ row.attempts = n
  BY <1>3 DEF Rows
<1> HIDE DEF row
<1>6. delivery' \in [Events -> Rows \cup {Null}] /\ delivery'[e] = row
      /\ \A f \in Events \ {e} : delivery'[f] = delivery[f]
  BY <1>1, <1>4, <1>5
<1>7. Attempts(e)' = n /\ delivery'[e].attempts = n
  BY <1>5, <1>6 DEF Attempts
<1>8. \A f \in Events \ {e} : Attempts(f)' = Attempts(f)
  BY <1>6 DEF Attempts
<1> QED BY <1>3, <1>6, <1>7, <1>8

-----------------------------------------------------------------------------
(* Each part of the invariant but the counts is kept by a step of one      *)
(* worker that keeps that worker's share of it.                            *)

LEMMA OnlyRaisedKept ==
  ASSUME OnlyRaised, NEW k \in Workers, \A j \in Workers \ {k} : job'[j] = job[j],
         Busy(k)' => \A i \in DOMAIN job'[k].todo : job'[k].todo[i] <= raised,
         raised' = raised, \A e \in Events : e > raised => delivery'[e] = delivery[e]
  PROVE  OnlyRaised'
BY DEF OnlyRaised, Busy

LEMMA AnswersKept ==
  ASSUME AnswersOK, NEW k \in Workers, \A j \in Workers \ {k} : job'[j] = job[j],
         Busy(k)' => /\ job'[k].at = "record" => job'[k].answer # Null
                     /\ job'[k].at = "suppress" => job'[k].answer \in Complaints
                     /\ job'[k].at \notin {"record", "suppress"} =>
                          job'[k].answer \notin Complaints
  PROVE  AnswersOK'
BY DEF AnswersOK, Busy

LEMMA BouncesKept ==
  ASSUME ComplaintsAreKept, NEW k \in Workers,
         \A j \in Workers \ {k} : job'[j] = job[j],
         account' = account, bounced' = bounced, suppression \subseteq suppression',
         deaths' = 0 => deaths = 0,
         Busy(k) /\ job[k].answer \in Complaints =>
           \/ suppression' \cap Complaints # {}
           \/ Busy(k)' /\ job'[k].answer \in Complaints
  PROVE  ComplaintsAreKept'
<1> SUFFICES ASSUME bounced', deaths' = 0, account', suppression' \cap Complaints = {}
             PROVE  \E j \in Workers : Busy(j)' /\ job'[j].answer \in Complaints
  BY DEF ComplaintsAreKept
<1>1. PICK j \in Workers : Busy(j) /\ job[j].answer \in Complaints
  BY DEF ComplaintsAreKept
<1> QED BY <1>1 DEF Busy

(* The step of a worker that does not call the provider: what its run      *)
(* becomes, and what it writes to the row of the event it has in hand.     *)
LEMMA OneEventKept ==
  ASSUME DInv, NEW k \in Workers,
         job' \in [Workers -> Runs \cup {Null}], \A j \in Workers \ {k} : job'[j] = job[j],
         Busy(k)' => /\ \A i \in DOMAIN job'[k].todo : job'[k].todo[i] <= raised
                     /\ job'[k].at = "record" => job'[k].answer # Null
                     /\ job'[k].at = "suppress" => job'[k].answer \in Complaints
                     /\ job'[k].at \notin {"record", "suppress"} =>
                          job'[k].answer \notin Complaints,
         delivery' \in [Events -> Rows \cup {Null}],
         \A e \in Events : ~(Busy(k) /\ e = EventAt(k)) => delivery'[e] = delivery[e],
         UNCHANGED <<account, watch, consent, raised, accepted, observed, changes>>,
         deaths' \in 0 .. MaxDeaths, deaths <= deaths',
         suppression \subseteq suppression',
         Busy(k) /\ job[k].answer \in Complaints =>
           \/ suppression' \cap Complaints # {} \/ ~account \/ deaths' > deaths
           \/ Busy(k)' /\ job'[k].answer \in Complaints
  PROVE  TypeOK' /\ OnlyRaised' /\ AnswersOK' /\ ComplaintsAreKept'
<1>1. TypeOK'
  BY DEF DInv, TypeOK, observed
<1>2. \A e \in Events : e > raised => delivery'[e] = delivery[e]
  <2>1. \A e \in Events : Busy(k) /\ e = EventAt(k) => e <= raised
    BY EventInHand DEF DInv
  <2>2. raised \in Nat /\ \A e \in Events : e \in Nat
    BY DEF DInv, TypeOK, Events
  <2> QED BY <2>1, <2>2
<1>3. OnlyRaised'
  BY <1>2, OnlyRaisedKept DEF DInv
<1>4. AnswersOK'
  BY AnswersKept DEF DInv
<1>5. ComplaintsAreKept'
  <2>1. deaths \in Nat /\ deaths' \in Nat
    BY DEF DInv, TypeOK
  <2>2. CASE deaths' > deaths \/ ~account
    <3>1. deaths' # 0 \/ ~account'
      BY <2>1, <2>2
    <3> QED BY <3>1 DEF ComplaintsAreKept
  <2>3. CASE ~(deaths' > deaths) /\ account
    <3>1. deaths' = deaths /\ bounced' = bounced
      BY <2>1, <2>3 DEF observed
    <3> QED BY <2>3, <3>1, BouncesKept DEF DInv
  <2> QED BY <2>2, <2>3
<1> QED BY <1>1, <1>3, <1>4, <1>5

(* A step after which the worker is not about to call the provider, nor    *)
(* about to record an answer.                                              *)
LEMMA EventDoneCounted ==
  ASSUME DInv, TypeOK', NEW k \in Workers, \A j \in Workers \ {k} : job'[j] = job[j],
         Busy(k)' => job'[k].at \notin {"send", "record"},
         sends' = sends, deaths' >= deaths, account' = account,
         \A e \in Events : account => Attempts(e)' >= Attempts(e),
         At(k, "record") /\ account =>
           \A e \in Events : e = EventAt(k) =>
             \/ Attempts(e)' >= MaxAttempts
             \/ Attempts(e)' >= Attempts(e) + 1
             \/ deaths' >= deaths + 1
  PROVE  SendsCounted'
<1> SUFFICES ASSUME NEW e \in Events PROVE Counted(e)'
  BY DEF SendsCounted
<1>1. Counted(e) /\ TypeOK
  BY DEF DInv, SendsCounted
<1>2. k \notin Sending(e)' /\ k \notin Recording(e)'
  BY DEF Sending, Recording, At
<1>3. k \in Recording(e) => At(k, "record") /\ e = EventAt(k)
  BY DEF Recording
<1>4. k \in Recording(e) /\ account' =>
        \/ Attempts(e)' >= MaxAttempts \/ Attempts(e)' >= Attempts(e) + 1
        \/ deaths' >= deaths + 1
  BY <1>3
<1> QED BY <1>1, <1>2, <1>4, AnsweredCounted

LEMMA OtherEventCounted ==
  ASSUME DInv, TypeOK', NEW k \in Workers, \A j \in Workers \ {k} : job'[j] = job[j],
         Busy(k), Busy(k)' => job'[k].todo = job[k].todo,
         NEW e \in Events, e # EventAt(k), sends'[e] = sends[e],
         UNCHANGED <<deaths, account>>, delivery'[e] = delivery[e]
  PROVE  Counted(e)'
<1>1. Counted(e) /\ TypeOK
  BY DEF DInv, SendsCounted
<1>2. k \notin Recording(e) /\ k \notin Sending(e)' /\ k \notin Recording(e)'
  BY DEF Sending, Recording, At, EventAt
<1>3. Attempts(e)' = Attempts(e) /\ Attempts(e) \in Nat /\ deaths \in Nat
  BY <1>1, CountsAreNumbers DEF Attempts
<1>4. Attempts(e)' >= Attempts(e) /\ deaths' >= deaths
  BY <1>3
<1> QED BY <1>1, <1>2, <1>4, AnsweredCounted

(* A step that brings the worker to the call of the provider.              *)
LEMMA NextTryCounted ==
  ASSUME DInv, TypeOK', NEW k \in Workers, \A j \in Workers \ {k} : job'[j] = job[j],
         Busy(k), Busy(k)', job'[k].todo = job[k].todo,
         job[k].at # "send", job'[k].at = "send",
         sends' = sends, UNCHANGED <<deaths, account>>, account,
         NEW d \in Events, d = EventAt(k),
         \A e \in Events \ {d} : delivery'[e] = delivery[e],
         Attempts(d)' < MaxAttempts,
         Attempts(d)' = IF job[k].at = "record" THEN Attempts(d) + 1 ELSE Attempts(d)
  PROVE  SendsCounted'
<1> SUFFICES ASSUME NEW e \in Events PROVE Counted(e)'
  BY DEF SendsCounted
<1>1. CASE e # d
  BY <1>1, OtherEventCounted
<1>2. CASE e = d
  <2>1. Counted(d) /\ TypeOK
    BY DEF DInv, SendsCounted
  <2>2. /\ k \notin Sending(d) /\ k \in Sending(d)' /\ k \notin Recording(d)'
        /\ k \in Recording(d) <=> job[k].at = "record"
    BY DEF Sending, Recording, At, EventAt
  <2>3. Attempts(d)' = IF k \in Recording(d) THEN Attempts(d) + 1 ELSE Attempts(d)
    BY <2>2
  <2> QED BY <1>2, <2>1, <2>2, <2>3, AboutToSendCounted
<1> QED BY <1>1, <1>2

-----------------------------------------------------------------------------
(* The steps of a worker, one lemma each.                                  *)

LEMMA StartKeepsDInv ==
  ASSUME DInv, NEW k \in Workers, Start(k)
  PROVE  DInv'
<1>1. PICK open \in Policies :
        job' = [job EXCEPT ![k] =
                 [todo |-> [i \in 1 .. raised |-> i], watch |-> watch, open |-> open,
                  at |-> "screen", answer |-> Null]]
  BY DEF Start
<1> DEFINE list == [i \in 1 .. raised |-> i]
           run == [todo |-> list, watch |-> watch, open |-> open,
                   at |-> "screen", answer |-> Null]
<1>2. list \in Seq(Events) /\ list # <<>> /\ \A i \in DOMAIN list : list[i] <= raised
  <2>1. raised \in 1 .. MaxEvents
    BY DEF DInv, TypeOK, Start
  <2>2. list \in [1 .. raised -> Events] /\ 1 \in DOMAIN list
    BY <2>1 DEF Events
  <2>3. list \in Seq(Events)
    BY <2>1, <2>2
  <2> QED BY <2>1, <2>2, <2>3
<1>3. watch \in {"ACTIVE", "PAUSED"} /\ open \in BOOLEAN
  BY DEF DInv, TypeOK, Start
<1> HIDE DEF list
<1>4. run \in Runs /\ run.at = "screen" /\ run.answer = Null /\ run.todo = list
  BY <1>2, <1>3 DEF Runs, Places
<1>5. job' = [job EXCEPT ![k] = run]
  BY <1>1 DEF list
<1> HIDE DEF run
<1>6. job' \in [Workers -> Runs \cup {Null}] /\ job'[k] = run
      /\ \A j \in Workers \ {k} : job'[j] = job[j]
  BY <1>4, <1>5 DEF DInv, TypeOK
<1>7. job[k] = Null /\ ~Busy(k)
  BY DEF Start, Busy
<1>8. UNCHANGED <<account, watch, consent, suppression, raised, delivery, accepted,
                  sends, bounced, observed, deaths, changes>>
  BY DEF Start, storeVars, observed
<1>9. TypeOK' /\ OnlyRaised' /\ AnswersOK' /\ ComplaintsAreKept'
  <2>1. deaths' \in 0 .. MaxDeaths /\ delivery' \in [Events -> Rows \cup {Null}]
    BY <1>8 DEF DInv, TypeOK
  <2> QED BY <1>2, <1>4, <1>6, <1>7, <1>8, <2>1, OneEventKept
<1>10. SendsCounted'
  <2> SUFFICES ASSUME NEW e \in Events PROVE Counted(e)'
    BY DEF SendsCounted
  <2>1. k \notin Recording(e) /\ k \notin Sending(e)' /\ k \notin Recording(e)'
    BY <1>4, <1>6, <1>7 DEF Recording, Sending, At
  <2>2. sends'[e] = sends[e] /\ deaths' >= deaths /\ account' = account
        /\ Attempts(e)' >= Attempts(e)
    <3>1. Attempts(e)' = Attempts(e) /\ Attempts(e) \in Nat /\ deaths \in Nat
      BY <1>8, CountsAreNumbers DEF DInv, Attempts
    <3> QED BY <1>8, <3>1
  <2>3. Counted(e)
    BY DEF DInv, SendsCounted
  <2> QED BY <1>6, <1>9, <2>1, <2>2, <2>3, AnsweredCounted DEF DInv
<1> QED BY <1>9, <1>10 DEF DInv

LEMMA ScreenKeepsDInv ==
  ASSUME DInv, NEW k \in Workers, Screen(k)
  PROVE  DInv'
<1>1. PICK step \in {"suppressed", "ensure"} : Goto(k, step)
  BY DEF Screen
<1>2. Busy(k) /\ job[k].at = "screen" /\ step \in Places
  BY DEF Screen, At, Places
<1>3. /\ job' \in [Workers -> Runs \cup {Null}]
      /\ \A j \in Workers \ {k} : job'[j] = job[j]
      /\ Busy(k)' /\ job'[k].at = step /\ job'[k].answer = job[k].answer
      /\ \A i \in DOMAIN job'[k].todo : job'[k].todo[i] <= raised
  BY <1>1, <1>2, RunGoesTo DEF DInv
<1>4. UNCHANGED <<account, watch, consent, suppression, raised, delivery, accepted,
                  sends, observed, deaths, changes>>
  BY DEF Screen, storeVars, observed
<1>5. TypeOK' /\ OnlyRaised' /\ AnswersOK' /\ ComplaintsAreKept'
  <2>1. deaths' \in 0 .. MaxDeaths /\ delivery' \in [Events -> Rows \cup {Null}]
    BY <1>4 DEF DInv, TypeOK
  <2>2. job[k].answer \notin Complaints
    BY <1>2 DEF DInv, AnswersOK
  <2> QED BY <1>2, <1>3, <1>4, <2>1, <2>2, OneEventKept
<1>6. SendsCounted'
  <2>1. \A e \in Events : Attempts(e)' >= Attempts(e)
    BY <1>4, CountsAreNumbers DEF DInv, Attempts
  <2>2. deaths' >= deaths
    BY <1>4 DEF DInv, TypeOK
  <2> QED BY <1>2, <1>3, <1>4, <1>5, <2>1, <2>2, EventDoneCounted DEF At
<1> QED BY <1>5, <1>6 DEF DInv

(* A step that ends the worker's dealing with its event, or its run, with  *)
(* or without an attempt recorded.                                         *)
LEMMA EventLeft ==
  ASSUME DInv, NEW k \in Workers, Busy(k),
         NextEvent(k) \/ job' = [job EXCEPT ![k] = Null],
         \/ UNCHANGED delivery
         \/ \E status \in {"SENT", "FAILED", "SUPPRESSED", "DEAD_LETTER"} :
              Attempted(EventAt(k), status)
         \/ delivery[EventAt(k)] = Null
            /\ delivery' = [delivery EXCEPT ![EventAt(k)] =
                             [status |-> "PENDING", attempts |-> 0]],
         job[k].at = "record" /\ account =>
           \E status \in {"SENT", "FAILED", "SUPPRESSED", "DEAD_LETTER"} :
             Attempted(EventAt(k), status),
         UNCHANGED <<account, watch, consent, raised, accepted, observed, deaths, changes>>,
         suppression \subseteq suppression',
         job[k].answer \in Complaints => suppression' \cap Complaints # {} \/ ~account
  PROVE  DInv'
<1>0. PICK d \in Events : d = EventAt(k)
  BY EventInHand DEF DInv
<1>1. d \in Events /\ d <= raised /\ TypeOK /\ OnlyRaised
  BY <1>0, EventInHand DEF DInv
<1>2. /\ job' \in [Workers -> Runs \cup {Null}]
      /\ \A j \in Workers \ {k} : job'[j] = job[j]
      /\ Busy(k)' => /\ job'[k].at = "screen" /\ job'[k].answer = Null
                     /\ \A i \in DOMAIN job'[k].todo : job'[k].todo[i] <= raised
  BY <1>1, RunTurns, RunEnds
<1>3. \A e \in Events : Attempts(e) \in 0 .. MaxAttempts
  BY <1>1, CountsAreNumbers
<1>4. /\ delivery' \in [Events -> Rows \cup {Null}]
      /\ \A e \in Events \ {d} : delivery'[e] = delivery[e]
      /\ Attempts(d)' >= Attempts(d)
      /\ job[k].at = "record" /\ account =>
           Attempts(d)' >= MaxAttempts \/ Attempts(d)' >= Attempts(d) + 1
  <2>1. CASE \E status \in {"SENT", "FAILED", "SUPPRESSED", "DEAD_LETTER"} :
               Attempted(d, status)
    <3>1. PICK status \in {"SENT", "FAILED", "SUPPRESSED", "DEAD_LETTER"} :
                 Attempted(d, status)
      BY <2>1
    <3>2. /\ delivery' \in [Events -> Rows \cup {Null}]
          /\ \A e \in Events \ {d} : delivery'[e] = delivery[e]
          /\ \/ Attempts(d)' = Attempts(d) + 1
             \/ Attempts(d)' = MaxAttempts /\ Attempts(d) = MaxAttempts
      BY <1>1, <3>1, RowIsWritten
    <3> QED BY <1>1, <1>3, <3>2
  <2>2. CASE UNCHANGED delivery /\ ~(job[k].at = "record" /\ account)
    <3>1. Attempts(d)' = Attempts(d)
      BY <2>2 DEF Attempts
    <3> QED BY <1>1, <1>3, <2>2, <3>1 DEF TypeOK
  <2>3. CASE /\ ~(job[k].at = "record" /\ account) /\ delivery[d] = Null
             /\ delivery' = [delivery EXCEPT ![d] = [status |-> "PENDING", attempts |-> 0]]
    <3> DEFINE row == [status |-> "PENDING", attempts |-> 0]
    <3>1. row \in Rows /\ row.attempts = 0
      BY DEF Rows
    <3> HIDE DEF row
    <3>2. delivery' = [delivery EXCEPT ![d] = row]
      BY <2>3 DEF row
    <3>3. delivery' \in [Events -> Rows \cup {Null}] /\ delivery'[d] = row
          /\ \A e \in Events \ {d} : delivery'[e] = delivery[e]
      BY <1>1, <3>1, <3>2 DEF TypeOK
    <3>4. Attempts(d) = 0 /\ Attempts(d)' = 0
      BY <2>3, <3>1, <3>3 DEF Attempts
    <3> QED BY <2>3, <3>3, <3>4
  <2> QED BY <1>0, <2>1, <2>2, <2>3
<1>5. deaths' \in 0 .. MaxDeaths /\ deaths <= deaths' /\ sends' = sends
  BY <1>1 DEF TypeOK, observed
<1>6. TypeOK' /\ OnlyRaised' /\ AnswersOK' /\ ComplaintsAreKept'
  <2>1. \A e \in Events : ~(Busy(k) /\ e = EventAt(k)) => delivery'[e] = delivery[e]
    BY <1>0, <1>4
  <2>2. Null \notin Complaints
    OBVIOUS
  <2> QED BY <1>2, <1>4, <1>5, <2>1, <2>2, OneEventKept
<1>7. SendsCounted'
  <2>1. \A e \in Events : Attempts(e)' >= Attempts(e)
    <3>1. \A e \in Events \ {d} : Attempts(e)' = Attempts(e)
      BY <1>0, <1>4 DEF Attempts
    <3>2. \A e \in Events \ {d} : Attempts(e)' >= Attempts(e)
      BY <1>3, <3>1
    <3> QED BY <1>4, <3>2
  <2>2. At(k, "record") /\ account =>
          \A e \in Events : e = EventAt(k) =>
            Attempts(e)' >= MaxAttempts \/ Attempts(e)' >= Attempts(e) + 1
    BY <1>0, <1>4 DEF At
  <2>3. Busy(k)' => job'[k].at \notin {"send", "record"}
    BY <1>2
  <2> QED BY <1>2, <1>5, <1>6, <2>1, <2>2, <2>3, EventDoneCounted
<1> QED BY <1>6, <1>7 DEF DInv

LEMMA RecordSuppressedKeepsDInv ==
  ASSUME DInv, NEW k \in Workers, RecordSuppressed(k)
  PROVE  DInv'
<1>1. Busy(k) /\ job[k].at = "suppressed" /\ NextEvent(k)
  BY DEF RecordSuppressed, At
<1>2. job[k].answer \notin Complaints
  BY <1>1 DEF DInv, AnswersOK
<1>3. UNCHANGED <<account, watch, consent, suppression, raised, accepted, observed,
                  deaths, changes>>
  BY DEF RecordSuppressed
<1>4. Attempted(EventAt(k), "SUPPRESSED") \/ UNCHANGED delivery
  BY DEF RecordSuppressed
<1> QED BY <1>1, <1>2, <1>3, <1>4, EventLeft

LEMMA RecordDuplicateKeepsDInv ==
  ASSUME DInv, NEW k \in Workers, RecordDuplicate(k)
  PROVE  DInv'
<1>1. Busy(k) /\ job[k].at = "duplicate"
      /\ (NextEvent(k) \/ job' = [job EXCEPT ![k] = Null])
  BY DEF RecordDuplicate, At
<1>2. job[k].answer \notin Complaints
  BY <1>1 DEF DInv, AnswersOK
<1>3. UNCHANGED <<account, watch, consent, suppression, raised, accepted, observed,
                  deaths, changes>>
  BY DEF RecordDuplicate
<1>4. Attempted(EventAt(k), "SENT") \/ UNCHANGED delivery
  BY DEF RecordDuplicate
<1> QED BY <1>1, <1>2, <1>3, <1>4, EventLeft

LEMMA SuppressKeepsDInv ==
  ASSUME DInv, NEW k \in Workers, Suppress(k)
  PROVE  DInv'
<1>1. Busy(k) /\ job[k].at = "suppress"
      /\ (NextEvent(k) \/ job' = [job EXCEPT ![k] = Null])
  BY DEF Suppress, At
<1>2. job[k].answer \in Complaints
  BY <1>1 DEF DInv, AnswersOK
<1>3. UNCHANGED <<account, watch, consent, raised, delivery, accepted, observed,
                  deaths, changes>>
  BY DEF Suppress
<1>4. suppression \subseteq suppression'
      /\ (account => suppression' = suppression \cup {job[k].answer})
  BY DEF Suppress
<1>5. suppression' \cap Complaints # {} \/ ~account
  BY <1>2, <1>4
<1> QED BY <1>1, <1>3, <1>4, <1>5, EventLeft

LEMMA DieKeepsDInv ==
  ASSUME DInv, NEW k \in Workers, Die(k)
  PROVE  DInv'
<1>1. Busy(k) /\ job' = [job EXCEPT ![k] = Null] /\ deaths' = deaths + 1
      /\ deaths < MaxDeaths
  BY DEF Die
<1>2. UNCHANGED <<account, watch, consent, suppression, raised, delivery, accepted,
                  sends, observed, changes>>
  BY DEF Die, storeVars, observed
<1>3. TypeOK /\ deaths \in Nat /\ deaths' \in 0 .. MaxDeaths /\ deaths' > deaths
  BY <1>1 DEF DInv, TypeOK
<1>4. /\ job' \in [Workers -> Runs \cup {Null}]
      /\ \A j \in Workers \ {k} : job'[j] = job[j]
      /\ ~Busy(k)'
  BY <1>1, <1>3, RunEnds
<1>5. TypeOK' /\ OnlyRaised' /\ AnswersOK' /\ ComplaintsAreKept'
  <2>1. delivery' \in [Events -> Rows \cup {Null}] /\ deaths <= deaths'
    BY <1>2, <1>3 DEF TypeOK
  <2> QED BY <1>2, <1>3, <1>4, <2>1, OneEventKept
<1>6. SendsCounted'
  <2>1. \A e \in Events : Attempts(e)' >= Attempts(e)
    BY <1>2, <1>3, CountsAreNumbers DEF Attempts
  <2>2. deaths' >= deaths /\ deaths' >= deaths + 1
    BY <1>1, <1>3
  <2> QED BY <1>2, <1>4, <1>5, <2>1, <2>2, EventDoneCounted
<1> QED BY <1>5, <1>6 DEF DInv

LEMMA EnsureKeepsDInv ==
  ASSUME DInv, NEW k \in Workers, Ensure(k)
  PROVE  DInv'
<1>0. PICK d \in Events : d = EventAt(k)
  BY EventInHand DEF DInv, Ensure, At
<1> DEFINE fresh == [status |-> "PENDING", attempts |-> 0]
           state == IF delivery[d] = Null THEN fresh ELSE delivery[d]
<1>1. /\ Busy(k) /\ job[k].at = "ensure" /\ TypeOK /\ OnlyRaised /\ d <= raised
      /\ job[k].answer \notin Complaints
  BY <1>0, EventInHand DEF Ensure, At, DInv, AnswersOK
<1>2. UNCHANGED <<account, watch, consent, suppression, raised, accepted, observed,
                  deaths, changes>>
  BY DEF Ensure
<1>3. \/ ~account /\ job' = [job EXCEPT ![k] = Null] /\ UNCHANGED delivery
      \/ /\ account /\ delivery' = [delivery EXCEPT ![d] = state]
         /\ IF AfterEnsure(state) = "next" THEN NextEvent(k)
            ELSE Goto(k, AfterEnsure(state))
  BY <1>0 DEF Ensure
<1>4. state \in Rows /\ fresh \in Rows /\ state.attempts = Attempts(d)
  BY <1>1 DEF TypeOK, Rows, Attempts
<1>5. delivery' = [delivery EXCEPT ![d] = state] =>
        \/ delivery' = delivery
        \/ delivery[d] = Null /\ delivery' = [delivery EXCEPT ![d] = fresh]
  BY <1>1 DEF TypeOK
<1>6. CASE NextEvent(k) \/ job' = [job EXCEPT ![k] = Null]
  BY <1>0, <1>1, <1>2, <1>3, <1>5, <1>6, EventLeft
<1>7. CASE ~(NextEvent(k) \/ job' = [job EXCEPT ![k] = Null])
  <2>1. /\ account /\ delivery' = [delivery EXCEPT ![d] = state]
        /\ AfterEnsure(state) # "next" /\ Goto(k, AfterEnsure(state))
    BY <1>3, <1>7
  <2>2. PICK step \in {"duplicate", "send"} :
          step = AfterEnsure(state) /\ (step = "send" => state.attempts < MaxAttempts)
    BY <2>1 DEF AfterEnsure
  <2> HIDE DEF state, fresh
  <2>3. step \in Places /\ Goto(k, step)
    BY <2>1, <2>2 DEF Places
  <2>4. /\ job' \in [Workers -> Runs \cup {Null}]
        /\ \A j \in Workers \ {k} : job'[j] = job[j]
        /\ Busy(k)' /\ job'[k].at = step /\ job'[k].answer = job[k].answer
        /\ job'[k].todo = job[k].todo
        /\ \A i \in DOMAIN job'[k].todo : job'[k].todo[i] <= raised
    BY <1>1, <2>3, RunGoesTo
  <2>5. /\ delivery' \in [Events -> Rows \cup {Null}] /\ delivery'[d] = state
        /\ \A e \in Events \ {d} : delivery'[e] = delivery[e]
    BY <1>1, <1>4, <2>1 DEF TypeOK
  <2>6. /\ \A e \in Events : Attempts(e)' = Attempts(e)
        /\ \A e \in Events : Attempts(e) \in 0 .. MaxAttempts
    <3>1. Attempts(d)' = Attempts(d)
      BY <1>4, <2>5 DEF Attempts
    <3>2. \A e \in Events \ {d} : Attempts(e)' = Attempts(e)
      BY <2>5 DEF Attempts
    <3> QED BY <1>1, <3>1, <3>2, CountsAreNumbers
  <2>7. sends' = sends /\ deaths' \in 0 .. MaxDeaths /\ deaths <= deaths'
    BY <1>1, <1>2 DEF TypeOK, observed
  <2>8. TypeOK' /\ OnlyRaised' /\ AnswersOK' /\ ComplaintsAreKept'
    <3>1. \A e \in Events : ~(Busy(k) /\ e = EventAt(k)) => delivery'[e] = delivery[e]
      BY <1>0, <1>1, <2>5
    <3> QED BY <1>1, <1>2, <2>4, <2>5, <2>7, <3>1, OneEventKept
  <2>9. SendsCounted'
    <3>1. CASE step = "send"
      <4>1. Attempts(d)' < MaxAttempts /\ job[k].at # "record" /\ job[k].at # "send"
        BY <1>1, <1>4, <2>2, <2>6, <3>1
      <4>2. Attempts(d)' = IF job[k].at = "record" THEN Attempts(d) + 1 ELSE Attempts(d)
        BY <2>6, <4>1
      <4>3. account /\ UNCHANGED <<deaths, account>>
        BY <1>2, <2>1
      <4> QED BY <1>0, <1>1, <2>4, <2>5, <2>7, <2>8, <3>1, <4>1, <4>2, <4>3,
                 NextTryCounted
    <3>2. CASE step = "duplicate"
      <4>1. \A e \in Events : Attempts(e)' >= Attempts(e)
        BY <2>6
      <4> QED BY <1>1, <1>2, <2>4, <2>7, <2>8, <3>2, <4>1, EventDoneCounted DEF At
    <3> QED BY <3>1, <3>2
  <2> QED BY <2>8, <2>9 DEF DInv
<1> QED BY <1>6, <1>7

LEMMA RecordKeepsDInv ==
  ASSUME DInv, NEW k \in Workers, Record(k)
  PROVE  DInv'
<1>0. PICK d \in Events : d = EventAt(k)
  BY EventInHand DEF DInv, Record, At
<1>1. /\ Busy(k) /\ job[k].at = "record" /\ TypeOK /\ OnlyRaised /\ d <= raised
      /\ job[k].answer # Null
  BY <1>0, EventInHand DEF Record, At, DInv, AnswersOK
<1>2. UNCHANGED <<account, watch, consent, suppression, raised, accepted, observed,
                  deaths, changes>>
  BY DEF Record
<1>3. CASE ~account
  <2>1. job' = [job EXCEPT ![k] = Null] /\ UNCHANGED delivery
    BY <1>3 DEF Record
  <2> QED BY <1>1, <1>2, <1>3, <2>1, EventLeft
<1>4. CASE account
  <2>1. PICK status \in {"SENT", "FAILED", "SUPPRESSED", "DEAD_LETTER"} :
          Attempted(d, status)
    BY <1>0, <1>4 DEF Record, StatusOf
  <2>2. /\ delivery' \in [Events -> Rows \cup {Null}]
        /\ \A f \in Events \ {d} : delivery'[f] = delivery[f] /\ Attempts(f)' = Attempts(f)
        /\ Attempts(d)' = delivery'[d].attempts
        /\ \/ Attempts(d)' = Attempts(d) + 1
           \/ Attempts(d)' = MaxAttempts /\ Attempts(d) = MaxAttempts
    BY <1>1, <2>1, RowIsWritten
  <2>3. \A e \in Events : Attempts(e) \in 0 .. MaxAttempts
    BY <1>1, CountsAreNumbers
  <2>4. PICK step \in {"suppress", "send", "next"} :
          /\ step = AfterRecord(job[k].answer, delivery'[d].attempts)
          /\ IF step = "next" THEN NextEvent(k) ELSE Goto(k, step)
    BY <1>0, <1>4 DEF Record, AfterRecord
  <2>5. /\ step = "suppress" <=> job[k].answer \in Complaints
        /\ step = "send" => Attempts(d)' < MaxAttempts
    BY <2>2, <2>4 DEF AfterRecord
  <2>6. CASE step = "next"
    <3>1. NextEvent(k) /\ job[k].answer \notin Complaints
      BY <2>4, <2>5, <2>6
    <3> QED BY <1>0, <1>1, <1>2, <2>1, <3>1, EventLeft
  <2>7. CASE step # "next"
    <3>1. step \in Places /\ Goto(k, step) /\ step \in {"suppress", "send"}
      BY <2>4, <2>7 DEF Places
    <3>2. /\ job' \in [Workers -> Runs \cup {Null}]
          /\ \A j \in Workers \ {k} : job'[j] = job[j]
          /\ Busy(k)' /\ job'[k].at = step /\ job'[k].answer = job[k].answer
          /\ job'[k].todo = job[k].todo
          /\ \A i \in DOMAIN job'[k].todo : job'[k].todo[i] <= raised
      BY <1>1, <3>1, RunGoesTo
    <3>3. sends' = sends /\ deaths' \in 0 .. MaxDeaths /\ deaths <= deaths'
      BY <1>1, <1>2 DEF TypeOK, observed
    <3>4. TypeOK' /\ OnlyRaised' /\ AnswersOK' /\ ComplaintsAreKept'
      <4>1. \A e \in Events : ~(Busy(k) /\ e = EventAt(k)) => delivery'[e] = delivery[e]
        BY <1>0, <1>1, <2>2
      <4> QED BY <1>1, <1>2, <2>2, <2>5, <3>1, <3>2, <3>3, <4>1, OneEventKept
    <3>5. SendsCounted'
      <4>1. CASE step = "send"
        <5>1. Attempts(d)' < MaxAttempts /\ Attempts(d)' = Attempts(d) + 1
          BY <2>2, <2>3, <2>5, <4>1
        <5>2. Attempts(d)' = IF job[k].at = "record" THEN Attempts(d) + 1 ELSE Attempts(d)
          BY <1>1, <5>1
        <5>3. account /\ UNCHANGED <<deaths, account>>
          BY <1>2, <1>4
        <5> QED BY <1>0, <1>1, <2>2, <3>2, <3>3, <3>4, <4>1, <5>1, <5>2, <5>3,
                   NextTryCounted
      <4>2. CASE step = "suppress"
        <5>1. \A e \in Events : Attempts(e)' >= Attempts(e)
          <6>1. Attempts(d)' >= Attempts(d)
            BY <2>2, <2>3
          <6>2. \A e \in Events \ {d} : Attempts(e)' >= Attempts(e)
            BY <2>2, <2>3
          <6> QED BY <6>1, <6>2
        <5>2. Attempts(d)' >= MaxAttempts \/ Attempts(d)' >= Attempts(d) + 1
          BY <2>2, <2>3
        <5> QED BY <1>0, <1>2, <3>2, <3>3, <3>4, <4>2, <5>1, <5>2, EventDoneCounted
      <4> QED BY <3>1, <4>1, <4>2
    <3> QED BY <3>4, <3>5 DEF DInv
  <2> QED BY <2>6, <2>7
<1> QED BY <1>3, <1>4

LEMMA SendKeepsDInv ==
  ASSUME DInv, NEW k \in Workers, Send(k)
  PROVE  DInv'
<1>0. PICK d \in Events : d = EventAt(k)
  BY EventInHand DEF DInv, Send, At
<1>1. /\ Busy(k) /\ job[k].at = "send" /\ TypeOK /\ OnlyRaised
      /\ job[k].answer \notin Complaints
  BY DEF Send, At, DInv, AnswersOK
<1>2. UNCHANGED <<account, watch, consent, suppression, raised, delivery, deaths, changes>>
  BY DEF Send, storeVars
<1>3. sends' = [sends EXCEPT ![d] = Up(@, Cap)]
  BY <1>0 DEF Send
<1>4. PICK outcome \in Outcomes :
        /\ job' = [job EXCEPT ![k].at = "record", ![k].answer = outcome]
        /\ bounced' = (bounced \/ outcome \in Complaints)
  BY <1>0 DEF Send
<1>5. job' = [job EXCEPT ![k] = [@ EXCEPT !.at = "record", !.answer = outcome]]
  BY <1>1, <1>4 DEF TypeOK, Runs, Busy
<1>6. /\ job' \in [Workers -> Runs \cup {Null}]
      /\ \A j \in Workers \ {k} : job'[j] = job[j]
      /\ Busy(k)' /\ job'[k].at = "record" /\ job'[k].answer = outcome
      /\ job'[k].todo = job[k].todo
      /\ \A i \in DOMAIN job'[k].todo : job'[k].todo[i] <= raised
  BY <1>1, <1>5, RunGoesOn DEF Places
<1>7. sends' \in [Events -> 0 .. Cap] /\ sends'[d] <= sends[d] + 1
      /\ \A e \in Events \ {d} : sends'[e] = sends[e]
  <2>1. sends \in [Events -> 0 .. Cap] /\ Cap \in Nat
    <3>1. Cardinality(Workers) \in Nat
      BY FS_CardinalityType
    <3> QED BY <1>1, <3>1 DEF TypeOK, Cap
  <2> DEFINE n == Up(sends[d], Cap)
  <2>2. n \in 0 .. Cap /\ n <= sends[d] + 1
    BY <2>1 DEF Up
  <2>3. sends' = [sends EXCEPT ![d] = n]
    BY <1>3
  <2> HIDE DEF n
  <2> QED BY <2>1, <2>2, <2>3
<1>8. TypeOK'
  BY <1>1, <1>2, <1>4, <1>6, <1>7 DEF TypeOK
<1>9. OnlyRaised'
  BY <1>1, <1>2, <1>6, OnlyRaisedKept
<1>10. AnswersOK'
  BY <1>6, AnswersKept DEF DInv
<1>11. ComplaintsAreKept'
  <2> SUFFICES ASSUME bounced', deaths' = 0, account', suppression' \cap Complaints = {}
               PROVE  \E j \in Workers : Busy(j)' /\ job'[j].answer \in Complaints
    BY DEF ComplaintsAreKept
  <2>1. CASE outcome \in Complaints
    BY <1>6, <2>1
  <2>2. CASE outcome \notin Complaints
    <3>1. PICK j \in Workers : Busy(j) /\ job[j].answer \in Complaints
      BY <1>2, <1>4, <2>2 DEF DInv, ComplaintsAreKept
    <3>2. j # k
      BY <1>1, <3>1
    <3> QED BY <1>6, <3>1, <3>2 DEF Busy
  <2> QED BY <2>1, <2>2
<1>12. SendsCounted'
  <2> SUFFICES ASSUME NEW e \in Events PROVE Counted(e)'
    BY DEF SendsCounted
  <2>1. CASE e # d
    BY <1>0, <1>1, <1>2, <1>6, <1>7, <1>8, <2>1, OtherEventCounted
  <2>2. CASE e = d
    <3>1. /\ k \in Sending(d) /\ k \notin Recording(d)
          /\ k \notin Sending(d)' /\ k \in Recording(d)'
      BY <1>0, <1>1, <1>6 DEF Sending, Recording, At, EventAt
    <3>2. Counted(d) /\ sends'[d] \in Nat
      BY <1>7 DEF DInv, SendsCounted
    <3>3. UNCHANGED <<account, delivery, deaths>>
      BY <1>2
    <3> QED BY <1>1, <1>6, <1>7, <2>2, <3>1, <3>2, <3>3, SentCounted
  <2> QED BY <2>1, <2>2
<1> QED BY <1>8, <1>9, <1>10, <1>11, <1>12 DEF DInv

-----------------------------------------------------------------------------
(* The other steps.                                                        *)

LEMMA RaiseKeepsDInv ==
  ASSUME DInv, Raise
  PROVE  DInv'
<1>1. PICK row \in {Null, [status |-> "PENDING", attempts |-> 0]} :
        delivery' = [delivery EXCEPT ![raised + 1] = row]
  BY DEF Raise
<1>2. /\ TypeOK /\ raised + 1 \in Events /\ raised' = raised + 1 /\ raised \in Nat
      /\ UNCHANGED <<account, watch, consent, suppression, job, sends, bounced,
                     deaths, changes>>
  BY DEF Raise, DInv, TypeOK, Events, observed
<1>3. delivery[raised + 1] = Null
  BY <1>2 DEF DInv, OnlyRaised
<1>4. row \in Rows \cup {Null} /\ (row = Null \/ row.attempts = 0)
  BY DEF Rows
<1>5. delivery' \in [Events -> Rows \cup {Null}] /\ delivery'[raised + 1] = row
      /\ \A e \in Events \ {raised + 1} : delivery'[e] = delivery[e]
  BY <1>1, <1>2, <1>4 DEF TypeOK
<1>6. TypeOK'
  BY <1>2, <1>5 DEF TypeOK, Events
<1>7. OnlyRaised'
  <2>1. \A j \in Workers : Busy(j)' =>
          \A i \in DOMAIN job'[j].todo : job'[j].todo[i] <= raised'
    <3> SUFFICES ASSUME NEW j \in Workers, Busy(j), NEW i \in DOMAIN job[j].todo
                 PROVE  job[j].todo[i] <= raised'
      BY <1>2 DEF Busy
    <3>1. job[j].todo[i] <= raised
      BY DEF DInv, OnlyRaised
    <3>2. job[j].todo[i] \in Nat
      <4>1. job[j] \in Runs
        BY <1>2 DEF TypeOK, Busy
      <4>2. job[j].todo \in Seq(Events)
        BY <4>1 DEF Runs
      <4> QED BY <4>2 DEF Events
    <3> QED BY <1>2, <3>1, <3>2
  <2>2. \A e \in Events : e > raised' => delivery'[e] = Null
    <3> SUFFICES ASSUME NEW e \in Events, e > raised' PROVE delivery'[e] = Null
      OBVIOUS
    <3>1. e \in Nat /\ e > raised /\ e # raised + 1
      BY <1>2 DEF Events
    <3> QED BY <1>5, <3>1 DEF DInv, OnlyRaised
  <2> QED BY <2>1, <2>2 DEF OnlyRaised
<1>8. AnswersOK' /\ ComplaintsAreKept'
  BY <1>2 DEF DInv, AnswersOK, ComplaintsAreKept, Busy
<1>9. SendsCounted'
  <2> SUFFICES ASSUME NEW e \in Events PROVE Counted(e)'
    BY DEF SendsCounted
  <2>1. Attempts(e)' = Attempts(e)
    BY <1>3, <1>4, <1>5 DEF Attempts
  <2>2. Counted(e) /\ UNCHANGED <<job, sends, deaths, account>>
    BY <1>2 DEF DInv, SendsCounted
  <2> QED BY <2>1, <2>2, QuietCounted
<1> QED BY <1>6, <1>7, <1>8, <1>9 DEF DInv

(* Watch, consent and suppression change under the workers' hands.         *)
LEMMA SettingsKeepDInv ==
  ASSUME DInv, watch' \in {"ACTIVE", "PAUSED", "DELETED"}, suppression \subseteq suppression',
         UNCHANGED <<account, raised, delivery, job, accepted, observed, deaths>>
  PROVE  DInv'
<1>1. TypeOK' /\ OnlyRaised' /\ AnswersOK' /\ ComplaintsAreKept'
  BY DEF DInv, TypeOK, OnlyRaised, AnswersOK, ComplaintsAreKept, Busy, observed
<1>2. SendsCounted'
  BY QuietCounted DEF DInv, SendsCounted, Attempts, observed
<1> QED BY <1>1, <1>2 DEF DInv

LEMMA DeleteAccountKeepsDInv ==
  ASSUME DInv, DeleteAccount
  PROVE  DInv'
<1>1. /\ account' = FALSE /\ watch' = "DELETED" /\ delivery' = [e \in Events |-> Null]
      /\ UNCHANGED <<raised, job, sends, bounced, deaths>>
  BY DEF DeleteAccount, observed
<1>2. TypeOK' /\ OnlyRaised' /\ AnswersOK' /\ ComplaintsAreKept'
  BY <1>1 DEF DInv, TypeOK, OnlyRaised, AnswersOK, ComplaintsAreKept, Busy
<1>3. SendsCounted'
  BY <1>1, QuietCounted DEF DInv, SendsCounted
<1> QED BY <1>2, <1>3 DEF DInv

LEMMA StutteringKeepsDInv ==
  ASSUME DInv, UNCHANGED vars
  PROVE  DInv'
BY SettingsKeepDInv DEF vars, storeVars, DInv, TypeOK

LEMMA InitDInv == Init => DInv
<1> SUFFICES ASSUME Init PROVE DInv
  OBVIOUS
<1>1. Cardinality(Workers) \in Nat /\ Cap \in Nat
  BY FS_CardinalityType DEF Cap
<1>2. TypeOK
  <2>1. delivery \in [Events -> Rows \cup {Null}] /\ job \in [Workers -> Runs \cup {Null}]
    BY DEF Init
  <2>2. sends \in [Events -> 0 .. Cap]
    BY <1>1 DEF Init
  <2>3. 0 \in 0 .. MaxEvents /\ 0 \in 0 .. MaxDeaths
    OBVIOUS
  <2> QED BY <2>1, <2>2, <2>3 DEF Init, TypeOK
<1>3. OnlyRaised /\ AnswersOK /\ ComplaintsAreKept
  BY DEF Init, OnlyRaised, AnswersOK, ComplaintsAreKept, Busy
<1>4. SendsCounted
  <2> SUFFICES ASSUME NEW e \in Events PROVE Counted(e)
    BY DEF SendsCounted
  <2>1. Sending(e) = {} /\ Recording(e) = {}
    BY DEF Init, Sending, Recording, At, Busy
  <2>2. Cardinality(Sending(e)) = 0 /\ Cardinality(Recording(e)) = 0
    BY <2>1, FS_EmptySet
  <2>3. sends[e] = 0 /\ deaths = 0 /\ Attempts(e) = 0
    BY DEF Init, Attempts
  <2> QED BY <1>1, <2>2, <2>3 DEF Counted
<1> QED BY <1>2, <1>3, <1>4 DEF DInv

LEMMA NextKeepsDInv ==
  ASSUME DInv, [Next]_vars
  PROVE  DInv'
<1>1. CASE UNCHANGED vars
  BY <1>1, StutteringKeepsDInv
<1>2. ASSUME NEW k \in Workers, Start(k) \/ Work(k) \/ Die(k) PROVE DInv'
  BY <1>2, StartKeepsDInv, ScreenKeepsDInv, RecordSuppressedKeepsDInv, EnsureKeepsDInv,
     RecordDuplicateKeepsDInv, SendKeepsDInv, RecordKeepsDInv, SuppressKeepsDInv,
     DieKeepsDInv DEF Work
<1>3. CASE Raise
  BY <1>3, RaiseKeepsDInv
<1>4. ASSUME NEW to \in {"ACTIVE", "PAUSED", "DELETED"}, ChangeWatch(to) PROVE DInv'
  BY <1>4, SettingsKeepDInv DEF ChangeWatch
<1>5. CASE RequestConsent \/ VerifyConsent \/ Unsubscribe
  BY <1>5, SettingsKeepDInv DEF RequestConsent, VerifyConsent, Unsubscribe, DInv, TypeOK
<1>6. CASE DeleteAccount
  BY <1>6, DeleteAccountKeepsDInv
<1> QED BY <1>1, <1>2, <1>3, <1>4, <1>5, <1>6 DEF Next

-----------------------------------------------------------------------------

(* Every reachable state of the delivery satisfies the invariant: types,   *)
(* runs over raised events, answers that are remembered until they are     *)
(* recorded, and every call of the provider accounted for.                 *)
THEOREM DeliveryInductive == Spec => []DInv
<1>1. Init => DInv
  BY InitDInv
<1>2. DInv /\ [Next]_vars => DInv'
  BY NextKeepsDInv
<1> QED BY <1>1, <1>2, PTL DEF Spec

(* deliverOne reads a row's attempts before it sends and counts them after *)
(* it: with workers that overlap and die, provider.send is called for an   *)
(* event at most maxAttempts times plus one for every other worker and     *)
(* every death.                                                            *)
THEOREM SendsStayWithinTheBudget == Spec => []BoundedSends
<1>1. DInv => BoundedSends
  <2> SUFFICES ASSUME DInv, NEW e \in Events
               PROVE  sends[e] <= MaxAttempts + (Cardinality(Workers) - 1) + deaths
    BY DEF BoundedSends
  <2>1. /\ sends[e] \in Nat /\ deaths \in Nat /\ Cardinality(Workers) \in Nat
        /\ Cardinality(Sending(e)) \in Nat
    <3>1. Sending(e) \in SUBSET Workers
      BY DEF Sending
    <3> QED BY <3>1, CountsAreNumbers, WorkerSetsFinite DEF DInv
  <2>2. sends[e] + Cardinality(Sending(e))
          <= MaxAttempts + (Cardinality(Workers) - 1) + deaths
    BY DEF DInv, SendsCounted, Counted
  <2> QED BY <2>1, <2>2
<1> QED BY <1>1, DeliveryInductive, PTL

-----------------------------------------------------------------------------
(* What a worker may still mail to a suppressed address.                   *)

(* A worker that mailed one event to it is done with that event: it has    *)
(* the answer in hand, or is before the next event's screening, or held by *)
(* it; and the suppression lasts as long as the account.                   *)
Stopped(k) ==
  afterwards[k] # 0 =>
    /\ ~account \/ suppression # {}
    /\ Busy(k) => \/ job[k].at \in {"screen", "suppressed"}
                  \/ job[k].at = "record" /\ job[k].answer = "ACCEPTED"

HInv ==
  /\ afterwards = [k \in Workers |-> afterwards[k]]
  /\ StopsWithTheEventInHand
  /\ \A k \in Workers : afterwards[k] \in Nat /\ Stopped(k)

(* A step of one worker that mails nothing to a suppressed address.        *)
LEMMA OthersStayStopped ==
  ASSUME DInv, HInv, NEW k \in Workers, UNCHANGED <<account, afterwards>>,
         suppression \subseteq suppression',
         \A j \in Workers \ {k} : job'[j] = job[j],
         Stopped(k)'
  PROVE  HInv'
<1>1. StopsWithTheEventInHand' /\ afterwards' = [j \in Workers |-> afterwards'[j]]
  BY DEF HInv, StopsWithTheEventInHand
<1>2. \A j \in Workers \ {k} : Stopped(j)'
  BY DEF HInv, Stopped, Busy
<1> QED BY <1>1, <1>2 DEF HInv

LEMMA RunAt ==
  ASSUME DInv, NEW k \in Workers, Busy(k)
  PROVE  /\ \A step : Goto(k, step) =>
              /\ \A j \in Workers \ {k} : job'[j] = job[j]
              /\ job'[k].at = step /\ job'[k].answer = job[k].answer
         /\ NextEvent(k) => /\ \A j \in Workers \ {k} : job'[j] = job[j]
                            /\ Busy(k)' => job'[k].at = "screen"
<1>1. job \in [Workers -> Runs \cup {Null}] /\ job[k] \in Runs
  BY DEF DInv, TypeOK, Busy
<1>2. job[k] = [todo |-> job[k].todo, watch |-> job[k].watch, open |-> job[k].open,
                at |-> job[k].at, answer |-> job[k].answer]
  BY <1>1 DEF Runs
<1>3. ASSUME NEW step, Goto(k, step)
      PROVE  /\ \A j \in Workers \ {k} : job'[j] = job[j]
             /\ job'[k].at = step /\ job'[k].answer = job[k].answer
  BY <1>1, <1>2, <1>3 DEF Goto
<1>4. ASSUME NextEvent(k)
      PROVE  /\ \A j \in Workers \ {k} : job'[j] = job[j]
             /\ Busy(k)' => job'[k].at = "screen"
  BY <1>1, <1>2, <1>4 DEF NextEvent, Busy
<1> QED BY <1>3, <1>4

LEMMA EndsOfRuns ==
  ASSUME DInv, NEW k \in Workers, job' = [job EXCEPT ![k] = Null]
  PROVE  ~Busy(k)' /\ \A j \in Workers \ {k} : job'[j] = job[j]
BY DEF DInv, TypeOK, Busy

LEMMA WorkKeepsHInv ==
  ASSUME DInv, HInv, NEW k \in Workers, Work(k) \/ Start(k) \/ Die(k)
  PROVE  HInv'
<1>1. CASE Start(k)
  <2>1. UNCHANGED <<account, suppression, afterwards>>
    BY <1>1 DEF Start, storeVars, observed
  <2>2. job'[k].at = "screen" /\ \A j \in Workers \ {k} : job'[j] = job[j]
    BY <1>1 DEF Start, DInv, TypeOK
  <2> QED BY <2>1, <2>2, OthersStayStopped DEF HInv, Stopped
<1>2. CASE Die(k)
  <2>1. UNCHANGED <<account, suppression, afterwards>> /\ job' = [job EXCEPT ![k] = Null]
    BY <1>2 DEF Die, storeVars, observed
  <2> QED BY <2>1, EndsOfRuns, OthersStayStopped DEF HInv, Stopped
<1>3. CASE Screen(k)
  <2>1. UNCHANGED <<account, suppression, afterwards>> /\ Busy(k)
        /\ Goto(k, IF Suppressed(k) THEN "suppressed" ELSE "ensure")
    BY <1>3 DEF Screen, storeVars, observed, At
  <2>2. afterwards[k] # 0 => Suppressed(k)
    BY DEF HInv, Stopped, Suppressed
  <2>3. /\ \A j \in Workers \ {k} : job'[j] = job[j]
        /\ job'[k].at = IF Suppressed(k) THEN "suppressed" ELSE "ensure"
    BY <2>1, RunAt
  <2> QED BY <2>1, <2>2, <2>3, OthersStayStopped DEF HInv, Stopped
<1>4. CASE RecordSuppressed(k)
  <2>1. UNCHANGED <<account, suppression, afterwards>> /\ Busy(k) /\ NextEvent(k)
    BY <1>4 DEF RecordSuppressed, observed, At
  <2> QED BY <2>1, RunAt, OthersStayStopped DEF HInv, Stopped
<1>5. CASE Ensure(k) \/ RecordDuplicate(k)
  <2>1. UNCHANGED <<account, suppression, afterwards>> /\ Busy(k)
        /\ job[k].at \in {"ensure", "duplicate"}
    BY <1>5 DEF Ensure, RecordDuplicate, observed, At
  <2>2. afterwards[k] = 0
    BY <2>1 DEF HInv, Stopped
  <2>3. \/ job' = [job EXCEPT ![k] = Null] \/ NextEvent(k)
        \/ \E step : Goto(k, step)
    BY <1>5 DEF Ensure, RecordDuplicate
  <2>4. \A j \in Workers \ {k} : job'[j] = job[j]
    BY <2>1, <2>3, RunAt, EndsOfRuns
  <2> QED BY <2>1, <2>2, <2>4, OthersStayStopped DEF Stopped
<1>6. CASE Send(k)
  <2>1. /\ UNCHANGED <<account, suppression>> /\ Busy(k) /\ job[k].at = "send"
    BY <1>6 DEF Send, storeVars, At
  <2>2. afterwards[k] = 0
    BY <2>1 DEF HInv, Stopped
  <2>3. PICK outcome \in Outcomes :
          /\ job' = [job EXCEPT ![k].at = "record", ![k].answer = outcome]
          /\ \/ afterwards' = afterwards
             \/ /\ outcome = "ACCEPTED" /\ suppression # {}
                /\ afterwards' = [afterwards EXCEPT ![k] = Up(@, 2)]
    BY <1>6 DEF Send
  <2>4. job[k] = [todo |-> job[k].todo, watch |-> job[k].watch, open |-> job[k].open,
                  at |-> job[k].at, answer |-> job[k].answer]
    BY <2>1 DEF DInv, TypeOK, Runs, Busy
  <2>5. /\ \A j \in Workers \ {k} : job'[j] = job[j]
        /\ job'[k].at = "record" /\ job'[k].answer = outcome
    BY <2>3, <2>4 DEF DInv, TypeOK
  <2>6. CASE afterwards' = afterwards
    BY <2>1, <2>2, <2>5, <2>6, OthersStayStopped DEF Stopped
  <2>7. CASE outcome = "ACCEPTED" /\ suppression # {} /\ afterwards' = [afterwards EXCEPT ![k] = Up(@, 2)]
    <3>1. /\ afterwards' = [j \in Workers |-> afterwards'[j]]
          /\ afterwards'[k] = 1 /\ \A j \in Workers \ {k} : afterwards'[j] = afterwards[j]
      BY <2>2, <2>7 DEF HInv, Up
    <3>2. StopsWithTheEventInHand' /\ \A j \in Workers : afterwards'[j] \in Nat
      BY <3>1 DEF HInv, StopsWithTheEventInHand
    <3>3. Stopped(k)'
      BY <2>1, <2>5, <2>7 DEF Stopped
    <3>4. \A j \in Workers \ {k} : Stopped(j)'
      BY <2>1, <2>5, <3>1 DEF HInv, Stopped, Busy
    <3> QED BY <3>1, <3>2, <3>3, <3>4 DEF HInv
  <2> QED BY <2>3, <2>6, <2>7
<1>7. CASE Record(k)
  <2>1. UNCHANGED <<account, suppression, afterwards>> /\ Busy(k) /\ job[k].at = "record"
    BY <1>7 DEF Record, observed, At
  <2>2. \/ job' = [job EXCEPT ![k] = Null] \/ NextEvent(k)
        \/ \E attempts : /\ AfterRecord(job[k].answer, attempts) # "next"
                         /\ Goto(k, AfterRecord(job[k].answer, attempts))
    BY <1>7 DEF Record
  <2>3. job[k].answer = "ACCEPTED" => \A attempts : AfterRecord(job[k].answer, attempts) = "next"
    BY DEF AfterRecord, Complaints
  <2>4. CASE job' = [job EXCEPT ![k] = Null] \/ NextEvent(k)
    BY <2>1, <2>4, RunAt, EndsOfRuns, OthersStayStopped DEF HInv, Stopped
  <2>5. CASE \E step : Goto(k, step) /\ job[k].answer # "ACCEPTED"
    <3>1. afterwards[k] = 0
      BY <2>1, <2>5 DEF HInv, Stopped
    <3>2. \A j \in Workers \ {k} : job'[j] = job[j]
      BY <2>1, <2>5, RunAt
    <3> QED BY <2>1, <3>1, <3>2, OthersStayStopped DEF Stopped
  <2> QED BY <2>2, <2>3, <2>4, <2>5
<1>8. CASE Suppress(k)
  <2>1. /\ UNCHANGED <<account, afterwards>> /\ Busy(k) /\ job[k].at = "suppress"
        /\ suppression \subseteq suppression'
    BY <1>8 DEF Suppress, observed, At
  <2>2. afterwards[k] = 0
    BY <2>1 DEF HInv, Stopped
  <2>3. job' = [job EXCEPT ![k] = Null] \/ NextEvent(k)
    BY <1>8 DEF Suppress
  <2>4. \A j \in Workers \ {k} : job'[j] = job[j]
    BY <2>1, <2>3, RunAt, EndsOfRuns
  <2> QED BY <2>1, <2>2, <2>4, OthersStayStopped DEF Stopped
<1> QED BY <1>1, <1>2, <1>3, <1>4, <1>5, <1>6, <1>7, <1>8 DEF Work

LEMMA NextKeepsHInv == ASSUME DInv, HInv, [Next]_vars PROVE HInv'
<1>1. ASSUME UNCHANGED <<job, afterwards>>,
             \/ account' = FALSE
             \/ suppression \subseteq suppression' /\ UNCHANGED account
      PROVE  HInv'
  BY <1>1 DEF HInv, StopsWithTheEventInHand, Stopped, Busy
<1>2. CASE UNCHANGED vars
  BY <1>1, <1>2 DEF vars, storeVars, observed
<1>3. ASSUME NEW k \in Workers, Start(k) \/ Work(k) \/ Die(k) PROVE HInv'
  BY <1>3, WorkKeepsHInv
<1>4. CASE Raise
  BY <1>1, <1>4 DEF Raise, observed
<1>5. ASSUME NEW to, ChangeWatch(to) PROVE HInv'
  BY <1>1, <1>5 DEF ChangeWatch, observed
<1>6. CASE RequestConsent \/ VerifyConsent \/ Unsubscribe \/ DeleteAccount
  BY <1>1, <1>6 DEF RequestConsent, VerifyConsent, Unsubscribe, DeleteAccount, observed
<1> QED BY <1>2, <1>3, <1>4, <1>5, <1>6 DEF Next

(* deliverOne and suppressionCause: a bounce or a complaint leaves the     *)
(* address suppressed, or a worker that is alive is on its way to          *)
(* recordDeliverySuppression; and each worker mails a suppressed address   *)
(* at most the one event it had screened before.                           *)
THEOREM NoComplaintIsDropped == Spec => []BouncesAreSuppressed
<1>1. Init => HInv
  BY DEF Init, HInv, StopsWithTheEventInHand, Stopped
<1>2. DInv /\ HInv /\ [Next]_vars => HInv'
  BY NextKeepsHInv
<1>3. DInv /\ HInv => BouncesAreSuppressed
  BY DEF DInv, HInv, BouncesAreSuppressed
<1> QED BY <1>1, <1>2, <1>3, DeliveryInductive, PTL DEF Spec
=============================================================================
