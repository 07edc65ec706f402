-------------------------- MODULE DistinctSequences --------------------------
(***************************************************************************)
(* Sequences in which each element occurs at most once: queues, and sets   *)
(* of numbers taken in order; with lemmas for the proofs about them: what  *)
(* taking a prefix, splicing and appending leave, and what is first.       *)
(***************************************************************************)
EXTENDS SequencesExt, FiniteSetTheorems, WellFoundedInduction, TLAPS


(* indexOf and splice: s without its element x.                            *)
Without(s, x) == RemoveAt(s, CHOOSE k \in 1..Len(s) : s[k] = x)

(* The n-th smallest of a set of numbers, and the first of them, in order. *)
Nth(S, n) == CHOOSE x \in S : Cardinality({y \in S : y < x}) = n - 1
FirstOf(S, most) ==
    [n \in 1 .. IF Cardinality(S) < most THEN Cardinality(S) ELSE most |-> Nth(S, n)]
-----------------------------------------------------------------------------
(* What a concatenation holds.                                             *)
LEMMA ConcatHolds ==
  ASSUME NEW T, NEW a \in Seq(T), NEW b \in Seq(T)
  PROVE  /\ a \o b \in Seq(T)
         /\ Len(a \o b) = Len(a) + Len(b)
         /\ \A i \in 1 .. Len(a) + Len(b) : (a \o b)[i] = IF i <= Len(a) THEN a[i] ELSE b[i - Len(a)]
OBVIOUS

(* The first n elements of such a sequence are n elements.                 *)
LEMMA PrefixCardinality ==
  ASSUME NEW T, NEW s \in Seq(T), IsInjective(s), NEW n \in 0..Len(s),
         NEW E, \A x : x \in E <=> \E i \in 1..n : x = s[i]
  PROVE  IsFiniteSet(E) /\ Cardinality(E) = n
<1> DEFINE f == [i \in 1..n |-> s[i]]
<1>1. f \in Bijection(1..n, E)
  BY DEF Bijection, Injection, Surjection, IsInjective
<1>2. ExistsBijection(1..n, E)
  BY <1>1 DEF ExistsBijection
<1>3. n \in Nat
  OBVIOUS
<1>4. IsFiniteSet(E)
  BY <1>2, <1>3, FS_NatBijection
<1>5. Cardinality(E) = n
  BY <1>2, <1>3, FS_CountingElements
<1> QED BY <1>4, <1>5

(* Dropping the first n elements drops exactly those.                      *)
LEMMA SuffixElements ==
  ASSUME NEW T, NEW s \in Seq(T), IsInjective(s), NEW n \in 0..Len(s)
  PROVE  /\ SubSeq(s, n + 1, Len(s)) \in Seq(T)
         /\ Len(SubSeq(s, n + 1, Len(s))) = Len(s) - n
         /\ IsInjective(SubSeq(s, n + 1, Len(s)))
         /\ \A x : x \in ToSet(SubSeq(s, n + 1, Len(s)))
                  <=> x \in ToSet(s) /\ \A i \in 1..n : s[i] # x
<1> DEFINE t == SubSeq(s, n + 1, Len(s))
<1>1. t \in Seq(T) /\ Len(t) = Len(s) - n
  OBVIOUS
<1>2. \A i \in 1..Len(t) : t[i] = s[i + n] /\ i + n \in 1..Len(s)
  OBVIOUS
<1> HIDE DEF t
<1>3. IsInjective(t)
  <2> SUFFICES ASSUME NEW i \in 1..Len(t), NEW j \in 1..Len(t), t[i] = t[j]
               PROVE  i = j
    BY <1>1 DEF IsInjective
  <2>1. /\ s[i + n] = s[j + n] /\ i \in Nat /\ j \in Nat
        /\ i + n \in 1..Len(s) /\ j + n \in 1..Len(s)
    BY <1>2
  <2>2. i + n = j + n
    BY <2>1 DEF IsInjective
  <2> QED BY <2>1, <2>2
<1>4. ASSUME NEW x \in ToSet(t)
      PROVE  x \in ToSet(s) /\ \A i \in 1..n : s[i] # x
  <2>1. PICK i \in 1..Len(t) : t[i] = x
    BY <1>1 DEF ToSet
  <2>2. x = s[i + n] /\ i + n \in 1..Len(s)
    BY <1>2, <2>1
  <2>3. \A k \in 1..n : k \in 1..Len(s) /\ k # i + n
    BY <1>1
  <2>4. \A k \in 1..n : s[k] # s[i + n]
    BY <2>2, <2>3 DEF IsInjective
  <2> QED BY <2>2, <2>4 DEF ToSet
<1>5. ASSUME NEW x \in ToSet(s), \A i \in 1..n : s[i] # x
      PROVE  x \in ToSet(t)
  <2>1. PICK k \in 1..Len(s) : s[k] = x
    BY DEF ToSet
  <2>2. k - n \in 1..Len(t)
    BY <1>1, <1>5, <2>1
  <2>3. t[k - n] = s[k]
    BY <1>2, <2>2
  <2>4. k - n \in DOMAIN t
    BY <1>1, <2>2
  <2> QED BY <2>1, <2>3, <2>4 DEF ToSet
<1> QED BY <1>1, <1>3, <1>4, <1>5 DEF t

(* Shifting the first element out.                                         *)
LEMMA TailElements ==
  ASSUME NEW T, NEW s \in Seq(T), IsInjective(s), s # <<>>
  PROVE  /\ Head(s) \in T
         /\ Head(s) \in ToSet(s)
         /\ Tail(s) \in Seq(T)
         /\ Len(Tail(s)) = Len(s) - 1
         /\ IsInjective(Tail(s))
         /\ ToSet(Tail(s)) = ToSet(s) \ {Head(s)}
<1>1. Len(s) \in Nat /\ Len(s) > 0 /\ Head(s) = s[1] /\ DOMAIN s = 1..Len(s)
  OBVIOUS
<1>2. Head(s) \in T /\ Head(s) \in ToSet(s)
  BY <1>1 DEF ToSet
<1>3. PICK n \in 0..Len(s) : n = 1
  BY <1>1
<1>4. Tail(s) = SubSeq(s, n + 1, Len(s))
  BY <1>1, <1>3
<1>5. 1..n = {1}
  BY <1>3
<1>6. /\ SubSeq(s, n + 1, Len(s)) \in Seq(T)
      /\ Len(SubSeq(s, n + 1, Len(s))) = Len(s) - n
      /\ IsInjective(SubSeq(s, n + 1, Len(s)))
      /\ \A x : x \in ToSet(SubSeq(s, n + 1, Len(s)))
               <=> x \in ToSet(s) /\ \A i \in 1..n : s[i] # x
  BY SuffixElements
<1> DEFINE t == SubSeq(s, n + 1, Len(s))
<1> HIDE DEF t
<1>7. ToSet(t) = ToSet(s) \ {Head(s)}
  <2>1. \A x : x \in ToSet(t) <=> x \in ToSet(s) /\ s[1] # x
    BY <1>5, <1>6 DEF t
  <2> QED BY <1>1, <2>1
<1> QED BY <1>2, <1>3, <1>4, <1>6, <1>7 DEF t

(* Splicing out one position.                                              *)
LEMMA RemoveAtElements ==
  ASSUME NEW T, NEW s \in Seq(T), IsInjective(s), NEW i \in 1..Len(s)
  PROVE  /\ RemoveAt(s, i) \in Seq(T)
         /\ Len(RemoveAt(s, i)) = Len(s) - 1
         /\ \A k \in 1..(Len(s) - 1) :
              RemoveAt(s, i)[k] = IF k < i THEN s[k] ELSE s[k + 1]
         /\ IsInjective(RemoveAt(s, i))
         /\ ToSet(RemoveAt(s, i)) = ToSet(s) \ {s[i]}
<1> DEFINE front == SubSeq(s, 1, i - 1)
           back == SubSeq(s, i + 1, Len(s))
           t == front \o back
<1>1. front \in Seq(T) /\ Len(front) = i - 1 /\ \A k \in 1..(i - 1) : front[k] = s[k]
  OBVIOUS
<1>2. back \in Seq(T) /\ Len(back) = Len(s) - i
      /\ \A k \in 1..(Len(s) - i) : back[k] = s[i + k]
  OBVIOUS
<1> HIDE DEF front, back
<1>3. t \in Seq(T) /\ Len(t) = Len(s) - 1 /\ DOMAIN t = 1..(Len(s) - 1)
  <2>1. front \in Seq(T) /\ back \in Seq(T)
    BY <1>1, <1>2
  <2>2. t \in Seq(T)
    BY <2>1
  <2>3. Len(t) = Len(front) + Len(back)
    BY <2>1
  <2>4. DOMAIN t = 1..Len(t)
    BY <2>2
  <2>5. (i - 1) + (Len(s) - i) = Len(s) - 1
    OBVIOUS
  <2> QED BY <2>2, <2>3, <2>4, <2>5, <1>1, <1>2
<1>4. \A k \in 1..(Len(s) - 1) : t[k] = IF k < i THEN s[k] ELSE s[k + 1]
  <2> SUFFICES ASSUME NEW k \in 1..(Len(s) - 1)
               PROVE  t[k] = IF k < i THEN s[k] ELSE s[k + 1]
    OBVIOUS
  <2>1. CASE k < i
    BY <2>1, <1>1, <1>2
  <2>2. CASE ~(k < i)
    <3>1. k - (i - 1) \in 1..(Len(s) - i) /\ k > Len(front)
      BY <2>2, <1>1
    <3>2. t[k] = back[k - (i - 1)]
      BY <3>1, <1>1, <1>2
    <3>3. back[k - (i - 1)] = s[i + (k - (i - 1))]
      BY <3>1, <1>2
    <3>4. i + (k - (i - 1)) = k + 1
      OBVIOUS
    <3> QED BY <2>2, <3>2, <3>3, <3>4
  <2> QED BY <2>1, <2>2
<1> HIDE DEF t
<1>5. DOMAIN s = 1..Len(s)
  OBVIOUS
<1>6. IsInjective(t)
  <2> SUFFICES ASSUME NEW k \in 1..(Len(s) - 1), NEW l \in 1..(Len(s) - 1),
                      t[k] = t[l]
               PROVE  k = l
    BY <1>3 DEF IsInjective
  <2> DEFINE up(n) == IF n < i THEN n ELSE n + 1
  <2>1. t[k] = s[up(k)] /\ t[l] = s[up(l)]
    BY <1>4
  <2>2. up(k) \in 1..Len(s) /\ up(l) \in 1..Len(s)
    OBVIOUS
  <2>3. up(k) = up(l)
    BY <2>1, <2>2, <1>5 DEF IsInjective
  <2> QED BY <2>3
<1>7. ToSet(t) \subseteq ToSet(s) \ {s[i]}
  <2> SUFFICES ASSUME NEW k \in 1..(Len(s) - 1)
               PROVE  t[k] \in ToSet(s) \ {s[i]}
    BY <1>3 DEF ToSet
  <2> DEFINE u == IF k < i THEN k ELSE k + 1
  <2>1. u \in 1..Len(s) /\ u # i /\ t[k] = s[u]
    BY <1>4
  <2> QED BY <2>1, <1>5 DEF IsInjective, ToSet
<1>8. ToSet(s) \ {s[i]} \subseteq ToSet(t)
  <2> SUFFICES ASSUME NEW k \in 1..Len(s), s[k] # s[i]
               PROVE  s[k] \in ToSet(t)
    BY <1>5 DEF ToSet
  <2> DEFINE d == IF k < i THEN k ELSE k - 1
  <2>1. d \in 1..(Len(s) - 1)
    OBVIOUS
  <2>2. t[d] = s[k]
    BY <2>1, <1>4
  <2>3. d \in DOMAIN t
    BY <2>1, <1>3
  <2> QED BY <2>2, <2>3 DEF ToSet
<1>9. t = RemoveAt(s, i)
  BY DEF RemoveAt, t, front, back
<1> QED BY <1>3, <1>4, <1>6, <1>7, <1>8, <1>9

(* Splicing one element out removes that element and no other.             *)
LEMMA WithoutElements ==
  ASSUME NEW T, NEW s \in Seq(T), IsInjective(s), NEW x \in ToSet(s)
  PROVE  /\ Without(s, x) \in Seq(T)
         /\ Len(Without(s, x)) = Len(s) - 1
         /\ IsInjective(Without(s, x))
         /\ ToSet(Without(s, x)) = ToSet(s) \ {x}
<1>1. PICK i : i = CHOOSE k \in 1..Len(s) : s[k] = x
  OBVIOUS
<1>2. i \in 1..Len(s) /\ s[i] = x
  <2>1. \E k \in 1..Len(s) : s[k] = x
    BY DEF ToSet
  <2> QED BY <1>1, <2>1
<1>3. Without(s, x) = RemoveAt(s, i)
  BY <1>1 DEF Without
<1>4. /\ RemoveAt(s, i) \in Seq(T)
      /\ Len(RemoveAt(s, i)) = Len(s) - 1
      /\ IsInjective(RemoveAt(s, i))
      /\ ToSet(RemoveAt(s, i)) = ToSet(s) \ {s[i]}
  BY <1>2, RemoveAtElements
<1> QED BY <1>2, <1>3, <1>4

(* Appending a sequence of new elements.                                   *)
LEMMA ConcatElements ==
  ASSUME NEW T, NEW s \in Seq(T), NEW t \in Seq(T),
         IsInjective(s), IsInjective(t), ToSet(s) \cap ToSet(t) = {}
  PROVE  /\ s \o t \in Seq(T)
         /\ Len(s \o t) = Len(s) + Len(t)
         /\ IsInjective(s \o t)
         /\ ToSet(s \o t) = ToSet(s) \cup ToSet(t)
<1> DEFINE u == s \o t
<1>1. u \in Seq(T) /\ Len(u) = Len(s) + Len(t)
      /\ DOMAIN u = 1..(Len(s) + Len(t))
  OBVIOUS
<1>2. /\ \A k \in 1..Len(s) : u[k] = s[k]
      /\ \A k \in 1..Len(t) : u[k + Len(s)] = t[k]
  OBVIOUS
<1>3. DOMAIN s = 1..Len(s) /\ DOMAIN t = 1..Len(t)
  OBVIOUS
<1>4. \A k \in 1..(Len(s) + Len(t)) :
        k \in 1..Len(s) \/ (k - Len(s) \in 1..Len(t)
                            /\ u[k] = t[k - Len(s)] /\ u[k] \in ToSet(t))
  <2> SUFFICES ASSUME NEW k \in 1..(Len(s) + Len(t)), k \notin 1..Len(s)
               PROVE  k - Len(s) \in 1..Len(t)
                      /\ u[k] = t[k - Len(s)] /\ u[k] \in ToSet(t)
    OBVIOUS
  <2>1. k - Len(s) \in 1..Len(t)
    OBVIOUS
  <2>2. u[(k - Len(s)) + Len(s)] = t[k - Len(s)]
    BY <2>1, <1>2
  <2>3. (k - Len(s)) + Len(s) = k
    OBVIOUS
  <2> QED BY <2>1, <2>2, <2>3, <1>3 DEF ToSet
<1>5. \A k \in 1..Len(s) : u[k] \in ToSet(s)
  BY <1>2, <1>3 DEF ToSet
<1> HIDE DEF u
<1>6. IsInjective(u)
  <2> SUFFICES ASSUME NEW k \in 1..(Len(s) + Len(t)),
                      NEW l \in 1..(Len(s) + Len(t)), u[k] = u[l]
               PROVE  k = l
    BY <1>1 DEF IsInjective
  <2>1. CASE k \in 1..Len(s) /\ l \in 1..Len(s)
    BY <2>1, <1>2, <1>3 DEF IsInjective
  <2>2. CASE k \notin 1..Len(s) /\ l \notin 1..Len(s)
    <3>1. k - Len(s) = l - Len(s)
      BY <2>2, <1>3, <1>4 DEF IsInjective
    <3> QED BY <3>1
  <2>3. CASE (k \in 1..Len(s)) # (l \in 1..Len(s))
    BY <2>3, <1>4, <1>5
  <2> QED BY <2>1, <2>2, <2>3
<1>7. ToSet(u) \subseteq ToSet(s) \cup ToSet(t)
  BY <1>1, <1>4, <1>5 DEF ToSet
<1>8. ToSet(s) \cup ToSet(t) \subseteq ToSet(u)
  <2>1. \A k \in 1..Len(t) : k + Len(s) \in DOMAIN u
    BY <1>1
  <2>2. \A k \in 1..Len(s) : k \in DOMAIN u
    BY <1>1
  <2> QED BY <2>1, <2>2, <1>2, <1>3 DEF ToSet
<1> QED BY <1>1, <1>6, <1>7, <1>8 DEF u

(* Pushing one new element.                                                *)
LEMMA AppendElements ==
  ASSUME NEW T, NEW s \in Seq(T), NEW x \in T, IsInjective(s), x \notin ToSet(s)
  PROVE  /\ Append(s, x) \in Seq(T)
         /\ Len(Append(s, x)) = Len(s) + 1
         /\ IsInjective(Append(s, x))
         /\ ToSet(Append(s, x)) = ToSet(s) \cup {x}
<1> DEFINE u == Append(s, x)
<1>1. u \in Seq(T) /\ Len(u) = Len(s) + 1 /\ DOMAIN u = 1..(Len(s) + 1)
  OBVIOUS
<1>2. u[Len(s) + 1] = x /\ \A k \in 1..Len(s) : u[k] = s[k]
  OBVIOUS
<1>3. DOMAIN s = 1..Len(s) /\ Len(s) \in Nat
  OBVIOUS
<1>4. \A k \in 1..(Len(s) + 1) :
        (k \in 1..Len(s) /\ u[k] = s[k] /\ u[k] \in ToSet(s))
          \/ (k = Len(s) + 1 /\ u[k] = x)
  BY <1>2, <1>3 DEF ToSet
<1> HIDE DEF u
<1>5. IsInjective(u)
  BY <1>1, <1>3, <1>4 DEF IsInjective
<1>6. ToSet(u) \subseteq ToSet(s) \cup {x}
  BY <1>1, <1>4 DEF ToSet
<1>7. ToSet(s) \cup {x} \subseteq ToSet(u)
  <2>1. \A k \in 1..Len(s) : k \in DOMAIN u
    BY <1>1, <1>3
  <2>2. Len(s) + 1 \in DOMAIN u
    BY <1>1, <1>3
  <2> QED BY <2>1, <2>2, <1>2, <1>3 DEF ToSet
<1> QED BY <1>1, <1>5, <1>6, <1>7 DEF u

-----------------------------------------------------------------------------
(* The order of the natural numbers as a relation.                         *)
LEMMA LessThanWellFounded ==
  \E R : IsWellFoundedOn(R, Nat) /\ \A x, y \in Nat : x < y => <<x, y>> \in R
<1>1. \A x, y \in Nat : x < y => <<x, y>> \in OpToRel(<, Nat)
  BY Zenon DEF OpToRel
<1> QED BY <1>1, NatLessThanWellFounded, Zenon

(* A set of numbers has a least element.                                   *)
LEMMA LeastElement ==
  ASSUME NEW S \in SUBSET Nat, S # {}
  PROVE  \E x \in S : \A y \in S : x <= y
<1>1. PICK R : IsWellFoundedOn(R, Nat) /\ \A x, y \in Nat : x < y => <<x, y>> \in R
  BY LessThanWellFounded, Zenon
<1>2. S \subseteq Nat
  OBVIOUS
<1>3. \E x \in S : \A y \in S : ~ (<<y, x>> \in R)
  <2>1. IsWellFoundedOn(R, Nat)
    BY <1>1
  <2>2. \A Q, N : IsWellFoundedOn(Q, N) => \A T : T \subseteq N /\ T # {} =>
          \E x \in T : \A y \in T : ~ (<<y, x>> \in Q)
    BY WFMin, Zenon
  <2> QED BY <2>1, <2>2, <1>2, Zenon
<1>4. PICK x \in S : \A y \in S : ~ (<<y, x>> \in R)
  BY <1>3
<1>5. \A y \in S : ~ (y < x)
  BY <1>1, <1>2, <1>4, Zenon
<1>6. \A y \in S : x <= y
  BY <1>5
<1> QED BY <1>6

(* There is an n-th smallest element as long as there are n elements.      *)
LEMMA NthExists ==
  ASSUME NEW S \in SUBSET Nat, IsFiniteSet(S), NEW n \in 1 .. Cardinality(S)
  PROVE  \E x \in S : Cardinality({y \in S : y < x}) = n - 1
<1> DEFINE Has(k) == \E x \in S : Cardinality({y \in S : y < x}) = k - 1
           Lacking == {k \in 1 .. Cardinality(S) : ~Has(k)}
<1>0. Cardinality(S) \in Nat
  BY FS_CardinalityType
<1> SUFFICES ASSUME Lacking # {} PROVE FALSE
  OBVIOUS
<1>1. PICK m \in Lacking : \A k \in Lacking : m <= k
  <2>1. Lacking \in SUBSET Nat
    BY <1>0
  <2> QED BY <2>1, LeastElement
<1>2. m \in 1 .. Cardinality(S) /\ ~Has(m)
  BY <1>1
<1>3. PICK T \in SUBSET S : Cardinality(T) = m - 1 /\ \A x \in T, y \in S : y < x => y \in T
  <2>1. CASE m = 1
    <3>1. Cardinality({}) = m - 1
      BY <2>1, FS_EmptySet
    <3> QED BY <3>1
  <2>2. CASE m # 1
    <3>1. m - 1 \in 1 .. Cardinality(S) /\ m - 1 < m
      BY <1>0, <1>2, <2>2
    <3>2. Has(m - 1)
      BY <1>1, <3>1
    <3>3. PICK x \in S : Cardinality({y \in S : y < x}) = (m - 1) - 1
      BY <3>2
    <3> DEFINE U == {y \in S : y < x}
    <3>4. IsFiniteSet(U) /\ x \notin U
      BY FS_Subset
    <3>5. Cardinality(U \cup {x}) = m - 1
      <4>1. m \in Int /\ Cardinality(U) = m - 2
        BY <1>0, <1>2, <3>3
      <4>2. Cardinality(U \cup {x}) = Cardinality(U) + 1
        BY <3>4, FS_AddElement
      <4> QED BY <4>1, <4>2
    <3>6. \A u \in U \cup {x}, y \in S : y < u => y \in U \cup {x}
      OBVIOUS
    <3>7. U \cup {x} \in SUBSET S
      OBVIOUS
    <3> QED BY <3>5, <3>6, <3>7
  <2> QED BY <2>1, <2>2
<1>4. S \ T # {}
  <2>1. ASSUME S = T PROVE FALSE
    BY <1>0, <1>2, <1>3, <2>1
  <2> QED BY <2>1
<1>5. PICK x \in S \ T : \A y \in S \ T : x <= y
  <2>1. S \ T \in SUBSET Nat
    OBVIOUS
  <2> QED BY <1>4, <2>1, LeastElement
<1>6. {y \in S : y < x} = T
  <2>1. \A y \in S : y \in Nat /\ (y < x \/ y = x \/ x < y)
    OBVIOUS
  <2>2. ASSUME NEW y \in S, y < x PROVE y \in T
    BY <1>5, <2>1, <2>2
  <2>3. ASSUME NEW y \in T PROVE y < x
    <3>1. y # x /\ ~(x < y)
      BY <1>3, <1>5, <2>3
    <3> QED BY <2>1, <3>1
  <2> QED BY <1>3, <2>2, <2>3
<1>7. Has(m)
  BY <1>3, <1>5, <1>6
<1> QED BY <1>2, <1>7

(* The n-th smallest element has n - 1 smaller ones, and so two numbers    *)
(* have different such elements.                                           *)
LEMMA NthElement ==
  ASSUME NEW S \in SUBSET Nat, IsFiniteSet(S), NEW n \in 1 .. Cardinality(S)
  PROVE  Nth(S, n) \in S /\ Cardinality({y \in S : y < Nth(S, n)}) = n - 1
BY NthExists DEF Nth

(* The first of them are different elements of the set ...                 *)
LEMMA FirstOfElements ==
  ASSUME NEW S \in SUBSET Nat, IsFiniteSet(S), NEW most \in Nat
  PROVE  /\ FirstOf(S, most) \in Seq(S)
         /\ Len(FirstOf(S, most)) = IF Cardinality(S) < most THEN Cardinality(S) ELSE most
         /\ IsInjective(FirstOf(S, most))
<1> DEFINE l == IF Cardinality(S) < most THEN Cardinality(S) ELSE most
           f == FirstOf(S, most)
<1>1. l \in Nat /\ l <= Cardinality(S) /\ Cardinality(S) \in Nat
  BY FS_CardinalityType
<1>2. f = [n \in 1 .. l |-> Nth(S, n)]
  BY DEF FirstOf
<1>3. \A n \in 1 .. l : Nth(S, n) \in S /\ Cardinality({y \in S : y < Nth(S, n)}) = n - 1
  <2> SUFFICES ASSUME NEW n \in 1 .. l
               PROVE  Nth(S, n) \in S /\ Cardinality({y \in S : y < Nth(S, n)}) = n - 1
    OBVIOUS
  <2>1. n \in 1 .. Cardinality(S)
    BY <1>1
  <2> QED BY <2>1, NthElement
<1> HIDE DEF l, f
<1>4. f \in [1 .. l -> S] /\ DOMAIN f = 1 .. l
  BY <1>2, <1>3
<1>5. f \in Seq(S) /\ Len(f) = l
  BY <1>1, <1>4
<1>6. IsInjective(f)
  <2> SUFFICES ASSUME NEW i \in 1 .. l, NEW j \in 1 .. l, f[i] = f[j] PROVE i = j
    BY <1>4 DEF IsInjective
  <2>1. Nth(S, i) = Nth(S, j)
    BY <1>2
  <2>2. i - 1 = j - 1
    BY <1>3, <2>1
  <2> QED BY <1>1, <2>2
<1> QED BY <1>5, <1>6 DEF l, f

(* ... beginning with the smallest.                                        *)
LEMMA FirstOfBegins ==
  ASSUME NEW S \in SUBSET Nat, IsFiniteSet(S), NEW most \in Nat \ {0},
         NEW x \in S, \A y \in S : x <= y
  PROVE  1 \in DOMAIN FirstOf(S, most) /\ FirstOf(S, most)[1] = x
<1>1. Cardinality(S) \in Nat /\ Cardinality(S) # 0
  BY FS_CardinalityType, FS_EmptySet
<1>2. 1 \in 1 .. Cardinality(S)
  BY <1>1
<1>3. Nth(S, 1) \in S /\ Cardinality({y \in S : y < Nth(S, 1)}) = 0
  BY <1>2, NthElement
<1>4. {y \in S : y < Nth(S, 1)} = {}
  <2>1. IsFiniteSet({y \in S : y < Nth(S, 1)})
    BY FS_Subset
  <2> QED BY <1>3, <2>1, FS_EmptySet
<1>5. Nth(S, 1) = x
  <2>1. ~(x < Nth(S, 1)) /\ x <= Nth(S, 1)
    BY <1>3, <1>4
  <2>2. x \in Nat /\ Nth(S, 1) \in Nat
    BY <1>3
  <2> QED BY <2>1, <2>2
<1> QED BY <1>1, <1>5 DEF FirstOf
=============================================================================
