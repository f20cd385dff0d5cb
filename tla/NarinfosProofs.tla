--------------------------- MODULE NarinfosProofs ---------------------------
(***************************************************************************)
(* Proofs about Narinfos: nix32 keeps the number of a digest, sorting a    *)
(* set of references has one result, and with these a narinfo that was     *)
(* accepted is read back by Nix as it was registered.                      *)
(***************************************************************************)
EXTENDS Narinfos, FiniteSetTheorems, WellFoundedInduction, TLAPS

-----------------------------------------------------------------------------
\* Induction, as the existence of a least counterexample

(***************************************************************************)
(* A set of numbers that is not empty has a least one.                     *)
(***************************************************************************)
LEMMA Least ==
  ASSUME NEW T \in SUBSET Nat, T # {}
  PROVE  \E m \in T : \A k \in T : m <= k
<1>1. PICK m \in T : \A k \in T : ~(<<k, m>> \in OpToRel(<, Nat))
  BY NatLessThanWellFounded, WFMin
<1>2. \A k \in T : ~(k < m)
  BY <1>1, Zenon DEF OpToRel
<1>3. \A k \in T : m <= k
  BY <1>2
<1> QED
  BY <1>3

(***************************************************************************)
(* A set that holds 0, and the next number up to n with each of its own,   *)
(* holds all numbers up to n.                                              *)
(***************************************************************************)
LEMMA UpTo ==
  ASSUME NEW n \in Nat, NEW T, 0 \in T,
         \A k \in 0..n : k < n /\ k \in T => k + 1 \in T
  PROVE  \A k \in 0..n : k \in T
<1>1. SUFFICES ASSUME NEW i \in 0..n, i \notin T
               PROVE  FALSE
  OBVIOUS
<1> DEFINE Missing == {k \in 0..n : k \notin T}
<1>2. Missing \in SUBSET Nat /\ Missing # {}
  BY <1>1
<1> HIDE DEF Missing
<1>3. PICK m \in Missing : \A k \in Missing : m <= k
  BY <1>2, Least
<1>4. m \in 0..n /\ m \notin T /\ m # 0 /\ m - 1 \in 0..n
  BY <1>3 DEF Missing
<1>5. m - 1 \in T
  BY <1>3, <1>4 DEF Missing
<1> QED
  BY <1>4, <1>5

-----------------------------------------------------------------------------
\* Sorting

\* place with n + 1 put in at position m
Inserted(n, place, m) ==
  [k \in 1..(n + 1) |-> IF k < m THEN place[k] ELSE IF k = m THEN n + 1 ELSE place[k - 1]]

(***************************************************************************)
(* A permutation of one number more.                                       *)
(***************************************************************************)
LEMMA InsertedBijection ==
  ASSUME NEW n \in Nat, NEW place \in Bijection(1..n, 1..n), NEW m \in 1..(n + 1)
  PROVE  Inserted(n, place, m) \in Bijection(1..(n + 1), 1..(n + 1))
<1>1. \A k \in 1..n : place[k] \in 1..n
  BY DEF Bijection, Injection
<1>2. \A a, b \in 1..n : place[a] = place[b] => a = b
  BY DEF Bijection, Injection, IsInjective
<1>3. \A b \in 1..n : \E a \in 1..n : place[a] = b
  BY DEF Bijection, Surjection
<1> DEFINE longer == Inserted(n, place, m)
<1>4. /\ \A k \in 1..n : k < m => longer[k] = place[k]
      /\ longer[m] = n + 1
      /\ \A k \in 1..n : k >= m => longer[k + 1] = place[k]
  BY DEF Inserted
<1>d. longer = [k \in 1..(n + 1) |-> longer[k]]
  BY DEF Inserted
<1>5. \A k \in 1..(n + 1) : k = m \/ (k < m /\ k \in 1..n) \/ (k > m /\ k - 1 \in 1..n)
  OBVIOUS
<1> HIDE DEF longer
<1>6. \A k \in 1..(n + 1) : longer[k] \in 1..(n + 1) /\ (k # m => longer[k] \in 1..n)
  <2>1. SUFFICES ASSUME NEW k \in 1..(n + 1)
                 PROVE  longer[k] \in 1..(n + 1) /\ (k # m => longer[k] \in 1..n)
    OBVIOUS
  <2>2. CASE k = m
    BY <1>4, <2>2
  <2>3. CASE k < m
    <3>1. k \in 1..n
      BY <2>3
    <3>2. longer[k] \in 1..n /\ k # m
      BY <1>1, <1>4, <2>3, <3>1
    <3> QED
      BY <3>2
  <2>4. CASE k > m
    <3>1. k - 1 \in 1..n /\ k - 1 >= m /\ (k - 1) + 1 = k
      BY <2>4
    <3>2. longer[k] = place[k - 1]
      BY <1>4, <3>1
    <3> QED
      BY <1>1, <3>1, <3>2
  <2> QED
    BY <2>2, <2>3, <2>4
<1>7. \A a, b \in 1..(n + 1) : longer[a] = longer[b] => a = b
  <2>1. SUFFICES ASSUME NEW a \in 1..(n + 1), NEW b \in 1..(n + 1), longer[a] = longer[b]
                 PROVE  a = b
    OBVIOUS
  <2>2. a = m <=> b = m
    BY <1>4, <1>6, <2>1
  <2>3. CASE a < m /\ b < m
    <3>1. a \in 1..n /\ b \in 1..n
      BY <2>3
    <3> QED
      BY <1>2, <1>4, <2>1, <2>3, <3>1
  <2>4. CASE a > m /\ b > m
    <3>1. /\ a - 1 \in 1..n /\ a - 1 >= m /\ (a - 1) + 1 = a
          /\ b - 1 \in 1..n /\ b - 1 >= m /\ (b - 1) + 1 = b
      BY <2>4
    <3>2. place[a - 1] = place[b - 1]
      BY <1>4, <2>1, <3>1
    <3> QED
      BY <1>2, <3>1, <3>2
  <2>5. CASE a < m /\ b > m
    <3>1. b - 1 \in 1..n /\ b - 1 >= m /\ (b - 1) + 1 = b /\ a \in 1..n
      BY <2>5
    <3>2. place[a] = place[b - 1]
      BY <1>4, <2>1, <2>5, <3>1
    <3> QED
      BY <1>2, <2>5, <3>1, <3>2
  <2>6. CASE a > m /\ b < m
    <3>1. a - 1 \in 1..n /\ a - 1 >= m /\ (a - 1) + 1 = a /\ b \in 1..n
      BY <2>6
    <3>2. place[b] = place[a - 1]
      BY <1>4, <2>1, <2>6, <3>1
    <3> QED
      BY <1>2, <2>6, <3>1, <3>2
  <2> QED
    BY <2>2, <2>3, <2>4, <2>5, <2>6
<1>8. \A b \in 1..(n + 1) : \E a \in 1..(n + 1) : longer[a] = b
  <2>1. SUFFICES ASSUME NEW b \in 1..(n + 1)
                 PROVE  \E a \in 1..(n + 1) : longer[a] = b
    OBVIOUS
  <2>2. CASE b = n + 1
    BY <1>4, <2>2
  <2>3. CASE b # n + 1
    <3>1. PICK a \in 1..n : place[a] = b
      BY <1>3, <2>3
    <3>2. a + 1 \in 1..(n + 1) /\ a \in 1..(n + 1) /\ (a < m \/ a >= m)
      OBVIOUS
    <3>3. longer[a] = b \/ longer[a + 1] = b
      BY <1>4, <3>1, <3>2
    <3> QED
      BY <3>2, <3>3
  <2> QED
    BY <2>2, <2>3
<1>9. longer \in Bijection(1..(n + 1), 1..(n + 1))
  BY <1>d, <1>6, <1>7, <1>8 DEF Bijection, Injection, Surjection, IsInjective
<1> QED
  BY <1>9 DEF longer

(***************************************************************************)
(* A permutation that sorts all ranks but the last is extended by it.      *)
(***************************************************************************)
LEMMA SortOneMore ==
  ASSUME NEW n \in Nat, NEW rank \in [1..(n + 1) -> Nat],
         NEW place \in Bijection(1..n, 1..n),
         \A i, j \in 1..n : i < j => rank[place[i]] <= rank[place[j]]
  PROVE  \E longer \in Bijection(1..(n + 1), 1..(n + 1)) :
           \A i, j \in 1..(n + 1) : i < j => rank[longer[i]] <= rank[longer[j]]
<1> DEFINE at == [k \in 1..n |-> rank[place[k]]]
           last == rank[n + 1]
           Later == {k \in 1..(n + 1) : k <= n => at[k] > last}
<1>p. place \in [1..n -> 1..n]
  BY DEF Bijection, Injection
<1>q. \A k \in 1..n : place[k] \in 1..n
  BY <1>p
<1>0. \A k \in 1..n : place[k] \in 1..n /\ place[k] \in 1..(n + 1)
  BY <1>q
<1>1. \A k \in 1..n : at[k] = rank[place[k]] /\ at[k] \in Nat
  BY <1>0
<1>2. last \in Nat
  OBVIOUS
<1>3. \A i, j \in 1..n : i < j => at[i] <= at[j]
  OBVIOUS
<1> HIDE DEF at, last
<1>4. Later \in SUBSET Nat /\ n + 1 \in Later
  OBVIOUS
<1>5. \A k \in 1..n : k \notin Later => at[k] <= last
  BY <1>1, <1>2
<1>6. \A k \in Later : k \in 1..(n + 1) /\ (k <= n => at[k] > last)
  OBVIOUS
<1> HIDE DEF Later
<1>7. PICK m \in Later : \A k \in Later : m <= k
  BY <1>4, Least
<1>8. m \in 1..(n + 1)
  BY <1>6
<1>9. \A k \in 1..n : k < m => at[k] <= last
  BY <1>5, <1>7, <1>8
<1>10. \A k \in 1..n : k >= m => at[k] > last
  BY <1>1, <1>2, <1>3, <1>6, <1>8
<1> DEFINE longer == Inserted(n, place, m)
<1>11. \A k \in 1..(n + 1) :
         rank[longer[k]] = IF k < m THEN at[k] ELSE IF k = m THEN last ELSE at[k - 1]
  BY <1>1, <1>8 DEF Inserted, last
<1>12. longer \in Bijection(1..(n + 1), 1..(n + 1))
  BY <1>8, InsertedBijection
<1> HIDE DEF longer
<1>13. ASSUME NEW i \in 1..(n + 1), NEW j \in 1..(n + 1), i < j
       PROVE  rank[longer[i]] <= rank[longer[j]]
  <2>1. CASE j < m
    BY <1>3, <1>8, <1>11, <1>13, <2>1
  <2>2. CASE j = m
    <3>1. i \in 1..n /\ i < m
      BY <1>8, <1>13, <2>2
    <3>2. rank[longer[i]] = at[i] /\ rank[longer[j]] = last
      BY <1>8, <1>11, <2>2, <3>1
    <3> QED
      BY <1>9, <3>1, <3>2
  <2>3. CASE j > m /\ i < m
    <3>1. at[i] <= last /\ last < at[j - 1]
      BY <1>8, <1>9, <1>10, <2>3
    <3>2. at[i] \in Nat /\ at[j - 1] \in Nat
      BY <1>1, <1>8, <2>3
    <3> QED
      BY <1>2, <1>8, <1>11, <2>3, <3>1, <3>2, SMTT(30)
  <2>4. CASE j > m /\ i = m
    <3>1. last < at[j - 1] /\ at[j - 1] \in Nat
      BY <1>1, <1>8, <1>10, <2>4
    <3> QED
      BY <1>2, <1>8, <1>11, <2>4, <3>1
  <2>5. CASE j > m /\ i > m
    <3>1. at[i - 1] <= at[j - 1]
      BY <1>3, <1>8, <1>13, <2>5
    <3> QED
      BY <1>8, <1>11, <2>5, <3>1
  <2> QED
    BY <1>8, <1>13, <2>1, <2>2, <2>3, <2>4, <2>5
<1> QED
  BY <1>12, <1>13

(***************************************************************************)
(* Every list of ranks can be sorted.                                      *)
(***************************************************************************)
LEMMA SortingExists ==
  ASSUME NEW n \in Nat, NEW rank \in [1..n -> Nat]
  PROVE  \E place \in Bijection(1..n, 1..n) :
           \A i, j \in 1..n : i < j => rank[place[i]] <= rank[place[j]]
<1> DEFINE T == {m \in 0..n : \E place \in Bijection(1..m, 1..m) :
                   \A i, j \in 1..m : i < j => rank[place[i]] <= rank[place[j]]}
<1>1. 0 \in T
  <2>1. [k \in 1..0 |-> k] \in Bijection(1..0, 1..0)
    BY DEF Bijection, Injection, Surjection, IsInjective
  <2>2. \A i, j \in 1..0 : i < j
           => rank[[k \in 1..0 |-> k][i]] <= rank[[k \in 1..0 |-> k][j]]
    OBVIOUS
  <2> QED
    BY <2>1, <2>2
<1>2. \A m \in 0..n : m < n /\ m \in T => m + 1 \in T
  <2>1. SUFFICES ASSUME NEW m \in 0..n, m < n, m \in T
                 PROVE  m + 1 \in T
    OBVIOUS
  <2> DEFINE front == [k \in 1..(m + 1) |-> rank[k]]
  <2>2. front \in [1..(m + 1) -> Nat]
    BY <2>1
  <2>3. PICK place \in Bijection(1..m, 1..m) :
          \A i, j \in 1..m : i < j => rank[place[i]] <= rank[place[j]]
    BY <2>1
  <2>4. \A i \in 1..m : place[i] \in 1..m
    BY DEF Bijection, Injection
  <2>5. \A i, j \in 1..m : i < j => front[place[i]] <= front[place[j]]
    BY <2>3, <2>4
  <2> HIDE DEF front
  <2>6. m \in Nat
    OBVIOUS
  <2>7. PICK longer \in Bijection(1..(m + 1), 1..(m + 1)) :
          \A i, j \in 1..(m + 1) : i < j => front[longer[i]] <= front[longer[j]]
    BY <2>2, <2>5, <2>6, SortOneMore
  <2>8. \A i \in 1..(m + 1) : longer[i] \in 1..(m + 1)
    BY DEF Bijection, Injection
  <2>9. \A i, j \in 1..(m + 1) : i < j => rank[longer[i]] <= rank[longer[j]]
    BY <2>7, <2>8 DEF front
  <2> QED
    BY <2>1, <2>9
<1> HIDE DEF T
<1>3. \A m \in 0..n : m \in T
  BY <1>1, <1>2, UpTo
<1>4. n \in T
  BY <1>3
<1> QED
  BY <1>4 DEF T

(***************************************************************************)
(* Sorting permutes.                                                       *)
(***************************************************************************)
LEMMA SortingPermutes ==
  ASSUME NEW S, NEW s \in Seq(S), NEW rank \in [DOMAIN s -> Nat]
  PROVE  \E place \in Bijection(DOMAIN s, DOMAIN s) :
           /\ SortedBy(s, rank) = [i \in DOMAIN s |-> s[place[i]]]
           /\ \A i, j \in DOMAIN s : i < j => rank[place[i]] <= rank[place[j]]
<1>1. DOMAIN s = 1..Len(s) /\ Len(s) \in Nat
  OBVIOUS
<1>2. \E place \in Bijection(DOMAIN s, DOMAIN s) :
        \A i, j \in DOMAIN s : i < j => rank[place[i]] <= rank[place[j]]
  BY <1>1, SortingExists
<1>3. /\ Sorting(s, rank) \in Bijection(DOMAIN s, DOMAIN s)
      /\ \A i, j \in DOMAIN s : i < j => rank[Sorting(s, rank)[i]] <= rank[Sorting(s, rank)[j]]
  BY <1>2 DEF Sorting
<1> QED
  BY <1>3 DEF SortedBy

(***************************************************************************)
(* A sorted sequence has the members of the unsorted one, each as often.   *)
(***************************************************************************)
LEMMA SortedKeeps ==
  ASSUME NEW S, NEW s \in Seq(S), NEW rank \in [DOMAIN s -> Nat]
  PROVE  /\ SortedBy(s, rank) \in Seq(S)
         /\ DOMAIN SortedBy(s, rank) = DOMAIN s
         /\ ToSet(SortedBy(s, rank)) = ToSet(s)
         /\ IsInjective(s) => IsInjective(SortedBy(s, rank))
<1>1. PICK place \in Bijection(DOMAIN s, DOMAIN s) :
        SortedBy(s, rank) = [i \in DOMAIN s |-> s[place[i]]]
  BY SortingPermutes
<1>2. \A i \in DOMAIN s : place[i] \in DOMAIN s
  BY DEF Bijection, Injection
<1>3. \A i, j \in DOMAIN s : place[i] = place[j] => i = j
  BY DEF Bijection, Injection, IsInjective
<1>4. \A j \in DOMAIN s : \E i \in DOMAIN s : place[i] = j
  BY DEF Bijection, Surjection
<1>5. /\ DOMAIN SortedBy(s, rank) = DOMAIN s
      /\ \A i \in DOMAIN s : SortedBy(s, rank)[i] = s[place[i]]
  BY <1>1
<1>6. SortedBy(s, rank) \in Seq(S)
  <2>1. DOMAIN s = 1..Len(s) /\ Len(s) \in Nat /\ \A i \in DOMAIN s : s[i] \in S
    OBVIOUS
  <2>2. [i \in 1..Len(s) |-> s[place[i]]] \in [1..Len(s) -> S]
    BY <1>2, <2>1
  <2> QED
    BY <1>1, <2>1, <2>2
<1>7. ToSet(SortedBy(s, rank)) = ToSet(s)
  <2>1. ASSUME NEW x \in ToSet(s)
        PROVE  x \in ToSet(SortedBy(s, rank))
    <3>1. PICK j \in DOMAIN s : x = s[j]
      BY <2>1 DEF ToSet
    <3>2. PICK i \in DOMAIN s : place[i] = j
      BY <1>4
    <3>3. x = SortedBy(s, rank)[i]
      BY <1>5, <3>1, <3>2
    <3> QED
      BY <1>5, <3>3 DEF ToSet
  <2>2. ASSUME NEW x \in ToSet(SortedBy(s, rank))
        PROVE  x \in ToSet(s)
    <3>1. PICK i \in DOMAIN s : x = SortedBy(s, rank)[i]
      BY <1>5, <2>2 DEF ToSet
    <3> QED
      BY <1>2, <1>5, <3>1 DEF ToSet
  <2> QED
    BY <2>1, <2>2
<1>8. IsInjective(s) => IsInjective(SortedBy(s, rank))
  <2>1. SUFFICES ASSUME IsInjective(s), NEW a \in DOMAIN s, NEW b \in DOMAIN s,
                        SortedBy(s, rank)[a] = SortedBy(s, rank)[b]
                 PROVE  a = b
    BY <1>5, Zenon DEF IsInjective
  <2>2. s[place[a]] = s[place[b]]
    BY <1>5, <2>1
  <2>3. place[a] = place[b]
    BY <1>2, <2>1, <2>2, Zenon DEF IsInjective
  <2> QED
    BY <1>3, <2>3
<1>9. DOMAIN SortedBy(s, rank) = DOMAIN s
  BY <1>5
<1> QED
  BY <1>6, <1>7, <1>8, <1>9, Zenon

Increasing(s) == \A i, j \in DOMAIN s : i < j => TextOrder[s[i]] < TextOrder[s[j]]

(***************************************************************************)
(* A list of references sorted by their texts.                             *)
(***************************************************************************)
LEMMA InTextOrderSorts ==
  ASSUME NEW s \in ReferenceLists
  PROVE  /\ InTextOrder(s) \in ReferenceLists
         /\ ToSet(InTextOrder(s)) = ToSet(s)
         /\ Increasing(InTextOrder(s))
<1> DEFINE rank == [i \in DOMAIN s |-> TextOrder[s[i]]]
<1>1. s \in Seq(DOMAIN TextOrder) /\ IsInjective(s)
  BY DEF ReferenceLists
<1>2. \A i \in DOMAIN s : s[i] \in DOMAIN TextOrder
  BY <1>1
<1>3. rank \in [DOMAIN s -> Nat] /\ \A i \in DOMAIN s : rank[i] = TextOrder[s[i]]
  BY <1>2, FormatConstants
<1>4. InTextOrder(s) = SortedBy(s, rank)
  BY DEF InTextOrder
<1> HIDE DEF rank
<1>5. /\ InTextOrder(s) \in Seq(DOMAIN TextOrder)
      /\ DOMAIN InTextOrder(s) = DOMAIN s
      /\ ToSet(InTextOrder(s)) = ToSet(s)
      /\ IsInjective(InTextOrder(s))
  BY <1>1, <1>3, <1>4, SortedKeeps
<1>6. PICK place \in Bijection(DOMAIN s, DOMAIN s) :
        /\ SortedBy(s, rank) = [i \in DOMAIN s |-> s[place[i]]]
        /\ \A i, j \in DOMAIN s : i < j => rank[place[i]] <= rank[place[j]]
  BY <1>1, <1>3, SortingPermutes
<1>7. \A i \in DOMAIN s : place[i] \in DOMAIN s
  BY DEF Bijection, Injection
<1>8. \A i, j \in DOMAIN s : place[i] = place[j] => i = j
  BY DEF Bijection, Injection, IsInjective
<1>9. ASSUME NEW i \in DOMAIN s, NEW j \in DOMAIN s, i < j
      PROVE  TextOrder[InTextOrder(s)[i]] < TextOrder[InTextOrder(s)[j]]
  <2>1. i # j
    BY <1>1, <1>9
  <2>2. s[place[i]] # s[place[j]]
    BY <1>1, <1>7, <1>8, <2>1 DEF IsInjective
  <2>3. /\ rank[place[i]] = TextOrder[s[place[i]]]
        /\ rank[place[j]] = TextOrder[s[place[j]]]
        /\ rank[place[i]] <= rank[place[j]]
    BY <1>3, <1>6, <1>7, <1>9
  <2>4. TextOrder[s[place[i]]] # TextOrder[s[place[j]]]
    BY <1>2, <1>7, <2>2, FormatConstants
  <2>5. TextOrder[s[place[i]]] \in Nat /\ TextOrder[s[place[j]]] \in Nat
    BY <1>2, <1>7, FormatConstants
  <2>6. InTextOrder(s)[i] = s[place[i]] /\ InTextOrder(s)[j] = s[place[j]]
    BY <1>4, <1>6
  <2> QED
    BY <2>3, <2>4, <2>5, <2>6
<1> QED
  BY <1>5, <1>9 DEF ReferenceLists, Increasing

(***************************************************************************)
(* Of two increasing lists of the same references one begins the other.    *)
(***************************************************************************)
LEMMA IncreasingBegins ==
  ASSUME NEW s \in Seq(DOMAIN TextOrder), NEW t \in Seq(DOMAIN TextOrder),
         Increasing(s), Increasing(t), ToSet(s) = ToSet(t)
  PROVE  \A i \in DOMAIN s : i \in DOMAIN t /\ s[i] = t[i]
<1> DEFINE Wrong == {i \in DOMAIN s : ~(i \in DOMAIN t /\ s[i] = t[i])}
<1>1. SUFFICES ASSUME Wrong # {}
               PROVE  FALSE
  OBVIOUS
<1>2. DOMAIN s = 1..Len(s) /\ DOMAIN t = 1..Len(t) /\ Len(s) \in Nat /\ Len(t) \in Nat
  OBVIOUS
<1>3. Wrong \in SUBSET Nat
  BY <1>2
<1> HIDE DEF Wrong
<1>4. PICK i \in Wrong : \A k \in Wrong : i <= k
  BY <1>1, <1>3, Least
<1>5. i \in DOMAIN s /\ ~(i \in DOMAIN t /\ s[i] = t[i])
  BY DEF Wrong
<1>6. \A k \in DOMAIN s : k < i => k \in DOMAIN t /\ s[k] = t[k]
  BY <1>2, <1>4, <1>5 DEF Wrong
<1>7. \A k \in DOMAIN s : TextOrder[s[k]] \in Nat
  BY FormatConstants
<1>8. \A k \in DOMAIN t : TextOrder[t[k]] \in Nat
  BY FormatConstants
<1>9. \A k, l \in DOMAIN s : k < l => TextOrder[s[k]] < TextOrder[s[l]]
  BY DEF Increasing
<1>10. \A k, l \in DOMAIN t : k < l => TextOrder[t[k]] < TextOrder[t[l]]
  BY DEF Increasing
<1>11. PICK j \in DOMAIN t : t[j] = s[i]
  BY <1>5 DEF ToSet
<1>12. ~(j < i)
  <2>1. SUFFICES ASSUME j < i
                 PROVE  FALSE
    OBVIOUS
  <2>2. j \in DOMAIN s
    BY <1>2, <1>5, <2>1
  <2>3. s[j] = s[i]
    BY <1>6, <1>11, <2>1, <2>2
  <2> QED
    BY <1>5, <1>7, <1>9, <2>1, <2>2, <2>3
<1>13. i \in DOMAIN t /\ i < j
  BY <1>2, <1>5, <1>11, <1>12
<1>14. TextOrder[t[i]] < TextOrder[s[i]]
  BY <1>10, <1>11, <1>13
<1>15. PICK k \in DOMAIN s : s[k] = t[i]
  BY <1>13 DEF ToSet
<1>16. CASE k < i
  <2>1. k \in DOMAIN t /\ t[k] = t[i]
    BY <1>6, <1>15, <1>16
  <2> QED
    BY <1>8, <1>10, <1>13, <1>16, <2>1
<1>17. CASE k > i
  <2>1. TextOrder[s[i]] < TextOrder[t[i]]
    BY <1>2, <1>5, <1>9, <1>15, <1>17
  <2> QED
    BY <1>5, <1>7, <1>8, <1>13, <1>14, <2>1
<1>18. CASE k = i
  BY <1>5, <1>13, <1>15, <1>18
<1> QED
  BY <1>2, <1>5, <1>16, <1>17, <1>18

(***************************************************************************)
(* The same references in another order are sorted to the same list.       *)
(***************************************************************************)
LEMMA TextOrderCanonical ==
  ASSUME NEW s \in ReferenceLists, NEW t \in ReferenceLists, ToSet(s) = ToSet(t)
  PROVE  InTextOrder(s) = InTextOrder(t)
<1> DEFINE u == InTextOrder(s)
           v == InTextOrder(t)
<1>1. /\ u \in Seq(DOMAIN TextOrder) /\ v \in Seq(DOMAIN TextOrder)
      /\ Increasing(u) /\ Increasing(v) /\ ToSet(u) = ToSet(v)
  BY InTextOrderSorts DEF ReferenceLists
<1> HIDE DEF u, v
<1>2. \A i \in DOMAIN u : i \in DOMAIN v /\ u[i] = v[i]
  BY <1>1, IncreasingBegins
<1>3. \A i \in DOMAIN v : i \in DOMAIN u /\ v[i] = u[i]
  BY <1>1, IncreasingBegins
<1>4. Len(u) = Len(v)
  <2>1. DOMAIN u = 1..Len(u) /\ DOMAIN v = 1..Len(v) /\ Len(u) \in Nat /\ Len(v) \in Nat
    BY <1>1
  <2>2. Len(u) # 0 => Len(u) <= Len(v)
    BY <1>2, <2>1
  <2>3. Len(v) # 0 => Len(v) <= Len(u)
    BY <1>3, <2>1
  <2>4. Len(u) \in Nat /\ Len(v) \in Nat
    BY <2>1
  <2> QED
    BY <2>2, <2>3, <2>4
<1>5. u = v
  BY <1>1, <1>2, <1>4
<1> QED
  BY <1>5 DEF u, v

(***************************************************************************)
(* Any listing of the set of the references of a list is such a list.      *)
(***************************************************************************)
LEMMA SetListed ==
  ASSUME NEW s \in ReferenceLists
  PROVE  SetToSeq(ToSet(s)) \in ReferenceLists /\ ToSet(SetToSeq(ToSet(s))) = ToSet(s)
<1>1. s \in Seq(DOMAIN TextOrder) /\ IsInjective(s)
  BY DEF ReferenceLists
<1>2. /\ s \in [1..Len(s) -> ToSet(s)] /\ Len(s) \in Nat
      /\ ToSet(s) \subseteq DOMAIN TextOrder
  BY <1>1 DEF ToSet
<1>3. s \in Bijection(1..Len(s), ToSet(s))
  BY <1>1, <1>2 DEF Bijection, Injection, Surjection, ToSet, IsInjective
<1>4. ExistsBijection(1..Len(s), ToSet(s))
  BY <1>3 DEF ExistsBijection
<1>5. IsFiniteSet(1..Len(s)) /\ Cardinality(1..Len(s)) = Len(s)
  <2>1. 1 \in Int /\ Len(s) \in Int
    BY <1>2
  <2>2. /\ IsFiniteSet(1..Len(s))
        /\ Cardinality(1..Len(s)) = IF 1 > Len(s) THEN 0 ELSE Len(s) - 1 + 1
    BY <2>1, FS_Interval, Zenon
  <2> QED
    BY <1>2, <2>2
<1>6. IsFiniteSet(ToSet(s)) /\ Cardinality(ToSet(s)) = Len(s)
  BY <1>4, <1>5, FS_Bijection
<1> DEFINE t == SetToSeq(ToSet(s))
<1>7. t \in [1..Len(s) -> ToSet(s)] /\ IsInjective(t)
  BY <1>1, <1>2, <1>6 DEF SetToSeq
<1> HIDE DEF t
<1>8. t \in Injection(1..Len(s), ToSet(s))
  BY <1>7 DEF Injection
<1>9. t \in Surjection(1..Len(s), ToSet(s))
  BY <1>5, <1>6, <1>8, FS_Injection
<1>10. t \in Seq(DOMAIN TextOrder)
  BY <1>2, <1>7
<1>11. ToSet(t) = ToSet(s)
  BY <1>7, <1>9 DEF Surjection, ToSet
<1> QED
  BY <1>7, <1>10, <1>11 DEF ReferenceLists, t

-----------------------------------------------------------------------------
\* Numbers of digests

(***************************************************************************)
(* The partial sums of a number exist, and the last is the number.         *)
(***************************************************************************)
LEMMA NumberSums ==
  ASSUME NEW base \in Nat, NEW d \in Seq(Nat)
  PROVE  \E f \in [0..Len(d) -> Nat] :
           /\ f[0] = 0
           /\ \A k \in 1..Len(d) : f[k] = base * f[k - 1] + d[k]
           /\ Number(base, d) = f[Len(d)]
<1> DEFINE T == {m \in 0..Len(d) : \E f \in [0..m -> Nat] :
                   f[0] = 0 /\ \A k \in 1..m : f[k] = base * f[k - 1] + d[k]}
<1>0. Len(d) \in Nat /\ \A k \in 1..Len(d) : d[k] \in Nat
  OBVIOUS
<1>1. 0 \in T
  <2> DEFINE zero == [k \in 0..0 |-> 0]
  <2>1. zero \in [0..0 -> Nat] /\ zero[0] = 0
    OBVIOUS
  <2> HIDE DEF zero
  <2>2. \A k \in 1..0 : zero[k] = base * zero[k - 1] + d[k]
    OBVIOUS
  <2>3. \E f \in [0..0 -> Nat] : f[0] = 0 /\ \A k \in 1..0 : f[k] = base * f[k - 1] + d[k]
    BY <2>1, <2>2
  <2> QED
    BY <1>0, <2>3
<1>2. \A m \in 0..Len(d) : m < Len(d) /\ m \in T => m + 1 \in T
  <2>1. SUFFICES ASSUME NEW m \in 0..Len(d), m < Len(d), m \in T
                 PROVE  m + 1 \in T
    OBVIOUS
  <2>2. PICK f \in [0..m -> Nat] : f[0] = 0 /\ \A k \in 1..m : f[k] = base * f[k - 1] + d[k]
    BY <2>1
  <2>3. m \in Nat /\ m \in 0..m /\ m + 1 \in 1..Len(d)
    BY <1>0, <2>1
  <2>4. base * f[m] + d[m + 1] \in Nat
    <3>1. f[m] \in Nat /\ d[m + 1] \in Nat
      BY <1>0, <2>3
    <3>2. base * f[m] \in Nat
      BY <3>1
    <3> QED
      BY <3>1, <3>2
  <2> DEFINE g == [k \in 0..(m + 1) |-> IF k = m + 1 THEN base * f[m] + d[m + 1] ELSE f[k]]
  <2>5. g \in [0..(m + 1) -> Nat]
    BY <2>3, <2>4
  <2>6. g[0] = 0
    BY <2>2, <2>3
  <2>7. \A k \in 1..(m + 1) : g[k] = base * g[k - 1] + d[k]
    BY <2>2, <2>3, SMTT(30)
  <2> HIDE DEF g
  <2>8. \E h \in [0..(m + 1) -> Nat] :
          h[0] = 0 /\ \A k \in 1..(m + 1) : h[k] = base * h[k - 1] + d[k]
    BY <2>5, <2>6, <2>7
  <2>9. m + 1 \in 0..Len(d)
    BY <2>3
  <2> QED
    BY <2>8, <2>9
<1> HIDE DEF T
<1>3. \A m \in 0..Len(d) : m \in T
  BY <1>0, <1>1, <1>2, UpTo
<1>4. PICK f \in [0..Len(d) -> Nat] :
        f[0] = 0 /\ \A k \in 1..Len(d) : f[k] = base * f[k - 1] + d[k]
  <2>1. Len(d) \in T
    BY <1>0, <1>3
  <2> QED
    BY <2>1 DEF T
<1>5. f = [k \in 0..Len(d) |-> IF k = 0 THEN 0 ELSE base * f[k - 1] + d[k]]
  BY <1>0, <1>4
<1> DEFINE sum == CHOOSE g : g = [k \in 0..Len(d) |-> IF k = 0 THEN 0 ELSE base * g[k - 1] + d[k]]
<1>6. sum = [k \in 0..Len(d) |-> IF k = 0 THEN 0 ELSE base * sum[k - 1] + d[k]]
  BY <1>5
<1>7. Number(base, d) = sum[Len(d)]
  BY DEF Number
<1> HIDE DEF sum
<1>8. sum[0] = 0 /\ \A k \in 1..Len(d) : sum[k] = base * sum[k - 1] + d[k]
  BY <1>0, <1>6
<1> DEFINE Same == {m \in 0..Len(d) : sum[m] = f[m]}
<1>9. 0 \in Same
  BY <1>0, <1>4, <1>8
<1>10. \A m \in 0..Len(d) : m < Len(d) /\ m \in Same => m + 1 \in Same
  <2>1. SUFFICES ASSUME NEW m \in 0..Len(d), m < Len(d), sum[m] = f[m]
                 PROVE  m + 1 \in 0..Len(d) /\ sum[m + 1] = f[m + 1]
    OBVIOUS
  <2>2. m + 1 \in 1..Len(d) /\ (m + 1) - 1 = m
    BY <1>0, <2>1
  <2> QED
    BY <1>4, <1>8, <2>1, <2>2
<1> HIDE DEF Same
<1>11. \A m \in 0..Len(d) : m \in Same
  BY <1>0, <1>9, <1>10, UpTo
<1>12. Number(base, d) = f[Len(d)]
  BY <1>0, <1>7, <1>11 DEF Same
<1> QED
  BY <1>4, <1>12

(***************************************************************************)
(* Digits are numbers.                                                     *)
(***************************************************************************)
LEMMA DigitsAreNumbers ==
  ASSUME NEW limit \in Nat, NEW d \in Seq(0..limit)
  PROVE  /\ Len(d) \in Nat /\ DOMAIN d = 1..Len(d)
         /\ \A k \in 1..Len(d) : d[k] \in 0..limit
         /\ d \in Seq(Nat)
<1>1. Len(d) \in Nat /\ DOMAIN d = 1..Len(d) /\ \A k \in 1..Len(d) : d[k] \in 0..limit
  OBVIOUS
<1>2. d \in [1..Len(d) -> 0..limit]
  OBVIOUS
<1>3. d \in [1..Len(d) -> Nat]
  BY <1>2
<1> QED
  BY <1>1, <1>3

(***************************************************************************)
(* Sequences of one length with the same members are the same.             *)
(***************************************************************************)
LEMMA SameMembers ==
  ASSUME NEW S, NEW s \in Seq(S), NEW t \in Seq(S), Len(s) = Len(t),
         \A k \in 1..Len(s) : s[k] = t[k]
  PROVE  s = t
<1>1. /\ s = [k \in 1..Len(s) |-> s[k]]
      /\ t = [k \in 1..Len(t) |-> t[k]]
  OBVIOUS
<1> QED
  BY <1>1

(***************************************************************************)
(* Digits of one length and one number are the same digits.                *)
(***************************************************************************)
LEMMA DigitsInjective ==
  ASSUME NEW d \in Seq(0..31), NEW e \in Seq(0..31), Len(d) = Len(e),
         DigitsNumber(d) = DigitsNumber(e)
  PROVE  d = e
<1> DEFINE n == Len(d)
<1>1. /\ n \in Nat /\ d \in Seq(Nat) /\ e \in Seq(Nat)
      /\ \A k \in 1..n : d[k] \in 0..31 /\ e[k] \in 0..31
  BY DigitsAreNumbers
<1>2. PICK f \in [0..Len(d) -> Nat] :
        /\ f[0] = 0
        /\ \A k \in 1..Len(d) : f[k] = 32 * f[k - 1] + d[k]
        /\ Number(32, d) = f[Len(d)]
  BY <1>1, NumberSums
<1>3. PICK g \in [0..Len(e) -> Nat] :
        /\ g[0] = 0
        /\ \A k \in 1..Len(e) : g[k] = 32 * g[k - 1] + e[k]
        /\ Number(32, e) = g[Len(e)]
  BY <1>1, NumberSums
<1>f. \A k \in 0..n : f[k] \in Nat /\ g[k] \in Nat
  OBVIOUS
<1>4. /\ \A k \in 1..n : f[k] = 32 * f[k - 1] + d[k]
      /\ \A k \in 1..n : g[k] = 32 * g[k - 1] + e[k]
      /\ f[n] = g[n]
  BY <1>2, <1>3 DEF DigitsNumber
<1> HIDE DEF n
<1>5. \A k \in 1..n : f[k] = g[k] => f[k - 1] = g[k - 1] /\ d[k] = e[k]
  <2>1. SUFFICES ASSUME NEW k \in 1..n, f[k] = g[k]
                 PROVE  f[k - 1] = g[k - 1] /\ d[k] = e[k]
    OBVIOUS
  <2>2. 32 * f[k - 1] + d[k] = 32 * g[k - 1] + e[k]
    BY <1>4, <2>1
  <2>3. k - 1 \in 0..n
    BY <1>1
  <2>4. f[k - 1] \in Nat /\ g[k - 1] \in Nat /\ d[k] \in 0..31 /\ e[k] \in 0..31
    BY <1>1, <1>f, <2>3
  <2> DEFINE a == f[k - 1]
             b == g[k - 1]
             x == d[k]
             y == e[k]
  <2>5. a \in Nat /\ b \in Nat /\ x \in 0..31 /\ y \in 0..31 /\ 32 * a + x = 32 * b + y
    BY <2>2, <2>4
  <2> HIDE DEF a, b, x, y
  <2>6. a = b /\ x = y
    BY <2>5
  <2> QED
    BY <2>6 DEF a, b, x, y
<1> DEFINE T == {m \in 0..n : f[n - m] = g[n - m]}
<1>6. 0 \in T
  BY <1>1, <1>4
<1>7. \A m \in 0..n : m < n /\ m \in T => m + 1 \in T
  <2>1. SUFFICES ASSUME NEW m \in 0..n, m < n, f[n - m] = g[n - m]
                 PROVE  m + 1 \in 0..n /\ f[n - (m + 1)] = g[n - (m + 1)]
    OBVIOUS
  <2>2. n - m \in 1..n /\ (n - m) - 1 = n - (m + 1) /\ m + 1 \in 0..n
    BY <1>1, <2>1
  <2> QED
    BY <1>5, <2>1, <2>2
<1> HIDE DEF T
<1>8. \A m \in 0..n : m \in T
  BY <1>1, <1>6, <1>7, UpTo
<1>9. \A k \in 1..n : f[k] = g[k]
  <2>1. SUFFICES ASSUME NEW k \in 1..n
                 PROVE  f[k] = g[k]
    OBVIOUS
  <2>2. n - k \in 0..n /\ n - (n - k) = k
    BY <1>1
  <2> QED
    BY <1>8, <2>2 DEF T
<1>10. \A k \in 1..n : d[k] = e[k]
  BY <1>5, <1>9
<1>11. \A k \in 1..Len(d) : d[k] = e[k]
  BY <1>10 DEF n
<1> QED
  BY <1>11, SameMembers

Two(j) == 2^j

\* What is left of the number of bytes above digit n
Part(rest, n) == rest[(5 * n) \div 8] \div Two((5 * n) % 8)

\* NixBase32Digit on bytes that go on with zeros
Digit(byte, n) ==
  LET i == (5 * n) \div 8
      j == (5 * n) % 8
  IN  ((byte[i] \div Two(j)) + (IF j # 0 THEN (byte[i + 1] * Two(8 - j)) % 256 ELSE 0)) % 32

\* Bytes, from the least significant, and what is left above each of them
Joined(value, high, low) == value = 256 * high + low

Above(byte, rest) == \A i \in Nat : Joined(rest[i], rest[i + 1], byte[i])

\* The bits of two bytes that go into a digit, by the bit it begins with
Bits(r, q, b, c) ==
  /\ r = 32 * (r \div 32) + (b % 32)
  /\ r \div 2 = 32 * (r \div 64) + (((b \div 2) + ((c * 128) % 256)) % 32)
  /\ r \div 4 = 32 * (r \div 128) + (((b \div 4) + ((c * 64) % 256)) % 32)
  /\ r \div 8 = 32 * q + (((b \div 8) + ((c * 32) % 256)) % 32)
  /\ r \div 16 = 32 * (q \div 2) + (((b \div 16) + ((c * 16) % 256)) % 32)
  /\ r \div 32 = 32 * (q \div 4) + (((b \div 32) + ((c * 8) % 256)) % 32)
  /\ r \div 64 = 32 * (q \div 8) + (((b \div 64) + ((c * 4) % 256)) % 32)
  /\ r \div 128 = 32 * (q \div 16) + (((b \div 128) + ((c * 2) % 256)) % 32)

(***************************************************************************)
(* Bytes b and c, and what is left above them, q with c and r with both.   *)
(***************************************************************************)
LEMMA FiveBits ==
  ASSUME NEW v \in Nat, NEW b \in 0..255, NEW c \in 0..255, NEW q \in Nat, NEW r \in Nat,
         Joined(q, v, c), Joined(r, q, b)
  PROVE  Bits(r, q, b, c)
<1>0. q = 256 * v + c /\ r = 256 * q + b
  BY DEF Joined
<1>1. r = 32 * (r \div 32) + (b % 32)
  BY <1>0
<1>2. r \div 2 = 32 * (r \div 64) + (((b \div 2) + ((c * 128) % 256)) % 32)
  BY <1>0
<1>3. r \div 4 = 32 * (r \div 128) + (((b \div 4) + ((c * 64) % 256)) % 32)
  BY <1>0
<1>4. r \div 8 = 32 * q + (((b \div 8) + ((c * 32) % 256)) % 32)
  BY <1>0
<1>5. r \div 16 = 32 * (q \div 2) + (((b \div 16) + ((c * 16) % 256)) % 32)
  BY <1>0, SMTT(30)
<1>6. r \div 32 = 32 * (q \div 4) + (((b \div 32) + ((c * 8) % 256)) % 32)
  BY <1>0
<1>7. r \div 64 = 32 * (q \div 8) + (((b \div 64) + ((c * 4) % 256)) % 32)
  BY <1>0
<1>8. r \div 128 = 32 * (q \div 16) + (((b \div 128) + ((c * 2) % 256)) % 32)
  <2>1. r \div 128 = 512 * v + 2 * c + (b \div 128)
    BY <1>0
  <2>2. q \div 16 = 16 * v + (c \div 16)
    BY <1>0
  <2>3. 2 * c + (b \div 128) = 32 * (c \div 16) + (((b \div 128) + ((c * 2) % 256)) % 32)
    OBVIOUS
  <2> QED
    BY <2>1, <2>2, <2>3
<1> QED
  BY <1>1, <1>2, <1>3, <1>4, <1>5, <1>6, <1>7, <1>8 DEF Bits

(***************************************************************************)
(* What becomes of a number that is shifted.                               *)
(***************************************************************************)
LEMMA Shifts ==
  ASSUME NEW a \in Nat, NEW j \in 0..7
  PROVE  /\ a \div Two(j) \in Nat /\ 0 \div Two(j) = 0
         /\ a * Two(8 - j) \in Nat /\ Two(8 - j) \in Nat
<1>1. /\ Two(0) = 1 /\ Two(1) = 2 /\ Two(2) = 4 /\ Two(3) = 8 /\ Two(4) = 16
      /\ Two(5) = 32 /\ Two(6) = 64 /\ Two(7) = 128 /\ Two(8) = 256
  BY DEF Two
<1>c0. CASE j = 0
  BY <1>1, <1>c0
<1>c1. CASE j = 1
  BY <1>1, <1>c1
<1>c2. CASE j = 2
  BY <1>1, <1>c2
<1>c3. CASE j = 3
  BY <1>1, <1>c3
<1>c4. CASE j = 4
  BY <1>1, <1>c4
<1>c5. CASE j = 5
  BY <1>1, <1>c5
<1>c6. CASE j = 6
  BY <1>1, <1>c6
<1>c7. CASE j = 7
  BY <1>1, <1>c7
<1> QED
  BY <1>c0, <1>c1, <1>c2, <1>c3, <1>c4, <1>c5, <1>c6, <1>c7

(***************************************************************************)
(* A digit takes what is left below the digits above it.                   *)
(***************************************************************************)
LEMMA DigitTakes ==
  ASSUME NEW byte \in [Nat -> 0..255], NEW rest \in [Nat -> Nat],
         Above(byte, rest), NEW n \in Nat
  PROVE  Part(rest, n) = 32 * Part(rest, n + 1) + Digit(byte, n)
<1> DEFINE i == (5 * n) \div 8
           j == (5 * n) % 8
<1>i. i \in Nat /\ j \in 0..7 /\ i = (5 * n) \div 8 /\ j = (5 * n) % 8
  OBVIOUS
<1> HIDE DEF i, j
<1>1. Joined(rest[i], rest[i + 1], byte[i]) /\ Joined(rest[i + 1], rest[(i + 1) + 1], byte[i + 1])
  BY <1>i DEF Above
<1>2. /\ rest[i] \in Nat /\ rest[i + 1] \in Nat /\ rest[(i + 1) + 1] \in Nat
      /\ byte[i] \in 0..255 /\ byte[i + 1] \in 0..255
  BY <1>i
<1>t. /\ Two(0) = 1 /\ Two(1) = 2 /\ Two(2) = 4 /\ Two(3) = 8 /\ Two(4) = 16
      /\ Two(5) = 32 /\ Two(6) = 64 /\ Two(7) = 128 /\ Two(8) = 256
  BY DEF Two
<1>3. Bits(rest[i], rest[i + 1], byte[i], byte[i + 1])
  BY <1>1, <1>2, FiveBits
<1>c0. CASE j = 0
  <2>1. (5 * (n + 1)) \div 8 = i /\ (5 * (n + 1)) % 8 = 5
    BY <1>c0, <1>i
  <2>2. /\ Part(rest, n) = rest[i]
        /\ Part(rest, n + 1) = rest[i] \div 32
    BY <1>c0, <1>i, <1>2, <1>t, <2>1, SMTT(30) DEF Part
  <2>3. Digit(byte, n) = (byte[i]) % 32
    BY <1>c0, <1>i, <1>2, <1>t DEF Digit
  <2> QED
    BY <1>3, <2>2, <2>3 DEF Bits
<1>c1. CASE j = 1
  <2>1. (5 * (n + 1)) \div 8 = i /\ (5 * (n + 1)) % 8 = 6
    BY <1>c1, <1>i
  <2>2. /\ Part(rest, n) = rest[i] \div 2
        /\ Part(rest, n + 1) = rest[i] \div 64
    BY <1>c1, <1>i, <1>2, <1>t, <2>1 DEF Part
  <2>3. Digit(byte, n) = ((byte[i] \div 2) + ((byte[i + 1] * 128) % 256)) % 32
    BY <1>c1, <1>i, <1>2, <1>t DEF Digit
  <2> QED
    BY <1>3, <2>2, <2>3 DEF Bits
<1>c2. CASE j = 2
  <2>1. (5 * (n + 1)) \div 8 = i /\ (5 * (n + 1)) % 8 = 7
    BY <1>c2, <1>i
  <2>2. /\ Part(rest, n) = rest[i] \div 4
        /\ Part(rest, n + 1) = rest[i] \div 128
    BY <1>c2, <1>i, <1>2, <1>t, <2>1 DEF Part
  <2>3. Digit(byte, n) = ((byte[i] \div 4) + ((byte[i + 1] * 64) % 256)) % 32
    BY <1>c2, <1>i, <1>2, <1>t DEF Digit
  <2> QED
    BY <1>3, <2>2, <2>3 DEF Bits
<1>c3. CASE j = 3
  <2>1. (5 * (n + 1)) \div 8 = i + 1 /\ (5 * (n + 1)) % 8 = 0
    BY <1>c3, <1>i
  <2>2. /\ Part(rest, n) = rest[i] \div 8
        /\ Part(rest, n + 1) = rest[i + 1]
    BY <1>c3, <1>i, <1>2, <1>t, <2>1 DEF Part
  <2>3. Digit(byte, n) = ((byte[i] \div 8) + ((byte[i + 1] * 32) % 256)) % 32
    BY <1>c3, <1>i, <1>2, <1>t DEF Digit
  <2> QED
    BY <1>3, <2>2, <2>3 DEF Bits
<1>c4. CASE j = 4
  <2>1. (5 * (n + 1)) \div 8 = i + 1 /\ (5 * (n + 1)) % 8 = 1
    BY <1>c4, <1>i
  <2>2. /\ Part(rest, n) = rest[i] \div 16
        /\ Part(rest, n + 1) = rest[i + 1] \div 2
    BY <1>c4, <1>i, <1>2, <1>t, <2>1 DEF Part
  <2>3. Digit(byte, n) = ((byte[i] \div 16) + ((byte[i + 1] * 16) % 256)) % 32
    BY <1>c4, <1>i, <1>2, <1>t DEF Digit
  <2> QED
    BY <1>3, <2>2, <2>3 DEF Bits
<1>c5. CASE j = 5
  <2>1. (5 * (n + 1)) \div 8 = i + 1 /\ (5 * (n + 1)) % 8 = 2
    BY <1>c5, <1>i
  <2>2. /\ Part(rest, n) = rest[i] \div 32
        /\ Part(rest, n + 1) = rest[i + 1] \div 4
    BY <1>c5, <1>i, <1>2, <1>t, <2>1 DEF Part
  <2>3. Digit(byte, n) = ((byte[i] \div 32) + ((byte[i + 1] * 8) % 256)) % 32
    BY <1>c5, <1>i, <1>2, <1>t DEF Digit
  <2> QED
    BY <1>3, <2>2, <2>3 DEF Bits
<1>c6. CASE j = 6
  <2>1. (5 * (n + 1)) \div 8 = i + 1 /\ (5 * (n + 1)) % 8 = 3
    BY <1>c6, <1>i
  <2>2. /\ Part(rest, n) = rest[i] \div 64
        /\ Part(rest, n + 1) = rest[i + 1] \div 8
    BY <1>c6, <1>i, <1>2, <1>t, <2>1 DEF Part
  <2>3. Digit(byte, n) = ((byte[i] \div 64) + ((byte[i + 1] * 4) % 256)) % 32
    BY <1>c6, <1>i, <1>2, <1>t DEF Digit
  <2> QED
    BY <1>3, <2>2, <2>3 DEF Bits
<1>c7. CASE j = 7
  <2>1. (5 * (n + 1)) \div 8 = i + 1 /\ (5 * (n + 1)) % 8 = 4
    BY <1>c7, <1>i
  <2>2. /\ Part(rest, n) = rest[i] \div 128
        /\ Part(rest, n + 1) = rest[i + 1] \div 16
    BY <1>c7, <1>i, <1>2, <1>t, <2>1 DEF Part
  <2>3. Digit(byte, n) = ((byte[i] \div 128) + ((byte[i + 1] * 2) % 256)) % 32
    BY <1>c7, <1>i, <1>2, <1>t DEF Digit
  <2> QED
    BY <1>3, <2>2, <2>3 DEF Bits
<1> QED
  BY <1>i, <1>c0, <1>c1, <1>c2, <1>c3, <1>c4, <1>c5, <1>c6, <1>c7

(***************************************************************************)
(* How many digits the bytes of a digest take.                             *)
(***************************************************************************)
LEMMA DigitCount ==
  ASSUME NEW n \in Nat
  PROVE  /\ NixBase32Length(n) \in Nat
         /\ (5 * NixBase32Length(n)) \div 8 >= n
  BY DEF NixBase32Length

(***************************************************************************)
(* The nix32 digits of bytes are digits, as many as the length says, and   *)
(* their number is the number of the bytes.                                *)
(***************************************************************************)
LEMMA Nix32KeepsNumber ==
  ASSUME NEW bytes \in Seq(0..255)
  PROVE  /\ EncodeNixBase32(bytes) \in Seq(0..31)
         /\ Len(EncodeNixBase32(bytes)) = NixBase32Length(Len(bytes))
         /\ DigitsNumber(EncodeNixBase32(bytes)) = BytesNumber(bytes)
<1> DEFINE n == Len(bytes)
           count == NixBase32Length(n)
           digits == EncodeNixBase32(bytes)
           turned == Reverse(bytes)
<1>0. n \in Nat /\ DOMAIN bytes = 1..n /\ \A i \in 1..n : bytes[i] \in 0..255
  BY DigitsAreNumbers, ZenonT(60)
<1>1. count \in Nat /\ (5 * count) \div 8 >= n
  BY <1>0, DigitCount
<1>2. /\ turned \in Seq(0..255) /\ Len(turned) = n
      /\ \A k \in 1..n : turned[k] = bytes[n - k + 1]
  <2>1. turned = [i \in 1..n |-> bytes[(n - i) + 1]]
    BY DEF Reverse
  <2>2. \A i \in 1..n : (n - i) + 1 \in 1..n
    BY <1>0
  <2>3. turned \in [1..n -> 0..255]
    BY <1>0, <2>1, <2>2
  <2> HIDE DEF n, turned
  <2>4. turned \in Seq(0..255) /\ Len(turned) = n
    BY <1>0, <2>3
  <2>5. \A k \in 1..n : turned[k] = bytes[n - k + 1]
    BY <1>0, <2>1
  <2> QED
    BY <2>4, <2>5
<1>3. turned \in Seq(Nat)
  BY <1>2, DigitsAreNumbers, ZenonT(60)
<1> HIDE DEF n, turned
<1>4. PICK sum \in [0..Len(turned) -> Nat] :
        /\ sum[0] = 0
        /\ \A k \in 1..Len(turned) : sum[k] = 256 * sum[k - 1] + turned[k]
        /\ Number(256, turned) = sum[Len(turned)]
  BY <1>3, NumberSums, ZenonT(60)
<1>5. /\ sum \in [0..n -> Nat] /\ sum[0] = 0
      /\ \A k \in 1..n : sum[k] = 256 * sum[k - 1] + turned[k]
      /\ BytesNumber(bytes) = sum[n]
  BY <1>2, <1>4 DEF BytesNumber, turned
<1> DEFINE byte == [i \in Nat |-> IF i < n THEN bytes[i + 1] ELSE 0]
           rest == [i \in Nat |-> IF i <= n THEN sum[n - i] ELSE 0]
<1>6. byte \in [Nat -> 0..255]
  <2>1. \A i \in Nat : i < n => i + 1 \in 1..n
    BY <1>0
  <2> QED
    BY <1>0, <2>1
<1>7. rest \in [Nat -> Nat]
  <2>1. \A i \in Nat : i <= n => n - i \in 0..n
    BY <1>0
  <2> QED
    BY <1>5, <2>1
<1>8. Above(byte, rest)
  <2>1. SUFFICES ASSUME NEW i \in Nat
                 PROVE  rest[i] = 256 * rest[i + 1] + byte[i]
    BY DEF Above, Joined
  <2>2. CASE i < n
    <3>1. /\ n - i \in 1..n /\ (n - i) - 1 = n - (i + 1) /\ n - (n - i) + 1 = i + 1
          /\ i <= n /\ i + 1 <= n
      BY <1>0, <2>2
    <3>2. sum[n - i] = 256 * sum[n - (i + 1)] + turned[n - i]
      BY <1>5, <3>1
    <3>3. turned[n - i] = bytes[i + 1]
      BY <1>2, <3>1
    <3> QED
      BY <2>2, <3>1, <3>2, <3>3
  <2>3. CASE i = n
    BY <1>0, <1>5, <2>3
  <2>4. CASE i > n
    BY <1>0, <2>4
  <2>5. i < n \/ i = n \/ i > n
    BY <1>0
  <2> QED
    BY <2>2, <2>3, <2>4, <2>5
<1>9. \A i \in Nat : i >= n => rest[i] = 0
  <2>1. SUFFICES ASSUME NEW i \in Nat, i >= n
                 PROVE  rest[i] = 0
    OBVIOUS
  <2>2. CASE i = n
    BY <1>0, <1>5, <2>2
  <2>3. CASE i > n
    BY <1>0, <2>3
  <2> QED
    BY <1>0, <2>1, <2>2, <2>3
<1>10. rest[0] = sum[n]
  BY <1>0, <1>5
<1>11. \A k \in Nat : NixBase32Digit(bytes, k) = Digit(byte, k)
  <2>1. SUFFICES ASSUME NEW k \in Nat
                 PROVE  NixBase32Digit(bytes, k) = Digit(byte, k)
    OBVIOUS
  <2> DEFINE i == (5 * k) \div 8
             j == (5 * k) % 8
  <2>2. i \in Nat /\ j \in 0..7
    OBVIOUS
  <2>3. NixBase32Digit(bytes, k) =
          ((IF i < n THEN bytes[i + 1] \div Two(j) ELSE 0)
           + (IF i + 1 < n /\ j # 0 THEN (bytes[i + 2] * Two(8 - j)) % 256 ELSE 0)) % 32
    BY DEF NixBase32Digit, Two, n
  <2>4. Digit(byte, k) =
          ((byte[i] \div Two(j)) + (IF j # 0 THEN (byte[i + 1] * Two(8 - j)) % 256 ELSE 0)) % 32
    BY DEF Digit
  <2> HIDE DEF i, j
  <2>7. byte[i] = IF i < n THEN bytes[i + 1] ELSE 0
    BY <2>2
  <2>8. byte[i + 1] = IF i + 1 < n THEN bytes[i + 2] ELSE 0
    BY <2>2
  <2> HIDE DEF byte
  <2>9. 0 \div Two(j) = 0
    BY <2>2, Shifts
  <2>10. j # 0 => (0 * Two(8 - j)) % 256 = 0
    <3>1. Two(8 - j) \in Nat
      BY <2>2, Shifts
    <3> QED
      BY <3>1
  <2> QED
    BY <2>3, <2>4, <2>7, <2>8, <2>9, <2>10
<1> HIDE DEF byte, rest
<1>12. \A k \in Nat : Digit(byte, k) \in 0..31
  <2>1. SUFFICES ASSUME NEW k \in Nat
                 PROVE  Digit(byte, k) \in 0..31
    OBVIOUS
  <2> DEFINE i == (5 * k) \div 8
             j == (5 * k) % 8
  <2>2. i \in Nat /\ j \in 0..7
    OBVIOUS
  <2>4. Digit(byte, k) =
          ((byte[i] \div Two(j)) + (IF j # 0 THEN (byte[i + 1] * Two(8 - j)) % 256 ELSE 0)) % 32
    BY DEF Digit
  <2> HIDE DEF i, j
  <2>5. byte[i] \in 0..255 /\ byte[i + 1] \in 0..255
    BY <1>6, <2>2
  <2>3. byte[i] \in Nat /\ byte[i + 1] \in Nat
    <3>1. \A b \in 0..255 : b \in Nat
      OBVIOUS
    <3> QED
      BY <2>5, <3>1, Zenon
  <2> DEFINE low == byte[i] \div Two(j)
             high == IF j # 0 THEN (byte[i + 1] * Two(8 - j)) % 256 ELSE 0
  <2>6. byte[i] \div Two(j) \in Nat
    BY <2>2, <2>3, Shifts
  <2>7. low \in Int
    BY <2>6
  <2>8. high \in Int
    <3>1. CASE j # 0
      <4>1. byte[i + 1] * Two(8 - j) \in Nat
        BY <2>2, <2>3, Shifts
      <4> QED
        BY <3>1, <4>1
    <3> QED
      BY <3>1
  <2>9. Digit(byte, k) = (low + high) % 32
    BY <2>4
  <2> HIDE DEF low, high
  <2> QED
    BY <2>7, <2>8, <2>9
<1>13. digits = [k \in 1..count |-> Digit(byte, count - k)]
  <2>1. digits = [k \in 1..count |-> NixBase32Digit(bytes, count - k)]
    BY DEF EncodeNixBase32, n
  <2>2. \A k \in 1..count : count - k \in Nat
    BY <1>1
  <2> HIDE DEF digits, count
  <2> QED
    BY <1>11, <2>1, <2>2
<1> HIDE DEF digits, count
<1>14. digits \in [1..count -> 0..31]
  <2>1. \A k \in 1..count : Digit(byte, count - k) \in 0..31
    BY <1>1, <1>12
  <2> QED
    BY <1>13, <2>1
<1>15. digits \in Seq(0..31) /\ Len(digits) = count
  BY <1>1, <1>14
<1>16. digits \in Seq(Nat)
  BY <1>15, DigitsAreNumbers
<1>17. PICK f \in [0..Len(digits) -> Nat] :
         /\ f[0] = 0
         /\ \A k \in 1..Len(digits) : f[k] = 32 * f[k - 1] + digits[k]
         /\ Number(32, digits) = f[Len(digits)]
  BY <1>16, NumberSums
<1>18. /\ f[0] = 0
       /\ \A k \in 1..count : f[k] = 32 * f[k - 1] + Digit(byte, count - k)
       /\ DigitsNumber(digits) = f[count]
  BY <1>13, <1>15, <1>17 DEF DigitsNumber
<1> DEFINE T == {k \in 0..count : f[k] = Part(rest, count - k)}
<1>19. 0 \in T
  <2>1. (5 * count) \div 8 \in Nat /\ (5 * count) % 8 \in 0..7
    BY <1>1
  <2>2. rest[(5 * count) \div 8] = 0
    BY <1>1, <1>9, <2>1
  <2>3. /\ Two(0) = 1 /\ Two(1) = 2 /\ Two(2) = 4 /\ Two(3) = 8 /\ Two(4) = 16
        /\ Two(5) = 32 /\ Two(6) = 64 /\ Two(7) = 128
    BY DEF Two
  <2>4. 0 \div Two((5 * count) % 8) = 0
    BY <2>1, <2>3
  <2>5. Part(rest, count) = 0
    BY <2>2, <2>4 DEF Part
  <2> QED
    BY <1>1, <1>18, <2>5
<1>20. \A k \in 0..count : k < count /\ k \in T => k + 1 \in T
  <2>1. SUFFICES ASSUME NEW k \in 0..count, k < count, f[k] = Part(rest, count - k)
                 PROVE  k + 1 \in 0..count /\ f[k + 1] = Part(rest, count - (k + 1))
    OBVIOUS
  <2>2. /\ count - (k + 1) \in Nat /\ (count - (k + 1)) + 1 = count - k
        /\ k + 1 \in 1..count /\ k + 1 \in 0..count /\ (k + 1) - 1 = k
    BY <1>1, <2>1
  <2>3. Part(rest, count - (k + 1)) = 32 * Part(rest, count - k) + Digit(byte, count - (k + 1))
    BY <1>6, <1>7, <1>8, <2>2, DigitTakes
  <2>4. f[k + 1] = 32 * f[k] + Digit(byte, count - (k + 1))
    BY <1>18, <2>2
  <2> QED
    BY <2>1, <2>2, <2>3, <2>4
<1> HIDE DEF T
<1>21. \A k \in 0..count : k \in T
  BY <1>1, <1>19, <1>20, UpTo
<1>22. f[count] = Part(rest, 0)
  BY <1>1, <1>21 DEF T
<1>23. Part(rest, 0) = sum[n]
  <2>1. (5 * 0) \div 8 = 0 /\ (5 * 0) % 8 = 0 /\ Two(0) = 1
    BY DEF Two
  <2>2. rest[0] \in Nat
    BY <1>7
  <2> QED
    BY <1>10, <2>1, <2>2 DEF Part
<1>24. DigitsNumber(digits) = BytesNumber(bytes)
  BY <1>5, <1>18, <1>22, <1>23
<1> QED
  BY <1>15, <1>24 DEF digits, count, n

-----------------------------------------------------------------------------
\* Store paths

(***************************************************************************)
(* A path in the store directory is read back from its name.               *)
(***************************************************************************)
LEMMA DisplayedIsRead ==
  ASSUME NEW p \in Paths, InStoreDir(p)
  PROVE  /\ DisplayPath(p) \in Paths
         /\ NixPath(DisplayPath(p)) = p
         /\ ExpandDisplayPath(DisplayPath(p)) = p
<1> DEFINE name == SubSeq(p.segments, Len(StoreDir) + 1, Len(p.segments))
<1>1. /\ p.absolute = TRUE /\ p.segments \in Seq(Segments)
      /\ p = [absolute |-> TRUE, segments |-> p.segments]
  BY DEF Paths, InStoreDir
<1>2. StoreDir \in Seq(Segments)
  BY FormatConstants
<1>3. /\ Len(StoreDir) \in Nat /\ Len(p.segments) \in Nat
      /\ Len(StoreDir) <= Len(p.segments)
      /\ SubSeq(StoreDir, 1, Len(StoreDir)) = SubSeq(p.segments, 1, Len(StoreDir))
  BY <1>1, <1>2 DEF InStoreDir, IsPrefix
<1>4. \A i \in 1..Len(StoreDir) : p.segments[i] = StoreDir[i]
  <2>1. SUFFICES ASSUME NEW i \in 1..Len(StoreDir)
                 PROVE  p.segments[i] = StoreDir[i]
    OBVIOUS
  <2>2. SubSeq(StoreDir, 1, Len(StoreDir))[i] = StoreDir[i]
    BY <1>2
  <2>3. SubSeq(p.segments, 1, Len(StoreDir))[i] = p.segments[i]
    BY <1>1, <1>3
  <2> QED
    BY <1>3, <2>2, <2>3
<1>5. /\ name \in Seq(Segments) /\ Len(name) = Len(p.segments) - Len(StoreDir)
      /\ \A i \in 1..Len(name) : name[i] = p.segments[Len(StoreDir) + i]
  BY <1>1, <1>3
<1>6. DisplayPath(p) = [absolute |-> FALSE, segments |-> name]
  BY DEF DisplayPath
<1> HIDE DEF name
<1>7. StoreDir \o name = p.segments
  <2>1. StoreDir \o name \in Seq(Segments) /\ Len(StoreDir \o name) = Len(p.segments)
    BY <1>2, <1>3, <1>5
  <2>2. ASSUME NEW i \in 1..Len(p.segments)
        PROVE  (StoreDir \o name)[i] = p.segments[i]
    <3>1. CASE i <= Len(StoreDir)
      BY <1>2, <1>3, <1>4, <1>5, <3>1
    <3>2. CASE i > Len(StoreDir)
      <4>1. /\ i - Len(StoreDir) \in 1..Len(name)
            /\ Len(StoreDir) + (i - Len(StoreDir)) = i
        BY <1>3, <1>5, <3>2
      <4>2. (StoreDir \o name)[i] = name[i - Len(StoreDir)]
        BY <1>2, <1>3, <1>5, <3>2
      <4> QED
        BY <1>5, <4>1, <4>2
    <3>3. Len(StoreDir) \in Nat /\ Len(p.segments) \in Nat
      BY <1>3
    <3>4. i <= Len(StoreDir) \/ i > Len(StoreDir)
      BY <3>3
    <3> QED
      BY <3>1, <3>2, <3>4
  <2>3. \A i \in 1..Len(p.segments) : (StoreDir \o name)[i] = p.segments[i]
    BY <2>2
  <2> DEFINE whole == StoreDir \o name
             segments == p.segments
  <2>4. /\ whole \in Seq(Segments) /\ segments \in Seq(Segments) /\ Len(whole) = Len(segments)
        /\ \A i \in 1..Len(segments) : whole[i] = segments[i]
    BY <1>1, <2>1, <2>3
  <2> HIDE DEF whole, segments
  <2>5. whole = segments
    BY <2>4
  <2> QED
    BY <2>5 DEF whole, segments
<1>8. DisplayPath(p) \in Paths /\ ~InStoreDir(DisplayPath(p))
  BY <1>5, <1>6 DEF Paths, InStoreDir
<1> QED
  BY <1>1, <1>6, <1>7, <1>8 DEF NixPath, ExpandDisplayPath

(***************************************************************************)
(* A name stands for the same path for a depot and for Nix.                *)
(***************************************************************************)
LEMMA NameExpanded ==
  ASSUME NEW p \in Paths, IsName(p)
  PROVE  /\ ExpandDisplayPath(p) \in Paths
         /\ InStoreDir(ExpandDisplayPath(p))
         /\ NixPath(p) = ExpandDisplayPath(p)
<1>1. CASE InStoreDir(p)
  BY <1>1 DEF Paths, InStoreDir, ExpandDisplayPath, NixPath
<1>2. CASE ~p.absolute
  <2> DEFINE whole == StoreDir \o p.segments
  <2>1. p.segments \in Seq(Segments) /\ StoreDir \in Seq(Segments)
    BY FormatConstants DEF Paths
  <2>2. ExpandDisplayPath(p) = [absolute |-> TRUE, segments |-> whole]
    BY <1>2 DEF ExpandDisplayPath, InStoreDir
  <2>3. NixPath(p) = [absolute |-> TRUE, segments |-> whole]
    BY <1>2 DEF NixPath
  <2>4. /\ whole \in Seq(Segments) /\ Len(StoreDir) \in Nat
        /\ Len(whole) = Len(StoreDir) + Len(p.segments) /\ Len(p.segments) \in Nat
        /\ \A i \in 1..Len(StoreDir) : whole[i] = StoreDir[i]
    BY <2>1
  <2> HIDE DEF whole
  <2>5. SubSeq(whole, 1, Len(StoreDir)) = SubSeq(StoreDir, 1, Len(StoreDir))
    BY <2>1, <2>4
  <2>6. IsPrefix(StoreDir, whole)
    BY <2>4, <2>5 DEF IsPrefix
  <2> QED
    BY <2>2, <2>3, <2>4, <2>6 DEF Paths, InStoreDir
<1> QED
  BY <1>1, <1>2 DEF IsName

-----------------------------------------------------------------------------
\* Hashes and content addresses

(***************************************************************************)
(* A sequence of numbers below a limit is one of digits.                   *)
(***************************************************************************)
LEMMA BelowLimit ==
  ASSUME NEW limit \in Nat, NEW d \in Seq(Nat), \A i \in DOMAIN d : d[i] < limit + 1
  PROVE  d \in Seq(0..limit)
<1>1. d \in [1..Len(d) -> Nat] /\ Len(d) \in Nat /\ DOMAIN d = 1..Len(d)
  OBVIOUS
<1>2. \A i \in 1..Len(d) : d[i] \in 0..limit
  BY <1>1
<1>3. d \in [1..Len(d) -> 0..limit]
  BY <1>1, <1>2
<1> QED
  BY <1>1, <1>3

(***************************************************************************)
(* The digits of a normalized hash.                                        *)
(***************************************************************************)
LEMMA NormalizedDigits ==
  ASSUME NEW h \in HashTexts, Normalizable(h)
  PROVE  /\ Normalized(h).digest.data \in Seq(0..31)
         /\ HashValue(h) = [algorithm |-> "sha256",
                            number |-> DigitsNumber(Normalized(h).digest.data)]
         /\ Whole(h) => Len(Normalized(h).digest.data) = NixBase32Length(DigestBytes)
<1>1. /\ h.algorithm = "sha256" /\ h.digest.data \in Seq(Nat)
      /\ h.form \in Base64Forms \/ (h.form \in Nix32Forms /\ h.digest.alphabet = "nix32"
                                     /\ Len(h.digest.data) = NixBase32Length(DigestBytes))
      /\ h.form \in Base64Forms => h.digest.alphabet = "base64"
      /\ \A i \in DOMAIN h.digest.data :
           h.digest.data[i] < IF h.digest.alphabet = "nix32" THEN 32 ELSE 256
  BY DEF HashTexts, Digests, Normalizable
<1> DEFINE data == h.digest.data
           digits == Normalized(h).digest.data
<1>2. digits = IF h.form \in Base64Forms THEN EncodeNixBase32(data) ELSE data
  BY DEF Normalized
<1>3. HashValue(h) = [algorithm |-> h.algorithm,
                      number |-> IF h.digest.alphabet = "nix32" THEN DigitsNumber(data)
                                                                ELSE BytesNumber(data)]
  BY DEF HashValue
<1> HIDE DEF digits
<1>4. CASE h.form \in Base64Forms
  <2>1. h.digest.alphabet = "base64" /\ \A i \in DOMAIN data : data[i] < 255 + 1
    BY <1>1, <1>4
  <2>2. data \in Seq(0..255)
    BY <1>1, <2>1, BelowLimit, ZenonT(60)
  <2>3. /\ digits \in Seq(0..31) /\ Len(digits) = NixBase32Length(Len(data))
        /\ DigitsNumber(digits) = BytesNumber(data)
    BY <1>2, <1>4, <2>2, Nix32KeepsNumber
  <2>4. Whole(h) => Len(data) = DigestBytes
    BY <1>1, <1>4 DEF Whole
  <2> QED
    BY <1>1, <1>3, <2>1, <2>3, <2>4 DEF digits
<1>5. CASE h.form \notin Base64Forms
  <2>1. h.digest.alphabet = "nix32" /\ \A i \in DOMAIN data : data[i] < 31 + 1
    BY <1>1, <1>5
  <2>2. data \in Seq(0..31)
    BY <1>1, <2>1, BelowLimit
  <2> QED
    BY <1>1, <1>2, <1>3, <1>5, <2>1, <2>2 DEF digits
<1> QED
  BY <1>4, <1>5

(***************************************************************************)
(* Normalizing a hash keeps its value, and is done once.                   *)
(***************************************************************************)
LEMMA NormalizedHash ==
  ASSUME NEW h \in HashTexts, Normalizable(h)
  PROVE  /\ Normalized(h) \in HashTexts /\ Normalized(h).form = "colon"
         /\ HashValue(Normalized(h)) = HashValue(h)
         /\ Len(Normalized(h).digest.data) = NixBase32Length(DigestBytes)
              => Normalizable(Normalized(h)) /\ Normalized(Normalized(h)) = Normalized(h)
<1> DEFINE digits == Normalized(h).digest.data
<1>1. /\ digits \in Seq(0..31)
      /\ HashValue(h) = [algorithm |-> "sha256", number |-> DigitsNumber(digits)]
  BY NormalizedDigits
<1>2. Normalized(h) = [form |-> "colon", algorithm |-> "sha256",
                       digest |-> [alphabet |-> "nix32", data |-> digits]]
  BY DEF Normalized, Normalizable
<1> HIDE DEF digits
<1>d. DOMAIN digits = 1..Len(digits) /\ \A i \in 1..Len(digits) : digits[i] \in 0..31
  BY <1>1, DigitsAreNumbers
<1>e. digits \in Seq(Nat)
  BY <1>1, DigitsAreNumbers
<1>3. digits \in Seq(Nat) /\ \A i \in DOMAIN digits : digits[i] < 32
  <2>1. \A d \in 0..31 : d < 32
    OBVIOUS
  <2> QED
    BY <1>d, <1>e, <2>1, Zenon
<1>4. "colon" \notin Base64Forms /\ "colon" \in Nix32Forms
  BY DEF Base64Forms, Nix32Forms
<1>5. Normalized(h) \in HashTexts
  <2> DEFINE digest == [alphabet |-> "nix32", data |-> digits]
             hash == [form |-> "colon", algorithm |-> "sha256", digest |-> digest]
  <2>1. digest \in Digests
    BY <1>3 DEF Digests
  <2> HIDE DEF digest
  <2>2. hash \in [form : Base64Forms \cup Nix32Forms \cup OtherForms, algorithm : Words,
                  digest : Digests]
    BY <1>4, <2>1, InputConstants
  <2>3. \A i \in DOMAIN hash.digest.data :
          hash.digest.data[i] < IF hash.digest.alphabet = "nix32" THEN 32 ELSE 256
    BY <1>3 DEF digest
  <2>4. hash \in HashTexts
    BY <1>4, <2>2, <2>3 DEF HashTexts, digest
  <2> QED
    BY <1>2, <2>4 DEF digest
<1>6. HashValue(Normalized(h)) = HashValue(h)
  BY <1>1, <1>2 DEF HashValue
<1>7. Len(digits) = NixBase32Length(DigestBytes)
        => Normalizable(Normalized(h)) /\ Normalized(Normalized(h)) = Normalized(h)
  BY <1>2, <1>4 DEF Normalizable, Normalized
<1> QED
  BY <1>2, <1>5, <1>6, <1>7 DEF digits

(***************************************************************************)
(* Whole hashes of the same value are normalized to the same text.         *)
(***************************************************************************)
LEMMA SameHash ==
  ASSUME NEW h \in HashTexts, NEW g \in HashTexts, Normalizable(h), Normalizable(g),
         Len(Normalized(h).digest.data) = NixBase32Length(DigestBytes),
         Len(Normalized(g).digest.data) = NixBase32Length(DigestBytes),
         HashValue(h) = HashValue(g)
  PROVE  Normalized(h) = Normalized(g)
<1>1. DigitsNumber(Normalized(h).digest.data) = DigitsNumber(Normalized(g).digest.data)
  BY NormalizedDigits
<1>2. Normalized(h).digest.data = Normalized(g).digest.data
  BY <1>1, NormalizedDigits, DigitsInjective
<1>3. \A x \in {h, g} :
        Normalized(x) = [form |-> "colon", algorithm |-> "sha256",
                         digest |-> [alphabet |-> "nix32", data |-> Normalized(x).digest.data]]
  BY DEF Normalized, Normalizable
<1> QED
  BY <1>2, <1>3

(***************************************************************************)
(* The payload's text of a hash that can be normalized says the same.      *)
(***************************************************************************)
LEMMA RenderedHash ==
  ASSUME NEW h \in HashTexts, Normalizable(h)
  PROVE  /\ RenderText(h) \in HashTexts /\ Normalizable(RenderText(h))
         /\ Normalized(RenderText(h)) = Normalized(h)
         /\ HashValue(RenderText(h)) = HashValue(h)
         /\ Whole(h) => Whole(RenderText(h))
<1>1. /\ h \in [form : Base64Forms \cup Nix32Forms \cup OtherForms, algorithm : Words,
                digest : Digests]
      /\ h.algorithm = "sha256" /\ h.form \in Base64Forms \cup Nix32Forms
  BY DEF HashTexts, Normalizable
<1>2. /\ RenderText(h) = [h EXCEPT !.form = RenderText(h).form]
      /\ h.form \in Base64Forms => RenderText(h).form = "sri"
      /\ h.form \in Nix32Forms => RenderText(h).form = "colon"
  BY <1>1 DEF RenderText, Base64Forms, Nix32Forms
<1>3. /\ RenderText(h).algorithm = h.algorithm /\ RenderText(h).digest = h.digest
      /\ RenderText(h).form \in Base64Forms <=> h.form \in Base64Forms
      /\ RenderText(h).form \in Nix32Forms <=> h.form \in Nix32Forms
  BY <1>1, <1>2 DEF Base64Forms, Nix32Forms
<1>4. RenderText(h) \in HashTexts
  BY <1>1, <1>2, <1>3 DEF HashTexts
<1>5. Normalizable(RenderText(h)) /\ Normalized(RenderText(h)) = Normalized(h)
  BY <1>3 DEF Normalizable, Normalized
<1> QED
  BY <1>3, <1>4, <1>5 DEF HashValue, Whole

(***************************************************************************)
(* A content address that can be written keeps its value in a narinfo,     *)
(* where it stays a content address.                                       *)
(***************************************************************************)
LEMMA CaFormatted ==
  ASSUME NEW ca \in CaTexts, ca.raw \/ Normalizable(ca.hash)
  PROVE  /\ FormatForNarinfo(ca) \in CaTexts /\ FormatForNarinfo(ca).raw = TRUE
         /\ FormatForNarinfo(FormatForNarinfo(ca)) = FormatForNarinfo(ca)
         /\ CaValue(FormatForNarinfo(ca)) = CaValue(ca)
         /\ IsContentAddress(ca) => IsContentAddress(FormatForNarinfo(ca))
<1>1. ca = [raw |-> ca.raw, method |-> ca.method, hash |-> ca.hash]
      /\ ca.raw \in BOOLEAN /\ ca.method \in Words /\ ca.hash \in HashTexts
  BY DEF CaTexts
<1>2. CASE ca.raw
  BY <1>1, <1>2 DEF FormatForNarinfo
<1>3. CASE ~ca.raw
  <2>1. Normalizable(ca.hash)
    BY <1>3
  <2>2. FormatForNarinfo(ca) = [raw |-> TRUE, method |-> ca.method, hash |-> Normalized(ca.hash)]
    BY <1>3, <2>1 DEF FormatForNarinfo
  <2>3. /\ Normalized(ca.hash) \in HashTexts /\ Normalized(ca.hash).form = "colon"
        /\ HashValue(Normalized(ca.hash)) = HashValue(ca.hash)
    BY <1>1, <2>1, NormalizedHash
  <2>4. FormatForNarinfo(ca) \in CaTexts /\ FormatForNarinfo(ca).raw = TRUE
    BY <1>1, <2>2, <2>3 DEF CaTexts
  <2>5. CaValue(FormatForNarinfo(ca)) = CaValue(ca)
    BY <1>3, <2>2, <2>3 DEF CaValue
  <2>6. ASSUME IsContentAddress(ca)
        PROVE  IsContentAddress(FormatForNarinfo(ca))
    <3>1. Whole(ca.hash)
      BY <1>3, <2>1, <2>6 DEF IsContentAddress, NoCa, Normalizable
    <3>2. Normalizable(Normalized(ca.hash))
      BY <1>1, <2>1, <3>1, NormalizedHash, NormalizedDigits
    <3>3. Whole(Normalized(ca.hash))
      BY <2>3 DEF Whole, Base64Forms
    <3> QED
      BY <2>2, <2>3, <3>2, <3>3 DEF IsContentAddress, Normalizable
  <2>7. FormatForNarinfo(FormatForNarinfo(ca)) = FormatForNarinfo(ca)
    BY <2>4 DEF FormatForNarinfo
  <2> QED
    BY <2>4, <2>5, <2>6, <2>7
<1> QED
  BY <1>2, <1>3

(***************************************************************************)
(* A content address of Nix is one still after it was formatted, of the    *)
(* same method and hash; and if it is a usual one it is read as before.    *)
(***************************************************************************)
LEMMA CaWritten ==
  ASSUME NEW ca \in CaTexts, IsContentAddress(ca)
  PROVE  /\ FormatForNarinfo(ca) \in CaTexts /\ FormatForNarinfo(ca).raw = TRUE
         /\ IsContentAddress(FormatForNarinfo(ca))
         /\ CaValue(FormatForNarinfo(ca)).method = CaValue(ca).method
         /\ CaValue(FormatForNarinfo(ca)).hash = CaValue(ca).hash
         /\ CaValue(ca).hash.algorithm \in {"none", "sha256"} =>
              CaValue(FormatForNarinfo(ca)) = CaValue(ca)
<1>1. CASE ca.raw \/ Normalizable(ca.hash)
  BY <1>1, CaFormatted
<1>2. CASE ~ca.raw /\ ~Normalizable(ca.hash)
  <2> DEFINE rendered == RenderText(ca.hash)
  <2>1. /\ ca.method \in Words /\ ca.hash \in HashTexts
        /\ ca.hash \in [form : Base64Forms \cup Nix32Forms \cup OtherForms, algorithm : Words,
                       digest : Digests]
    BY DEF CaTexts, HashTexts
  <2>2. ca.hash.algorithm \notin {"none", "sha256"} /\ ca.hash.form # "base16"
    BY <1>2 DEF IsContentAddress, NoCa
  <2>3. FormatForNarinfo(ca) = [raw |-> TRUE, method |-> ca.method, hash |-> rendered]
    BY <1>2 DEF FormatForNarinfo
  <2>4. /\ rendered = [ca.hash EXCEPT !.form = rendered.form]
        /\ rendered.form \in Base64Forms \cup Nix32Forms \cup OtherForms
        /\ rendered.form \in Base64Forms => ca.hash.form \in Base64Forms
    BY <2>1, <2>2 DEF RenderText, Base64Forms, Nix32Forms, OtherForms
  <2> HIDE DEF rendered
  <2>5. rendered.algorithm = ca.hash.algorithm /\ rendered.digest = ca.hash.digest
    BY <2>1, <2>4
  <2>6. rendered \in HashTexts
    BY <2>1, <2>4, <2>5 DEF HashTexts
  <2>7. HashValue(rendered) = HashValue(ca.hash)
    BY <2>5 DEF HashValue
  <2>8. FormatForNarinfo(ca) \in CaTexts /\ IsContentAddress(FormatForNarinfo(ca))
    BY <2>1, <2>2, <2>3, <2>5, <2>6 DEF CaTexts, IsContentAddress
  <2>9. CaValue(ca).hash.algorithm = ca.hash.algorithm
    BY DEF CaValue, HashValue
  <2> QED
    BY <2>2, <2>3, <2>7, <2>8, <2>9 DEF CaValue
<1> QED
  BY <1>1, <1>2

(***************************************************************************)
(* Usual content addresses of the same value are written alike.            *)
(***************************************************************************)
LEMMA SameCa ==
  ASSUME NEW c \in CaTexts, NEW d \in CaTexts, IsContentAddress(c), IsContentAddress(d),
         CaValue(c) = CaValue(d), CaValue(c).hash.algorithm \in {"none", "sha256"}
  PROVE  FormatForNarinfo(c) = FormatForNarinfo(d)
<1>1. \A x \in {c, d} : /\ x.method = CaValue(x).method
                        /\ HashValue(x.hash) = CaValue(x).hash
                        /\ x.hash.algorithm = CaValue(x).hash.algorithm
  BY DEF CaValue, HashValue
<1>2. \A x \in {c, d} : x = NoCa <=> x.hash.algorithm = "none"
  BY DEF IsContentAddress, NoCa, NoHash
<1>3. ASSUME NEW x \in {c, d}, x # NoCa
      PROVE  /\ Normalizable(x.hash) /\ x.hash \in HashTexts
             /\ Len(Normalized(x.hash).digest.data) = NixBase32Length(DigestBytes)
             /\ FormatForNarinfo(x) = [raw |-> TRUE, method |-> x.method, hash |-> Normalized(x.hash)]
  <2>1. /\ Normalizable(x.hash) /\ Whole(x.hash) /\ (x.raw => x.hash.form = "colon")
        /\ x.raw \in BOOLEAN /\ x.hash \in HashTexts
        /\ x = [raw |-> x.raw, method |-> x.method, hash |-> x.hash]
    BY <1>1, <1>2, <1>3 DEF IsContentAddress, CaTexts
  <2>2. CASE x.raw
    <3>1. /\ x.hash = [form |-> x.hash.form, algorithm |-> x.hash.algorithm, digest |-> x.hash.digest]
          /\ x.hash.digest = [alphabet |-> x.hash.digest.alphabet, data |-> x.hash.digest.data]
      BY <2>1 DEF HashTexts, Digests
    <3>2. Normalized(x.hash) = x.hash
      BY <2>1, <2>2, <3>1 DEF Normalized, Normalizable, Base64Forms
    <3> QED
      BY <2>1, <2>2, <3>2, NormalizedDigits DEF FormatForNarinfo
  <2>3. CASE ~x.raw
    BY <2>1, <2>3, NormalizedDigits DEF FormatForNarinfo
  <2> QED
    BY <2>1, <2>2, <2>3
<1>4. CASE c = NoCa \/ d = NoCa
  BY <1>1, <1>2, <1>4
<1>5. CASE c # NoCa /\ d # NoCa
  <2>1. Normalized(c.hash) = Normalized(d.hash)
    BY <1>1, <1>3, <1>5, SameHash
  <2> QED
    BY <1>1, <1>3, <1>5, <2>1
<1> QED
  BY <1>4, <1>5

-----------------------------------------------------------------------------
\* What a depot renders

(***************************************************************************)
(* What Nix reads where a depot reads the facts of a narinfo.              *)
(***************************************************************************)
LEMMA FactsAsRead ==
  ASSUME NEW n
  PROVE  AsNixReads(Facts(n)) =
           [path |-> n.store_path, hash |-> HashValue(n.nar_hash), size |-> n.nar_size,
            references |-> ToSet(n.references), deriver |-> n.deriver, ca |-> CaValue(n.ca),
            compression |-> NixCompression(n.compression)]
BY DEF AsNixReads, Facts

(***************************************************************************)
(* The references that are rendered are those of the narinfo, in the store *)
(* directory.                                                              *)
(***************************************************************************)
LEMMA SortedReadable ==
  ASSUME NEW n \in NarInfos, Fingerprintable(n), NEW refs, refs = SortedReferences(n)
  PROVE  /\ refs \in ReferenceLists /\ ToSet(refs) = ToSet(n.references)
         /\ \A i \in DOMAIN refs : refs[i] \in Paths /\ InStoreDir(refs[i])
<1>1. n.references \in ReferenceLists
  BY DEF NarInfos
<1>2. refs \in ReferenceLists /\ ToSet(refs) = ToSet(n.references)
  BY <1>1, InTextOrderSorts DEF SortedReferences
<1>3. \A i \in DOMAIN refs : refs[i] \in Paths
  BY <1>2, FormatConstants DEF ReferenceLists
<1>4. \A i \in DOMAIN refs : refs[i] \in ToSet(n.references)
  BY <1>2, Zenon DEF ToSet
<1>5. \A i \in DOMAIN refs : InStoreDir(refs[i])
  BY <1>4 DEF ToSet, Fingerprintable
<1> QED
  BY <1>2, <1>3, <1>5

(***************************************************************************)
(* What Nix reads in a text is the narinfo that was rendered, whatever its *)
(* signatures are.                                                         *)
(***************************************************************************)
LEMMA RenderedIsRead ==
  ASSUME NEW n, Presentable(n), NEW signatures
  PROVE  /\ NixReads(RenderNarinfo(n, signatures)) = AsNixReads(Facts(n))
         /\ RenderNarinfo(n, signatures).URL = <<n.url>>
<1> DEFINE text == RenderNarinfo(n, signatures)
           refs == SortedReferences(n)
           names == [i \in DOMAIN refs |-> DisplayPath(refs[i])]
           deriver == IF n.deriver = NoPath THEN <<>> ELSE <<DisplayPath(n.deriver)>>
           ca == IF n.ca = NoCa THEN <<>> ELSE <<FormatForNarinfo(n.ca)>>
<1>1. /\ text.StorePath = <<n.store_path>> /\ text.URL = <<n.url>>
      /\ text.Compression = <<n.compression>> /\ text.NarHash = <<Normalized(n.nar_hash)>>
      /\ text.NarSize = <<n.nar_size>> /\ text.References = <<names>>
      /\ text.Deriver = deriver /\ text.CA = ca
  BY DEF RenderNarinfo
<1>2. /\ n \in NarInfos /\ Fingerprintable(n) /\ n.nar_hash \in HashTexts
      /\ Normalizable(n.nar_hash) /\ n.ca \in CaTexts /\ n.deriver \in Paths
  BY DEF Presentable, NarInfos, Fingerprintable
<1>3. HashValue(text.NarHash[1]) = HashValue(n.nar_hash)
  BY <1>1, <1>2, NormalizedHash
<1>4. {NixPath(text.References[1][i]) : i \in DOMAIN text.References[1]} = ToSet(n.references)
  <2>1. /\ ToSet(refs) = ToSet(n.references)
        /\ \A i \in DOMAIN refs : refs[i] \in Paths /\ InStoreDir(refs[i])
    BY <1>2, SortedReadable
  <2>2. DOMAIN names = DOMAIN refs /\ \A i \in DOMAIN refs : NixPath(names[i]) = refs[i]
    BY <2>1, DisplayedIsRead
  <2>3. text.References[1] = names
    BY <1>1
  <2> HIDE DEF names, refs, text
  <2>4. {NixPath(names[i]) : i \in DOMAIN names} = {refs[i] : i \in DOMAIN refs}
    BY <2>2
  <2> QED
    BY <2>1, <2>3, <2>4 DEF ToSet
<1>5. (IF text.Deriver = <<>> THEN NoPath ELSE NixPath(text.Deriver[1])) = n.deriver
  <2>1. CASE n.deriver = NoPath
    BY <1>1, <2>1
  <2>2. CASE n.deriver # NoPath
    <3>1. NixPath(DisplayPath(n.deriver)) = n.deriver
      BY <1>2, <2>2, DisplayedIsRead DEF Presentable
    <3>2. text.Deriver # <<>> /\ text.Deriver[1] = DisplayPath(n.deriver)
      BY <1>1, <2>2
    <3> QED
      BY <3>1, <3>2
  <2> QED
    BY <2>1, <2>2
<1>6. CaValue(IF text.CA = <<>> THEN NoCa ELSE text.CA[1]) = CaValue(n.ca)
  <2>1. CASE n.ca = NoCa
    BY <1>1, <2>1
  <2>2. CASE n.ca # NoCa
    <3>1. FormatForNarinfo(n.ca) = n.ca
      BY DEF Presentable, FormatForNarinfo
    <3>2. text.CA # <<>> /\ text.CA[1] = FormatForNarinfo(n.ca)
      BY <1>1, <2>2
    <3> QED
      BY <3>1, <3>2
  <2> QED
    BY <2>1, <2>2
<1>7. text.StorePath[1] = n.store_path /\ text.NarSize[1] = n.nar_size
      /\ text.Compression[1] = n.compression
  BY <1>1
<1> HIDE DEF text
<1>8. NixReads(text) = AsNixReads(Facts(n))
  <2>1. NixReads(text) =
          [path |-> n.store_path, hash |-> HashValue(n.nar_hash), size |-> n.nar_size,
           references |-> ToSet(n.references), deriver |-> n.deriver, ca |-> CaValue(n.ca),
           compression |-> NixCompression(n.compression)]
    BY <1>3, <1>4, <1>5, <1>6, <1>7 DEF NixReads
  <2> QED
    BY <2>1, FactsAsRead
<1> QED
  BY <1>1, <1>8 DEF text

(***************************************************************************)
(* What a depot parses of a text that a depot rendered: the same narinfo   *)
(* with its hash and content address normalized, and the signatures of the *)
(* text.                                                                   *)
(***************************************************************************)
LEMMA RenderedIsParsed ==
  ASSUME NEW n, Presentable(n), NEW signatures
  PROVE  ParseNarinfo(RenderNarinfo(n, signatures)) =
           [store_path |-> n.store_path, url |-> n.url, compression |-> n.compression,
            nar_hash |-> Normalized(n.nar_hash), nar_size |-> n.nar_size,
            references |-> SortedReferences(n), deriver |-> n.deriver,
            signatures |-> RenderNarinfo(n, signatures).Sig, ca |-> FormatForNarinfo(n.ca)]
<1> DEFINE text == RenderNarinfo(n, signatures)
           refs == SortedReferences(n)
           names == [i \in DOMAIN refs |-> DisplayPath(refs[i])]
           deriver == IF n.deriver = NoPath THEN <<>> ELSE <<DisplayPath(n.deriver)>>
           ca == IF n.ca = NoCa THEN <<>> ELSE <<FormatForNarinfo(n.ca)>>
<1>1. /\ text.StorePath = <<n.store_path>> /\ text.URL = <<n.url>>
      /\ text.Compression = <<n.compression>> /\ text.NarHash = <<Normalized(n.nar_hash)>>
      /\ text.NarSize = <<n.nar_size>> /\ text.References = <<names>>
      /\ text.Deriver = deriver /\ text.CA = ca
  BY DEF RenderNarinfo
<1>2. n \in NarInfos /\ Fingerprintable(n) /\ n.deriver \in Paths
  BY DEF Presentable, NarInfos
<1>3. [i \in DOMAIN text.References[1] |-> ExpandDisplayPath(text.References[1][i])] = refs
  <2>1. /\ refs \in ReferenceLists
        /\ \A i \in DOMAIN refs : refs[i] \in Paths /\ InStoreDir(refs[i])
    BY <1>2, SortedReadable
  <2>2. DOMAIN names = DOMAIN refs /\ \A i \in DOMAIN refs : ExpandDisplayPath(names[i]) = refs[i]
    BY <2>1, DisplayedIsRead
  <2>3. refs = [i \in DOMAIN refs |-> refs[i]]
    BY <2>1 DEF ReferenceLists
  <2>4. text.References[1] = names
    BY <1>1
  <2> HIDE DEF names, refs, text
  <2> QED
    BY <2>2, <2>3, <2>4
<1>4. (IF text.Deriver = <<>> THEN NoPath ELSE ExpandDisplayPath(text.Deriver[1])) = n.deriver
  <2>1. CASE n.deriver = NoPath
    BY <1>1, <2>1
  <2>2. CASE n.deriver # NoPath
    <3>1. ExpandDisplayPath(DisplayPath(n.deriver)) = n.deriver
      BY <1>2, <2>2, DisplayedIsRead DEF Presentable
    <3>2. text.Deriver # <<>> /\ text.Deriver[1] = DisplayPath(n.deriver)
      BY <1>1, <2>2
    <3> QED
      BY <3>1, <3>2
  <2> QED
    BY <2>1, <2>2
<1>5. (IF text.CA = <<>> THEN NoCa ELSE text.CA[1]) = FormatForNarinfo(n.ca)
  <2>1. CASE n.ca = NoCa
    BY <1>1, <2>1 DEF FormatForNarinfo, NoCa
  <2>2. CASE n.ca # NoCa
    BY <1>1, <2>2
  <2> QED
    BY <2>1, <2>2
<1>6. /\ text.StorePath[1] = n.store_path /\ text.URL[1] = n.url /\ text.NarSize[1] = n.nar_size
      /\ text.Compression[1] = n.compression /\ text.NarHash[1] = Normalized(n.nar_hash)
  BY <1>1
<1> HIDE DEF text, refs
<1> QED
  BY <1>3, <1>4, <1>5, <1>6 DEF ParseNarinfo, text, refs

(***************************************************************************)
(* A depot's signature of what it renders verifies.                        *)
(***************************************************************************)
LEMMA OwnVerifies ==
  ASSUME NEW n, Presentable(n), NEW key \in Nat, NEW signature,
         signature = [key |-> key, over |-> Fingerprint(n)]
  PROVE  signature \in Signatures /\ Verifies(signature, Facts(n))
<1>1. /\ n \in NarInfos /\ n.nar_hash \in HashTexts /\ Normalizable(n.nar_hash)
      /\ n.store_path \in Paths /\ n.nar_size \in Nat /\ n.references \in ReferenceLists
  BY DEF Presentable, NarInfos, Fingerprintable
<1>2. InTextOrder(n.references) \in ReferenceLists
  BY <1>1, InTextOrderSorts
<1>3. Normalized(n.nar_hash) \in HashTexts /\ HashValue(Normalized(n.nar_hash)) = HashValue(n.nar_hash)
  BY <1>1, NormalizedHash
<1>4. Fingerprint(n) = [path |-> n.store_path, hash |-> Normalized(n.nar_hash), size |-> n.nar_size,
                        references |-> InTextOrder(n.references)]
  BY DEF Fingerprint, SortedReferences
<1>5. signature \in Signatures
  BY <1>1, <1>2, <1>3, <1>4 DEF Signatures
<1>6. InTextOrder(SetToSeq(ToSet(n.references))) = InTextOrder(n.references)
  BY <1>1, SetListed, TextOrderCanonical
<1>7. NixFingerprint(Facts(n)) =
        [path |-> n.store_path, hash |-> HashValue(n.nar_hash), size |-> n.nar_size,
         references |-> InTextOrder(n.references)]
  BY <1>6 DEF NixFingerprint, Facts
<1> QED
  BY <1>3, <1>4, <1>5, <1>7 DEF Verifies

(***************************************************************************)
(* All verify when each member verifies.                                   *)
(***************************************************************************)
LEMMA VerifyAsSet ==
  ASSUME NEW signatures, NEW facts
  PROVE  AllVerify(signatures, facts) <=> \A one \in ToSet(signatures) : Verifies(one, facts)
BY DEF AllVerify, ToSet

(***************************************************************************)
(* What is signed says nothing of a compression.                           *)
(***************************************************************************)
LEMMA VerifyAsRead ==
  ASSUME NEW n, NEW signatures
  PROVE  AllVerify(signatures, AsNixReads(Facts(n))) <=> AllVerify(signatures, Facts(n))
<1>1. NixFingerprint(AsNixReads(Facts(n))) = NixFingerprint(Facts(n))
  BY DEF NixFingerprint, AsNixReads, Facts
<1> QED
  BY <1>1 DEF AllVerify, Verifies

(***************************************************************************)
(* Every signature of the narinfo is in the text that is rendered of it,   *)
(* and every signature in that text verifies.                              *)
(***************************************************************************)
LEMMA SignedVerifies ==
  ASSUME NEW n, Presentable(n), NEW keys \in Seq(Nat)
  PROVE  /\ SignedNarinfo(n, keys).Sig \in Seq(Signatures)
         /\ ToSet(n.signatures) \subseteq ToSet(SignedNarinfo(n, keys).Sig)
         /\ AllVerify(SignedNarinfo(n, keys).Sig, Facts(n))
<1> DEFINE own == Sign(n, keys)
           all == n.signatures \o own
           rank == [i \in DOMAIN all |-> all[i].key]
           facts == Facts(n)
<1>1. n.signatures \in Seq(Signatures) /\ AllVerify(n.signatures, facts)
  BY DEF Presentable, NarInfos
<1>2. own \in Seq(Signatures) /\ AllVerify(own, facts)
  <2>1. own = [i \in 1..Len(keys) |-> [key |-> keys[i], over |-> Fingerprint(n)]]
    BY DEF Sign
  <2>2. \A i \in 1..Len(keys) : own[i] \in Signatures /\ Verifies(own[i], facts)
    BY <2>1, OwnVerifies
  <2> HIDE DEF own, facts
  <2> QED
    BY <2>1, <2>2 DEF AllVerify
<1> HIDE DEF own, facts
<1>3. /\ all \in Seq(Signatures)
      /\ \A i \in DOMAIN n.signatures : i \in DOMAIN all /\ all[i] = n.signatures[i]
      /\ \A i \in DOMAIN all : (i \in DOMAIN n.signatures /\ all[i] = n.signatures[i])
                             \/ \E k \in DOMAIN own : all[i] = own[k]
  <2> DEFINE sigs == n.signatures
             both == sigs \o own
  <2>1. sigs \in Seq(Signatures) /\ own \in Seq(Signatures)
    BY <1>1, <1>2
  <2> HIDE DEF sigs
  <2>2. both \in Seq(Signatures)
    BY <2>1
  <2>3. \A i \in DOMAIN sigs : i \in DOMAIN both /\ both[i] = sigs[i]
    BY <2>1
  <2>4. ASSUME NEW i \in DOMAIN both
        PROVE  (i \in DOMAIN sigs /\ both[i] = sigs[i]) \/ \E k \in DOMAIN own : both[i] = own[k]
    <3>1. i \in 1..(Len(sigs) + Len(own)) /\ Len(sigs) \in Nat /\ Len(own) \in Nat
      BY <2>1
    <3>2. CASE i <= Len(sigs)
      BY <2>1, <3>1, <3>2
    <3>3. CASE i > Len(sigs)
      <4>1. i - Len(sigs) \in DOMAIN own /\ both[i] = own[i - Len(sigs)]
        BY <2>1, <3>1, <3>3
      <4> QED
        BY <4>1
    <3> QED
      BY <3>1, <3>2, <3>3
  <2> QED
    BY <2>2, <2>3, <2>4 DEF sigs
<1> HIDE DEF all
<1>4. ToSet(n.signatures) \subseteq ToSet(all)
  BY <1>3, Zenon DEF ToSet
<1>5. \A one \in ToSet(all) : Verifies(one, facts)
  BY <1>1, <1>2, <1>3 DEF ToSet, AllVerify
<1>6. rank \in [DOMAIN all -> Nat]
  <2>1. all \in Seq(Signatures)
    BY <1>3
  <2>2. \A i \in DOMAIN all : all[i] \in Signatures
    BY <2>1
  <2>3. \A one \in Signatures : one.key \in Nat
    BY DEF Signatures
  <2> QED
    BY <2>2, <2>3
<1>7. SignedNarinfo(n, keys).Sig = SortedBy(all, rank)
  BY DEF SignedNarinfo, RenderNarinfo, all, own
<1> HIDE DEF rank
<1>8. SortedBy(all, rank) \in Seq(Signatures) /\ ToSet(SortedBy(all, rank)) = ToSet(all)
  BY <1>3, <1>6, SortedKeeps
<1>9. AllVerify(SortedBy(all, rank), facts)
  BY <1>5, <1>8, VerifyAsSet
<1> QED
  BY <1>4, <1>7, <1>8, <1>9 DEF facts

(***************************************************************************)
(* Any depot, and Nix, read alike what a depot renders of a narinfo whose  *)
(* hash has the length of a sha256.                                        *)
(***************************************************************************)
LEMMA RenderedReadsAlike ==
  ASSUME NEW n, Presentable(n), NEW keys \in Seq(Nat),
         Len(Normalized(n.nar_hash).digest.data) = NixBase32Length(DigestBytes)
  PROVE  ReadAlike(SignedNarinfo(n, keys))
<1> DEFINE text == SignedNarinfo(n, keys)
           parsed == ParseNarinfo(text)
           refs == SortedReferences(n)
<1>1. parsed = [store_path |-> n.store_path, url |-> n.url, compression |-> n.compression,
                nar_hash |-> Normalized(n.nar_hash), nar_size |-> n.nar_size,
                references |-> refs, deriver |-> n.deriver,
                signatures |-> text.Sig, ca |-> FormatForNarinfo(n.ca)]
  BY RenderedIsParsed, Zenon DEF SignedNarinfo
<1>2. NixReads(text) = AsNixReads(Facts(n)) /\ text.URL = <<n.url>>
  BY RenderedIsRead DEF SignedNarinfo
<1>3. /\ n \in NarInfos /\ Fingerprintable(n) /\ n.nar_hash \in HashTexts
      /\ Normalizable(n.nar_hash) /\ n.ca \in CaTexts /\ n.ca.raw
      /\ n.deriver = NoPath \/ InStoreDir(n.deriver)
  BY DEF Presentable, NarInfos, Fingerprintable
<1>4. /\ Normalized(n.nar_hash) \in HashTexts /\ Normalizable(Normalized(n.nar_hash))
      /\ HashValue(Normalized(n.nar_hash)) = HashValue(n.nar_hash)
  BY <1>3, NormalizedHash
<1>5. FormatForNarinfo(n.ca) = n.ca
  BY <1>3 DEF FormatForNarinfo
<1>6. /\ refs \in ReferenceLists /\ ToSet(refs) = ToSet(n.references)
      /\ \A i \in DOMAIN refs : InStoreDir(refs[i])
  BY <1>3, SortedReadable
<1>7. text.Sig \in Seq(Signatures) /\ AllVerify(text.Sig, Facts(n))
  BY SignedVerifies
<1> HIDE DEF text, refs, parsed
<1>8. parsed \in NarInfos
  BY <1>1, <1>3, <1>4, <1>5, <1>6, <1>7 DEF NarInfos
<1>9. Fingerprintable(parsed)
  BY <1>1, <1>3, <1>4, <1>6 DEF Fingerprintable
<1>10. Facts(parsed) = Facts(n)
  BY <1>1, <1>4, <1>5, <1>6 DEF Facts
<1>11. Presentable(parsed)
  <2>1. parsed.signatures = text.Sig /\ parsed.ca.raw /\ parsed.deriver = n.deriver
    BY <1>1, <1>3, <1>5
  <2> QED
    BY <1>3, <1>7, <1>8, <1>9, <1>10, <2>1 DEF Presentable
<1>12. text.URL = <<parsed.url>>
  BY <1>1, <1>2
<1> QED
  BY <1>2, <1>7, <1>10, <1>11, <1>12, VerifyAsRead DEF ReadAlike, parsed, text

(***************************************************************************)
(* A depot that relays a text that is read alike keeps what Nix reads in   *)
(* it, its URL and its signatures, and all signatures verify.              *)
(***************************************************************************)
LEMMA RelayedIsKept ==
  ASSUME NEW text, ReadAlike(text), NEW keys \in Seq(Nat), NEW next,
         next = SignedNarinfo(ParseNarinfo(text), keys)
  PROVE  /\ NixReads(next) = NixReads(text)
         /\ next.URL = text.URL
         /\ ToSet(text.Sig) \subseteq ToSet(next.Sig)
         /\ AllVerify(next.Sig, NixReads(next))
<1> DEFINE parsed == ParseNarinfo(text)
<1>1. /\ Presentable(parsed) /\ AsNixReads(Facts(parsed)) = NixReads(text)
      /\ text.URL = <<parsed.url>>
  BY DEF ReadAlike
<1>2. parsed.signatures = text.Sig
  BY DEF ParseNarinfo
<1>3. next = SignedNarinfo(parsed, keys)
  OBVIOUS
<1> HIDE DEF parsed
<1>4. NixReads(next) = AsNixReads(Facts(parsed)) /\ next.URL = <<parsed.url>>
  BY <1>1, <1>3, RenderedIsRead DEF SignedNarinfo
<1>5. ToSet(parsed.signatures) \subseteq ToSet(next.Sig)
      /\ AllVerify(next.Sig, AsNixReads(Facts(parsed)))
  BY <1>1, <1>3, SignedVerifies, VerifyAsRead
<1> QED
  BY <1>1, <1>2, <1>4, <1>5

(***************************************************************************)
(* A narinfo may have no deriver and no content address.                   *)
(***************************************************************************)
LEMMA NothingIsTyped == NoPath \in Paths /\ NoCa \in CaTexts
<1>1. NoPath \in Paths
  BY DEF NoPath, Paths
<1>2. "none" \in Words /\ "bare" \in Base64Forms \cup Nix32Forms \cup OtherForms
      /\ "bare" \notin Base64Forms
  BY InputConstants DEF Compressions, OtherForms, Base64Forms
<1>3. NoHash \in HashTexts
  <2> DEFINE empty == <<>>
             digest == [alphabet |-> "none", data |-> empty]
             hash == [form |-> "bare", algorithm |-> "none", digest |-> digest]
  <2>1. empty \in Seq(Nat) /\ DOMAIN empty = {}
    OBVIOUS
  <2> HIDE DEF empty
  <2>2. digest \in Digests /\ DOMAIN digest.data = {}
    BY <2>1 DEF Digests
  <2> HIDE DEF digest
  <2>3. hash \in HashTexts
    BY <1>2, <2>2 DEF HashTexts
  <2> QED
    BY <2>3 DEF NoHash, digest, empty
<1> QED
  BY <1>1, <1>2, <1>3 DEF NoCa, CaTexts

(***************************************************************************)
(* A depot and Nix read alike the text of a foreign cache that the depot   *)
(* takes.                                                                  *)
(***************************************************************************)
LEMMA ForeignReadsAlike ==
  ASSUME NEW text \in ForeignTexts, Parses(text), Fingerprintable(ParseNarinfo(text))
  PROVE  ReadAlike(text)
<1> DEFINE parsed == ParseNarinfo(text)
           names == text.References[1]
           expanded == [i \in DOMAIN names |-> ExpandDisplayPath(names[i])]
           deriver == IF text.Deriver = <<>> THEN NoPath ELSE ExpandDisplayPath(text.Deriver[1])
           ca == IF text.CA = <<>> THEN NoCa ELSE text.CA[1]
<1>1. /\ text \in Texts /\ parsed.references \in ReferenceLists
      /\ \A i \in DOMAIN names : IsName(names[i])
      /\ \A i \in DOMAIN text.Deriver : IsName(text.Deriver[i])
      /\ \A i \in DOMAIN text.CA : text.CA[i].raw
      /\ AllVerify(text.Sig, NixReads(text))
  BY InputConstants
<1>2. parsed = [store_path |-> text.StorePath[1], url |-> text.URL[1],
                compression |-> text.Compression[1], nar_hash |-> text.NarHash[1],
                nar_size |-> text.NarSize[1], references |-> expanded, deriver |-> deriver,
                signatures |-> text.Sig, ca |-> ca]
  BY DEF ParseNarinfo
<1>3. /\ Len(text.StorePath) = 1 /\ Len(text.URL) = 1 /\ Len(text.Compression) = 1
      /\ Len(text.NarHash) = 1 /\ Len(text.NarSize) = 1 /\ Len(text.References) = 1
  BY DEF Parses, SingleFields
<1>4. /\ text.StorePath \in Seq(Paths) /\ text.URL \in Seq(Urls) /\ text.Compression \in Seq(Words)
      /\ text.NarHash \in Seq(HashTexts) /\ text.NarSize \in Seq(Nat)
      /\ text.References \in Seq(Seq(Paths)) /\ text.Deriver \in Seq(Paths)
      /\ text.Sig \in Seq(Signatures) /\ text.CA \in Seq(CaTexts)
  BY <1>1 DEF Texts
<1>5. /\ text.StorePath[1] \in Paths /\ text.URL[1] \in Urls /\ text.Compression[1] \in Words
      /\ text.NarHash[1] \in HashTexts /\ text.NarSize[1] \in Nat /\ names \in Seq(Paths)
      /\ text.URL = <<text.URL[1]>>
  <2>1. ASSUME NEW S, NEW s \in Seq(S), Len(s) = 1
        PROVE  s[1] \in S /\ s = <<s[1]>>
    BY <2>1
  <2> QED
    BY <1>3, <1>4, <2>1
<1>6. \A i \in DOMAIN names : names[i] \in Paths /\ NixPath(names[i]) = ExpandDisplayPath(names[i])
  BY <1>1, <1>5, NameExpanded
<1>7. /\ deriver \in Paths /\ (deriver = NoPath \/ InStoreDir(deriver))
      /\ (IF text.Deriver = <<>> THEN NoPath ELSE NixPath(text.Deriver[1])) = deriver
  <2>1. CASE text.Deriver = <<>>
    BY <2>1, NothingIsTyped
  <2>2. CASE text.Deriver # <<>>
    <3>1. 1 \in DOMAIN text.Deriver /\ text.Deriver[1] \in Paths
      BY <1>4, <2>2
    <3> QED
      BY <1>1, <2>2, <3>1, NameExpanded
  <2> QED
    BY <2>1, <2>2
<1>8. ca \in CaTexts /\ ca.raw
  <2>1. CASE text.CA = <<>>
    BY <2>1, NothingIsTyped DEF NoCa
  <2>2. CASE text.CA # <<>>
    <3>1. 1 \in DOMAIN text.CA /\ text.CA[1] \in CaTexts
      BY <1>4, <2>2
    <3> QED
      BY <1>1, <2>2, <3>1
  <2> QED
    BY <2>1, <2>2
<1>9. ToSet(expanded) = {NixPath(names[i]) : i \in DOMAIN names}
  BY <1>6 DEF ToSet
<1>10. expanded \in ReferenceLists
  BY <1>1, <1>2
<1>11. NixReads(text) = [path |-> text.StorePath[1], hash |-> HashValue(text.NarHash[1]),
                         size |-> text.NarSize[1], references |-> ToSet(expanded),
                         deriver |-> deriver, ca |-> CaValue(ca),
                         compression |-> NixCompression(text.Compression[1])]
  BY <1>7, <1>9 DEF NixReads
<1> HIDE DEF parsed, names, expanded, deriver, ca
<1>12. parsed \in NarInfos
  BY <1>2, <1>4, <1>5, <1>7, <1>8, <1>10 DEF NarInfos
<1>13. AsNixReads(Facts(parsed)) = NixReads(text) /\ AllVerify(text.Sig, Facts(parsed))
  <2>1. AsNixReads(Facts(parsed)) = NixReads(text)
    BY <1>2, <1>11 DEF Facts, AsNixReads
  <2> QED
    BY <1>1, <2>1, VerifyAsRead
<1>14. Presentable(parsed)
  <2>1. Fingerprintable(parsed)
    BY DEF parsed
  <2>2. parsed.signatures = text.Sig /\ parsed.ca = ca /\ parsed.deriver = deriver
    BY <1>2
  <2> QED
    BY <1>1, <1>7, <1>8, <1>12, <1>13, <2>1, <2>2 DEF Presentable
<1>15. text.URL = <<parsed.url>>
  BY <1>2, <1>5
<1> QED
  BY <1>1, <1>13, <1>14, <1>15 DEF ReadAlike, parsed

-----------------------------------------------------------------------------
\* What the server stores

\* A narinfo of which a client says true things.
Registrable(n) ==
  n \in NarInfos /\ n.ca.raw /\ IsContentAddress(n.ca) /\ AllVerify(n.signatures, Facts(n))

(***************************************************************************)
(* What makes up a narinfo that is valid.                                  *)
(***************************************************************************)
LEMMA ValidNarinfo ==
  ASSUME NEW n, Registrable(n), ValidatePublishNarinfo(n)
  PROVE  /\ Presentable(n) /\ n.nar_hash \in HashTexts /\ Normalizable(n.nar_hash)
         /\ n.ca \in CaTexts
         /\ Len(Normalized(n.nar_hash).digest.data) = NixBase32Length(DigestBytes)
<1>1. /\ n \in NarInfos /\ Normalizable(n.nar_hash) /\ IsStorePath(n.store_path)
      /\ n.url.digits = Normalized(n.nar_hash).digest.data /\ IsNarPath(n.url)
      /\ \A i \in DOMAIN n.references : IsStorePath(n.references[i])
      /\ n.deriver = NoPath \/ IsStorePath(n.deriver)
  BY DEF ValidatePublishNarinfo, Registrable
<1>2. Fingerprintable(n) /\ (n.deriver = NoPath \/ InStoreDir(n.deriver))
  BY <1>1 DEF Fingerprintable, IsStorePath
<1>3. n.nar_hash \in HashTexts /\ n.ca \in CaTexts
  BY <1>1 DEF NarInfos
<1>4. Presentable(n)
  BY <1>1, <1>2 DEF Presentable, Registrable
<1> QED
  BY <1>1, <1>3, <1>4 DEF IsNarPath

(***************************************************************************)
(* The row of a valid narinfo is one too, says the same, and is stored as  *)
(* it would be stored again.                                               *)
(***************************************************************************)
LEMMA RowOfValid ==
  ASSUME NEW n, Registrable(n), ValidatePublishNarinfo(n)
  PROVE  /\ Registrable(StoredRow(n)) /\ ValidatePublishNarinfo(StoredRow(n))
         /\ Facts(StoredRow(n)) = Facts(n)
         /\ StoredRow(n).nar_hash = Normalized(StoredRow(n).nar_hash)
         /\ StoredRow(n).ca.raw
         /\ StoredRow(n).nar_size = n.nar_size /\ StoredRow(n).store_path = n.store_path
<1> DEFINE row == StoredRow(n)
<1>1. /\ n \in NarInfos /\ n.nar_hash \in HashTexts /\ Normalizable(n.nar_hash)
      /\ n.ca \in CaTexts /\ n.ca.raw /\ IsContentAddress(n.ca)
      /\ Len(Normalized(n.nar_hash).digest.data) = NixBase32Length(DigestBytes)
  BY ValidNarinfo DEF Presentable, Registrable
<1>2. /\ Normalized(n.nar_hash) \in HashTexts /\ Normalizable(Normalized(n.nar_hash))
      /\ HashValue(Normalized(n.nar_hash)) = HashValue(n.nar_hash)
      /\ Normalized(Normalized(n.nar_hash)) = Normalized(n.nar_hash)
  BY <1>1, NormalizedHash
<1>3. FormatForNarinfo(n.ca) = n.ca
  BY <1>1 DEF FormatForNarinfo
<1>4. /\ row = [n EXCEPT !.nar_hash = Normalized(n.nar_hash), !.ca = FormatForNarinfo(n.ca)]
      /\ row \in NarInfos
  BY <1>1, <1>2, <1>3 DEF StoredRow, NarInfos
<1>5. /\ row.nar_hash = Normalized(n.nar_hash) /\ row.ca = FormatForNarinfo(n.ca)
      /\ row.store_path = n.store_path /\ row.url = n.url /\ row.compression = n.compression
      /\ row.nar_size = n.nar_size /\ row.references = n.references /\ row.deriver = n.deriver
      /\ row.signatures = n.signatures
  BY <1>1 DEF StoredRow, NarInfos
<1> HIDE DEF row
<1>6. Facts(row) = Facts(n)
  BY <1>2, <1>3, <1>5 DEF Facts
<1>7. Registrable(row)
  BY <1>1, <1>3, <1>4, <1>5, <1>6 DEF Registrable
<1>8. ValidatePublishNarinfo(row)
  BY <1>2, <1>5 DEF ValidatePublishNarinfo
<1> QED
  BY <1>1, <1>2, <1>3, <1>5, <1>6, <1>7, <1>8 DEF row

(***************************************************************************)
(* A row and a narinfo that are compatible say the same.                   *)
(***************************************************************************)
LEMMA CompatibleSaysSame ==
  ASSUME NEW row, Registrable(row), ValidatePublishNarinfo(row),
         NEW n, Registrable(n), ValidatePublishNarinfo(n), Compatible(row, n)
  PROVE  Facts(row) = Facts(n)
<1>1. \A x \in {row, n} :
        /\ x.nar_hash \in HashTexts /\ Normalizable(x.nar_hash) /\ x.references \in ReferenceLists
        /\ x.ca.raw
  BY ValidNarinfo DEF Presentable, NarInfos
<1>2. HashValue(row.nar_hash) = HashValue(n.nar_hash)
  BY <1>1, NormalizedDigits DEF Compatible
<1>3. ToSet(row.references) = ToSet(n.references)
  BY <1>1, InTextOrderSorts DEF Compatible, SortedReferences
<1>4. CaValue(row.ca) = CaValue(n.ca)
  <2>1. \A x \in {row, n} : FormatForNarinfo(x.ca) = x.ca
    BY <1>1 DEF FormatForNarinfo
  <2>2. FormatForNarinfo(row.ca) = FormatForNarinfo(n.ca)
    BY DEF Compatible
  <2> QED
    BY <2>1, <2>2
<1>5. /\ row.store_path = n.store_path /\ row.nar_size = n.nar_size /\ row.deriver = n.deriver
      /\ row.compression = n.compression
  BY DEF Compatible
<1> QED
  BY <1>2, <1>3, <1>4, <1>5 DEF Facts

(***************************************************************************)
(* Two valid narinfos that say the same, and whose content address is a    *)
(* usual one, are compatible.                                              *)
(***************************************************************************)
LEMMA SameIsCompatible ==
  ASSUME NEW row, Registrable(row), ValidatePublishNarinfo(row),
         NEW n, Registrable(n), ValidatePublishNarinfo(n),
         Facts(row) = Facts(n), HasUsualCa(Facts(n))
  PROVE  Compatible(row, n)
<1>1. \A x \in {row, n} :
        /\ x \in NarInfos /\ x.nar_hash \in HashTexts /\ Normalizable(x.nar_hash)
        /\ x.references \in ReferenceLists /\ x.ca \in CaTexts /\ IsContentAddress(x.ca)
        /\ Len(Normalized(x.nar_hash).digest.data) = NixBase32Length(DigestBytes)
  BY ValidNarinfo DEF Registrable, NarInfos
<1>2. \A x \in {row, n} :
        /\ x.store_path = Facts(x).path /\ HashValue(x.nar_hash) = Facts(x).hash
        /\ x.nar_size = Facts(x).size /\ ToSet(x.references) = Facts(x).references
        /\ x.deriver = Facts(x).deriver /\ CaValue(x.ca) = Facts(x).ca
        /\ x.compression = Facts(x).compression
  BY DEF Facts
<1>3. Normalized(row.nar_hash) = Normalized(n.nar_hash)
  BY <1>1, <1>2, SameHash
<1>4. SortedReferences(row) = SortedReferences(n)
  BY <1>1, <1>2, TextOrderCanonical DEF SortedReferences
<1>5. FormatForNarinfo(row.ca) = FormatForNarinfo(n.ca)
  BY <1>1, <1>2, SameCa DEF HasUsualCa
<1>6. row.url = n.url
  <2>1. \A x \in {row, n} :
          x.url = [kind |-> "nar", digits |-> Normalized(x.nar_hash).digest.data,
                   compression |-> NarCompression(x.compression)]
    <3>1. SUFFICES ASSUME NEW x \in {row, n}
                   PROVE  x.url = [kind |-> "nar", digits |-> Normalized(x.nar_hash).digest.data,
                                   compression |-> NarCompression(x.compression)]
      OBVIOUS
    <3>2. x.url \in Urls
      BY <1>1 DEF NarInfos
    <3>3. x.url = [kind |-> x.url.kind, digits |-> x.url.digits, compression |-> x.url.compression]
      BY <3>2 DEF Urls
    <3>4. /\ x.url.kind = "nar" /\ x.url.digits = Normalized(x.nar_hash).digest.data
          /\ x.url.compression = NarCompression(x.compression)
      BY DEF ValidatePublishNarinfo, IsNarPath
    <3> QED
      BY <3>3, <3>4
  <2> QED
    BY <1>2, <1>3, <2>1
<1> QED
  BY <1>2, <1>3, <1>4, <1>5, <1>6 DEF Compatible

(***************************************************************************)
(* What a push client registers says what Nix printed; it is valid if its  *)
(* paths are store paths.                                                  *)
(***************************************************************************)
LEMMA PayloadSaysPrinted ==
  ASSUME NEW entry \in PathInfos, Normalizable(ParsePathInfo(entry).narHash), NEW n,
         n = NarinfoPayload(NarinfoFromPathInfo(ParsePathInfo(entry)))
  PROVE  /\ Registrable(n) /\ Tells(n, PrintedFacts(entry))
         /\ /\ IsStorePath(n.store_path)
            /\ \A p \in ToSet(n.references) : IsStorePath(p)
            /\ n.deriver = NoPath \/ IsStorePath(n.deriver)
            => ValidatePublishNarinfo(n)
<1> DEFINE info == ParsePathInfo(entry)
           digits == Normalized(info.narHash).digest.data
<1>1. /\ info \in [path : Paths, narHash : HashTexts, narSize : Nat,
                   references : ReferenceLists, deriver : Paths,
                   signatures : Seq(Signatures), ca : CaTexts]
      /\ Whole(info.narHash) /\ IsContentAddress(info.ca)
      /\ AllVerify(info.signatures, PrintedFacts(entry))
  BY InputConstants
<1>2. PrintedFacts(entry) =
        [path |-> info.path, hash |-> HashValue(info.narHash), size |-> info.narSize,
         references |-> ToSet(info.references), deriver |-> info.deriver,
         ca |-> CaValue(info.ca), compression |-> "zstd"]
  BY DEF PrintedFacts
<1>3. n = [store_path |-> info.path, url |-> NarUrl(digits, "zstd"), compression |-> "zstd",
           nar_hash |-> RenderText(info.narHash), nar_size |-> info.narSize,
           references |-> info.references, deriver |-> info.deriver,
           signatures |-> info.signatures, ca |-> FormatForNarinfo(info.ca)]
  BY DEF NarinfoPayload, NarinfoFromPathInfo
<1>4. Normalizable(info.narHash)
  OBVIOUS
<1> HIDE DEF info
<1>5. /\ RenderText(info.narHash) \in HashTexts /\ Normalizable(RenderText(info.narHash))
      /\ Normalized(RenderText(info.narHash)).digest.data = digits
      /\ HashValue(RenderText(info.narHash)) = HashValue(info.narHash)
      /\ digits \in Seq(0..31) /\ Len(digits) = NixBase32Length(DigestBytes)
  BY <1>1, <1>4, RenderedHash, NormalizedDigits
<1>6. info.ca \in CaTexts /\ IsContentAddress(info.ca)
  BY <1>1
<1>7. /\ FormatForNarinfo(info.ca) \in CaTexts /\ FormatForNarinfo(info.ca).raw = TRUE
      /\ IsContentAddress(FormatForNarinfo(info.ca))
      /\ CaValue(FormatForNarinfo(info.ca)).method = CaValue(info.ca).method
      /\ CaValue(FormatForNarinfo(info.ca)).hash = CaValue(info.ca).hash
      /\ CaValue(info.ca).hash.algorithm \in {"none", "sha256"} =>
           CaValue(FormatForNarinfo(info.ca)) = CaValue(info.ca)
  BY <1>6, CaWritten
<1> HIDE DEF digits
<1>8. NarUrl(digits, "zstd") \in Urls /\ "zstd" \in Words /\ IsNarPath(NarUrl(digits, "zstd"))
      /\ NarCompression("zstd") = "zstd"
  BY <1>5, InputConstants DEF NarUrl, Urls, Compressions, IsNarPath, NarCompression
<1>9. n \in NarInfos
  BY <1>1, <1>3, <1>5, <1>7, <1>8 DEF NarInfos
<1>10. Tells(n, PrintedFacts(entry))
  BY <1>2, <1>3, <1>5, <1>7 DEF Tells, Content, Facts, HasUsualCa
<1>11. Registrable(n)
  <2>1. NixFingerprint(Facts(n)) = NixFingerprint(PrintedFacts(entry))
    BY <1>2, <1>3, <1>5 DEF NixFingerprint, Facts
  <2>2. AllVerify(n.signatures, Facts(n))
    BY <1>1, <1>3, <2>1 DEF AllVerify, Verifies
  <2> QED
    BY <1>3, <1>7, <1>9, <2>2 DEF Registrable
<1>12. ASSUME IsStorePath(n.store_path), \A p \in ToSet(n.references) : IsStorePath(p),
              n.deriver = NoPath \/ IsStorePath(n.deriver)
       PROVE  ValidatePublishNarinfo(n)
  <2>1. \A i \in DOMAIN n.references : IsStorePath(n.references[i])
    BY <1>12 DEF ToSet
  <2>2. n.url = NarUrl(digits, "zstd") /\ n.compression = "zstd"
        /\ n.nar_hash = RenderText(info.narHash)
    BY <1>3
  <2>3. n.url.compression = "zstd" /\ n.url.digits = digits
    BY <2>2 DEF NarUrl
  <2> QED
    BY <1>5, <1>8, <1>12, <2>1, <2>2, <2>3 DEF ValidatePublishNarinfo
<1> QED
  BY <1>10, <1>11, <1>12

-----------------------------------------------------------------------------
\* The invariant

(***************************************************************************)
(* A row is as good as what a client registers.                            *)
(***************************************************************************)
LEMMA RowsRegistrable ==
  ASSUME NarinfosInv, NEW hash \in DOMAIN pathInfos
  PROVE  Registrable(pathInfos[hash]) /\ ValidatePublishNarinfo(pathInfos[hash])
BY DEF NarinfosInv, TypeOK, RowsPresentable, Presentable, Registrable

(***************************************************************************)
(* A registration that is accepted keeps the invariant.                    *)
(***************************************************************************)
LEMMA RegisterKeeps ==
  ASSUME NarinfosInv, NEW n, Registrable(n), NEW facts, Tells(n, facts), Register(n, facts)
  PROVE  NarinfosInv'
<1> DEFINE hash == StorePathHash(n.store_path)
           rows == pathInfos'
<1>1. /\ ValidatePublishNarinfo(n) /\ n.nar_size <= MaxNarSize
      /\ hash \in DOMAIN pathInfos => Compatible(pathInfos[hash], n)
      /\ rows = IF hash \in DOMAIN pathInfos
                THEN pathInfos
                ELSE [h \in DOMAIN pathInfos \cup {hash} |->
                        IF h = hash THEN StoredRow(n) ELSE pathInfos[h]]
      /\ registered' = registered \cup {facts}
      /\ served' = served /\ relayed' = relayed
  BY DEF Register, Accepts, UpsertPathInfo
<1>2. facts.path = n.store_path
  BY DEF Tells, Content, Facts
<1> HIDE DEF hash, rows
<1>3. /\ hash \in DOMAIN rows /\ Facts(rows[hash]) = Facts(n)
      /\ \A h \in DOMAIN pathInfos : h \in DOMAIN rows /\ rows[h] = pathInfos[h]
      /\ \A h \in DOMAIN rows : h \in DOMAIN pathInfos \/ (h = hash /\ rows[h] = StoredRow(n))
  <2>1. CASE hash \in DOMAIN pathInfos
    BY <1>1, <2>1, RowsRegistrable, CompatibleSaysSame
  <2>2. CASE hash \notin DOMAIN pathInfos
    BY <1>1, <2>2, RowOfValid
  <2> QED
    BY <2>1, <2>2
<1>4. /\ Registrable(StoredRow(n)) /\ ValidatePublishNarinfo(StoredRow(n))
      /\ StorePathHash(StoredRow(n).store_path) = hash
      /\ StoredRow(n).nar_hash = Normalized(StoredRow(n).nar_hash)
      /\ StoredRow(n).ca.raw /\ StoredRow(n).nar_size <= MaxNarSize
      /\ Presentable(StoredRow(n)) /\ IsContentAddress(StoredRow(n).ca)
  BY <1>1, RowOfValid, ValidNarinfo DEF hash, Registrable
<1>5. \A h \in DOMAIN rows :
        /\ StorePathHash(rows[h].store_path) = h /\ ValidatePublishNarinfo(rows[h])
        /\ rows[h].nar_hash = Normalized(rows[h].nar_hash) /\ rows[h].ca.raw
        /\ Presentable(rows[h]) /\ IsContentAddress(rows[h].ca) /\ rows[h].nar_size <= MaxNarSize
  BY <1>3, <1>4 DEF NarinfosInv, TypeOK, RowsPresentable
<1>6. TypeOK'
  BY <1>1, <1>5 DEF NarinfosInv, TypeOK, rows
<1>7. RowsPresentable'
  BY <1>5 DEF RowsPresentable, rows
<1>8. RowsSayWhatWasRegistered'
  <2>1. ASSUME NEW said \in registered'
        PROVE  StorePathHash(said.path) \in DOMAIN rows /\ Tells(rows[StorePathHash(said.path)], said)
    <3>1. CASE said = facts
      <4>1. Tells(rows[hash], facts)
        BY <1>3 DEF Tells, Facts
      <4> QED
        BY <1>2, <1>3, <3>1, <4>1 DEF hash
    <3>2. CASE said \in registered
      BY <1>3, <3>2 DEF NarinfosInv, RowsSayWhatWasRegistered
    <3> QED
      BY <1>1, <3>1, <3>2
  <2> QED
    BY <2>1 DEF RowsSayWhatWasRegistered, rows
<1> QED
  BY <1>1, <1>6, <1>7, <1>8 DEF NarinfosInv, RelayKeepsSource

(***************************************************************************)
(* Serving a row keeps the invariant.                                      *)
(***************************************************************************)
LEMMA ServeKeeps ==
  ASSUME NarinfosInv, NEW hash \in DOMAIN pathInfos, NEW keys \in SigningKeys, Serve(hash, keys)
  PROVE  NarinfosInv'
<1> DEFINE text == SignedNarinfo(pathInfos[hash], keys)
<1>1. /\ served' = <<text>>
      /\ pathInfos' = pathInfos /\ registered' = registered /\ relayed' = relayed
  BY DEF Serve
<1>2. keys \in Seq(Nat)
  BY InputConstants
<1>3. /\ Presentable(pathInfos[hash])
      /\ Len(Normalized(pathInfos[hash].nar_hash).digest.data) = NixBase32Length(DigestBytes)
  BY RowsRegistrable, ValidNarinfo
<1>4. ReadAlike(text)
  BY <1>2, <1>3, RenderedReadsAlike
<1> HIDE DEF text
<1>5. \A i \in DOMAIN served' : ReadAlike(served'[i])
  BY <1>1, <1>4
<1>6. Len(served') <= 1
  BY <1>1
<1> QED
  BY <1>1, <1>5, <1>6 DEF NarinfosInv, TypeOK, RowsPresentable, RowsSayWhatWasRegistered,
                         RelayKeepsSource

(***************************************************************************)
(* Relaying a text, of a depot or of a foreign cache, keeps the invariant. *)
(***************************************************************************)
LEMMA RelayKeeps ==
  ASSUME NarinfosInv, NEW text \in ToSet(served) \cup ForeignTexts, NEW keys \in RelayKeys,
         Relay(text, keys)
  PROVE  NarinfosInv'
<1> DEFINE next == SignedNarinfo(ParseNarinfo(text), keys)
           relay == [source |-> text, text |-> next]
<1>1. /\ relayed' = <<relay>>
      /\ pathInfos' = pathInfos /\ registered' = registered /\ served' = served
      /\ Parses(text) /\ Fingerprintable(ParseNarinfo(text))
  BY DEF Relay
<1>2. keys \in Seq(Nat)
  BY InputConstants
<1>3. ReadAlike(text)
  <2>1. CASE text \in ToSet(served)
    BY <2>1 DEF ToSet, NarinfosInv
  <2>2. CASE text \in ForeignTexts
    BY <1>1, <2>2, ForeignReadsAlike
  <2> QED
    BY <2>1, <2>2
<1>4. /\ NixReads(next) = NixReads(text) /\ next.URL = text.URL
      /\ ToSet(text.Sig) \subseteq ToSet(next.Sig) /\ AllVerify(next.Sig, NixReads(next))
  BY <1>2, <1>3, RelayedIsKept
<1>5. relay.source = text /\ relay.text = next
  OBVIOUS
<1> HIDE DEF next, relay
<1>6. Len(relayed') <= 1 /\ \A i \in DOMAIN relayed' : relayed'[i] = relay
  BY <1>1
<1>7. \A i \in DOMAIN relayed' : AllVerify(relayed'[i].text.Sig, NixReads(relayed'[i].text))
  BY <1>4, <1>5, <1>6
<1>8. RelayKeepsSource'
  BY <1>4, <1>5, <1>6 DEF RelayKeepsSource
<1> QED
  BY <1>1, <1>6, <1>7, <1>8 DEF NarinfosInv, TypeOK, RowsPresentable, RowsSayWhatWasRegistered

(***************************************************************************)
(* A push keeps the invariant: what the client registers says what Nix     *)
(* printed.                                                                *)
(***************************************************************************)
LEMMA PushKeeps ==
  ASSUME NarinfosInv, NEW entry \in PathInfos, Push(entry)
  PROVE  NarinfosInv'
<1> DEFINE n == NarinfoPayload(NarinfoFromPathInfo(ParsePathInfo(entry)))
<1>1. Normalizable(ParsePathInfo(entry).narHash) /\ Register(n, PrintedFacts(entry))
  BY DEF Push
<1>2. Registrable(n) /\ Tells(n, PrintedFacts(entry))
  BY <1>1, PayloadSaysPrinted
<1> HIDE DEF n
<1> QED
  BY <1>1, <1>2, RegisterKeeps

(***************************************************************************)
(* At every moment every row is valid, normalized and says what was        *)
(* registered, and every text that was served or relayed is read alike by  *)
(* Nix and by a depot, for any tables of inputs in which paths, hashes and *)
(* signatures are as Nix writes them.  A content address with another      *)
(* algorithm than sha256 keeps its method and digest, though perhaps in a  *)
(* form that Nix cannot read.                                              *)
(***************************************************************************)
THEOREM NarinfosInductive == Spec => []NarinfosInv
<1>1. Init => NarinfosInv
  BY DEF Init, NarinfosInv, TypeOK, RowsPresentable, RowsSayWhatWasRegistered, RelayKeepsSource
<1>2. NarinfosInv /\ [Next]_vars => NarinfosInv'
  <2>1. SUFFICES ASSUME NarinfosInv, [Next]_vars
                 PROVE  NarinfosInv'
    OBVIOUS
  <2>2. ASSUME NEW entry \in PathInfos, Push(entry)
        PROVE  NarinfosInv'
    BY <2>1, <2>2, PushKeeps
  <2>3. ASSUME NEW n \in Posted, Register(n, Facts(n))
        PROVE  NarinfosInv'
    <3>1. Registrable(n) /\ Tells(n, Facts(n))
      BY InputConstants DEF Registrable, Tells, Facts
    <3> QED
      BY <2>1, <2>3, <3>1, RegisterKeeps
  <2>4. ASSUME NEW hash \in DOMAIN pathInfos, NEW keys \in SigningKeys, Serve(hash, keys)
        PROVE  NarinfosInv'
    BY <2>1, <2>4, ServeKeeps
  <2>5. ASSUME NEW text \in ToSet(served) \cup ForeignTexts, NEW keys \in RelayKeys,
               Relay(text, keys)
        PROVE  NarinfosInv'
    BY <2>1, <2>5, RelayKeeps
  <2>6. CASE UNCHANGED vars
    BY <2>1, <2>6 DEF vars, NarinfosInv, TypeOK, RowsPresentable, RowsSayWhatWasRegistered,
                      RelayKeepsSource
  <2> QED
    BY <2>1, <2>2, <2>3, <2>4, <2>5, <2>6 DEF Next
<1> QED
  BY <1>1, <1>2, PTL DEF Spec

(***************************************************************************)
(* TypeOK: every row could be registered again as it stands, under the     *)
(* hash of its path, normalized.                                           *)
(***************************************************************************)
THEOREM NarinfosTypes == Spec => []TypeOK
<1>1. NarinfosInv => TypeOK
  BY DEF NarinfosInv
<1> QED
  BY <1>1, NarinfosInductive, PTL

(***************************************************************************)
(* What Nix reads of a row that says what was registered.                  *)
(***************************************************************************)
LEMMA ToldIsRead ==
  ASSUME NEW row, NEW facts, Tells(row, facts), NEW read, read = AsNixReads(Facts(row))
  PROVE  /\ Content(read) = Content(facts)
         /\ facts.compression # Unnamed => read.compression = facts.compression
         /\ HasUsualCa(facts) => read.ca.readable = facts.ca.readable
<1>1. read = [path |-> row.store_path, hash |-> HashValue(row.nar_hash), size |-> row.nar_size,
              references |-> ToSet(row.references), deriver |-> row.deriver,
              ca |-> CaValue(row.ca), compression |-> NixCompression(row.compression)]
  BY FactsAsRead
<1>2. Content(read) = Content(Facts(row))
  BY <1>1 DEF Content, Facts
<1>3. Content(Facts(row)) = Content(facts) /\ row.compression = facts.compression
  BY DEF Tells
<1>4. read.compression = NixCompression(row.compression) /\ read.ca = CaValue(row.ca)
  BY <1>1
<1>5. facts.compression # Unnamed => read.compression = facts.compression
  BY <1>3, <1>4 DEF NixCompression
<1>6. HasUsualCa(facts) => read.ca.readable = facts.ca.readable
  BY <1>4 DEF Tells
<1> QED
  BY <1>2, <1>3, <1>5, <1>6

(***************************************************************************)
(* AcceptedIsServed: what was registered and accepted is in the text that  *)
(* is served, whatever was registered before or after; Nix reads it as it  *)
(* was registered if its content address is a usual one and its            *)
(* compression was not left empty.                                         *)
(***************************************************************************)
THEOREM AcceptedIsServedSafe == Spec => []AcceptedIsServed
<1>1. NarinfosInv => AcceptedIsServed
  <2>1. SUFFICES ASSUME NarinfosInv, NEW facts \in registered, NEW hash,
                        hash = StorePathHash(facts.path), NEW text,
                        text = SignedNarinfo(pathInfos[hash], <<>>)
                 PROVE  /\ hash \in DOMAIN pathInfos
                        /\ Content(NixReads(text)) = Content(facts)
                        /\ facts.compression # Unnamed => NixReads(text).compression = facts.compression
                        /\ HasUsualCa(facts) => NixReads(text).ca.readable = facts.ca.readable
                        /\ DigitsNumber(text.URL[1].digits) = facts.hash.number
                        /\ text.URL[1].compression = NarCompression(facts.compression)
    BY DEF AcceptedIsServed
  <2> DEFINE row == pathInfos[hash]
  <2>2. hash \in DOMAIN pathInfos /\ Tells(row, facts)
    BY <2>1 DEF NarinfosInv, RowsSayWhatWasRegistered
  <2>3. /\ Registrable(row) /\ ValidatePublishNarinfo(row) /\ Presentable(row)
        /\ row.nar_hash \in HashTexts /\ Normalizable(row.nar_hash)
    BY <2>1, <2>2, RowsRegistrable, ValidNarinfo
  <2> HIDE DEF row
  <2>4. NixReads(text) = AsNixReads(Facts(row)) /\ text.URL = <<row.url>>
    BY <2>1, <2>3, RenderedIsRead DEF SignedNarinfo, row
  <2>5. HashValue(row.nar_hash).number = DigitsNumber(Normalized(row.nar_hash).digest.data)
    BY <2>3, NormalizedDigits
  <2>6. /\ row.url.digits = Normalized(row.nar_hash).digest.data
        /\ row.url.compression = NarCompression(row.compression)
    BY <2>3 DEF ValidatePublishNarinfo
  <2>7. facts.hash = HashValue(row.nar_hash) /\ facts.compression = row.compression
    BY <2>2 DEF Tells, Content, Facts
  <2>8. /\ Content(NixReads(text)) = Content(facts)
        /\ facts.compression # Unnamed => NixReads(text).compression = facts.compression
        /\ HasUsualCa(facts) => NixReads(text).ca.readable = facts.ca.readable
    BY <2>2, <2>4, ToldIsRead
  <2> QED
    BY <2>2, <2>4, <2>5, <2>6, <2>7, <2>8
<1> QED
  BY <1>1, NarinfosInductive, PTL

(***************************************************************************)
(* ReprintIsNoConflict: a path with a usual content address, or none, that *)
(* was registered can be registered again from any output of Nix that says *)
(* the same of it.                                                         *)
(***************************************************************************)
THEOREM ReprintIsNoConflictSafe == Spec => []ReprintIsNoConflict
<1>1. NarinfosInv => ReprintIsNoConflict
  <2>1. SUFFICES ASSUME NarinfosInv, NEW entry \in PathInfos,
                        PrintedFacts(entry) \in registered, HasUsualCa(PrintedFacts(entry)),
                        Normalizable(ParsePathInfo(entry).narHash), NEW n,
                        n = NarinfoPayload(NarinfoFromPathInfo(ParsePathInfo(entry)))
                 PROVE  Accepts(n)
    BY DEF ReprintIsNoConflict
  <2> DEFINE hash == StorePathHash(n.store_path)
             row == pathInfos[hash]
  <2>2. Registrable(n) /\ Tells(n, PrintedFacts(entry))
    BY <2>1, PayloadSaysPrinted
  <2>3. hash \in DOMAIN pathInfos /\ Facts(row) = Facts(n) /\ HasUsualCa(Facts(n))
    <3>1. PrintedFacts(entry).path = n.store_path
      BY <2>2 DEF Tells, Content, Facts
    <3>2. hash \in DOMAIN pathInfos /\ Tells(row, PrintedFacts(entry))
      BY <2>1, <3>1 DEF NarinfosInv, RowsSayWhatWasRegistered
    <3> QED
      BY <2>1, <2>2, <3>2 DEF Tells, Content, Facts, CaValue, HasUsualCa
  <2>4. Registrable(row) /\ ValidatePublishNarinfo(row) /\ row.nar_size <= MaxNarSize
    BY <2>1, <2>3, RowsRegistrable DEF NarinfosInv, RowsPresentable
  <2>5. hash = StorePathHash(n.store_path)
    OBVIOUS
  <2> HIDE DEF row, hash
  <2>6. /\ row.store_path = n.store_path /\ row.nar_size = n.nar_size
        /\ ToSet(row.references) = ToSet(n.references) /\ row.deriver = n.deriver
    BY <2>3 DEF Facts
  <2>7. /\ IsStorePath(row.store_path) /\ (row.deriver = NoPath \/ IsStorePath(row.deriver))
        /\ \A p \in ToSet(row.references) : IsStorePath(p)
    BY <2>4 DEF ValidatePublishNarinfo, ToSet
  <2>8. ValidatePublishNarinfo(n)
    BY <2>1, <2>6, <2>7, PayloadSaysPrinted
  <2>9. Compatible(row, n)
    BY <2>2, <2>3, <2>4, <2>8, SameIsCompatible
  <2> QED
    BY <2>4, <2>5, <2>6, <2>8, <2>9 DEF Accepts, row
<1> QED
  BY <1>1, NarinfosInductive, PTL

(***************************************************************************)
(* SignaturesVerify: every signature that a depot serves or relays         *)
(* verifies against what Nix reads in the same text.                       *)
(***************************************************************************)
THEOREM SignaturesVerifySafe == Spec => []SignaturesVerify
<1>1. NarinfosInv => SignaturesVerify
  BY DEF NarinfosInv, SignaturesVerify, ReadAlike, AllVerify, ToSet
<1> QED
  BY <1>1, NarinfosInductive, PTL

(***************************************************************************)
(* RelayKeepsSource: a second depot changes nothing of what Nix reads, and *)
(* loses no signature.                                                     *)
(***************************************************************************)
THEOREM RelayKeepsSourceSafe == Spec => []RelayKeepsSource
<1>1. NarinfosInv => RelayKeepsSource
  BY DEF NarinfosInv
<1> QED
  BY <1>1, NarinfosInductive, PTL

=============================================================================
