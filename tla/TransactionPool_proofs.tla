----------------------- MODULE TransactionPool_proofs -----------------------
(***************************************************************************)
(* Proofs about TransactionPool, for any transactions, providers and       *)
(* bounds: no accepted transaction is lost or sent twice at once, what has *)
(* ended stays ended, and nothing overtakes a Critical transaction.        *)
(***************************************************************************)
EXTENDS TransactionPool, FiniteSetTheorems, SequenceTheorems, WellFoundedInduction, TLAPS

\* Where each transaction is, and how often it was tried.
Placed ==
    \A t \in Txs :
        /\ passes[t] = attempts[t] + (IF at[t] > 0 \/ status[t] = "Confirmed" THEN 1 ELSE 0)
        /\ status[t] = "Queued" <=> t \in ToSet(queue)
        /\ status[t] = "Submitted" <=> at[t] > 0
        /\ at[t] > 0 => t \in processing
        /\ t \in completed => status[t] \in Terminal
        /\ status[t] \in {"None", "Queued", "Submitted", "Confirmed"} => attempts[t] < MaxAttempts

\* The slots, and the transactions that came from callers and not from retries.
Bounds ==
    /\ IsFiniteSet(processing) /\ Cardinality(processing) <= MaxConcurrent
    /\ Cardinality(ToSet(queue) \ processing) <= MaxQueueSize

IInv == TypeOK /\ Placed /\ Bounds

\* Critical transactions stand at the head of the queue.
CriticalAhead(q) ==
    \A i, j \in DOMAIN q : i < j /\ Priority[q[j]] = 0 => Priority[q[i]] = 0

CriticalAtHead == CriticalAhead(queue)

-----------------------------------------------------------------------------
(* Sorting and filtering *)

Before(R, I, i) == {j \in I : <<j, i>> \in R}
Place(R, I, i) == Cardinality(Before(R, I, i)) + 1
IsOrder(R, I) ==
    /\ \A i \in I : <<i, i>> \notin R
    /\ \A i, j \in I : i # j => <<i, j>> \in R \/ <<j, i>> \in R
    /\ \A i, j, k \in I : <<i, j>> \in R /\ <<j, k>> \in R => <<i, k>> \in R

\* The first numbers are finitely many.
LEMMA FirstNumbers == ASSUME NEW n \in Nat PROVE IsFiniteSet(1..n) /\ Cardinality(1..n) = n
BY FS_Interval

\* A function on the first numbers is a sequence.
LEMMA FunctionIsSeq == ASSUME NEW S, NEW n \in Nat, NEW f \in [1..n -> S]
                       PROVE f \in Seq(S) /\ Len(f) = n /\ DOMAIN f = 1..n
OBVIOUS

\* In a total order on a finite set, the places are the numbers up to its size, and
\* they grow along the order.
LEMMA Places == ASSUME NEW I, IsFiniteSet(I), NEW R, IsOrder(R, I)
                PROVE /\ \A i \in I : Place(R, I, i) \in 1..Cardinality(I)
                      /\ \A i, j \in I : <<i, j>> \in R => Place(R, I, i) < Place(R, I, j)
                      /\ \A k \in 1..Cardinality(I) : \E i \in I : Place(R, I, i) = k
<1>1. ASSUME NEW i \in I
      PROVE /\ IsFiniteSet(Before(R, I, i)) /\ Cardinality(Before(R, I, i)) \in Nat
            /\ Cardinality(Before(R, I, i)) <= Cardinality(I) - 1
  <2>1. Before(R, I, i) \subseteq I \ {i}
    BY DEF Before, IsOrder
  <2>2. IsFiniteSet(I \ {i}) /\ Cardinality(I \ {i}) = Cardinality(I) - 1
    BY FS_RemoveElement
  <2>3. IsFiniteSet(Before(R, I, i)) /\ Cardinality(Before(R, I, i)) <= Cardinality(I \ {i})
    BY <2>1, <2>2, FS_Subset
  <2> QED BY <2>2, <2>3, FS_CardinalityType
<1>2. Cardinality(I) \in Nat
  BY FS_CardinalityType
<1>3. ASSUME NEW i \in I PROVE Place(R, I, i) \in 1..Cardinality(I)
  BY <1>1, <1>2 DEF Place
<1>4. ASSUME NEW i \in I, NEW j \in I, <<i, j>> \in R PROVE Place(R, I, i) < Place(R, I, j)
  <2>1. Before(R, I, i) \cup {i} \subseteq Before(R, I, j)
    BY <1>4 DEF Before, IsOrder
  <2>2. i \notin Before(R, I, i)
    BY DEF Before, IsOrder
  <2>3. IsFiniteSet(Before(R, I, i) \cup {i})
        /\ Cardinality(Before(R, I, i) \cup {i}) = Cardinality(Before(R, I, i)) + 1
    BY <1>1, <2>2, FS_AddElement
  <2>4. Cardinality(Before(R, I, i) \cup {i}) <= Cardinality(Before(R, I, j))
    BY <1>1, <2>1, FS_Subset
  <2> QED BY <1>1, <2>3, <2>4 DEF Place
<1>5. ASSUME NEW k \in 1..Cardinality(I) PROVE \E i \in I : Place(R, I, i) = k
  <2> DEFINE f == [i \in I |-> Place(R, I, i)]
             T == 1..Cardinality(I)
  <2>1. f \in [I -> T]
    BY <1>3
  <2>2. ASSUME NEW i \in I, NEW j \in I, f[i] = f[j] PROVE i = j
    <3>1. Place(R, I, i) = Place(R, I, j) /\ Place(R, I, i) \in Int /\ Place(R, I, j) \in Int
      BY <1>3, <2>2
    <3>2. <<i, j>> \notin R /\ <<j, i>> \notin R
      BY <1>4, <3>1
    <3> QED BY <3>2 DEF IsOrder
  <2>3. f \in Injection(I, T)
    BY <2>1, <2>2 DEF Injection, IsInjective
  <2>4. IsFiniteSet(T) /\ Cardinality(T) = Cardinality(I)
    BY <1>2, FS_Interval
  <2>5. f \in Surjection(I, T)
    BY <2>3, <2>4, FS_Injection
  <2>6. PICK i \in I : f[i] = k
    BY <2>5 DEF Surjection
  <2> QED BY <2>6
<1> QED BY <1>3, <1>4, <1>5

\* So whatever lists the elements of I by their places lists each once, in the order.
LEMMA Listed ==
    ASSUME NEW I, IsFiniteSet(I), NEW R, IsOrder(R, I), NEW p,
           \A k \in 1..Cardinality(I) : p[k] \in I /\ Place(R, I, p[k]) = k
    PROVE /\ \A i \in I : \E k \in 1..Cardinality(I) : p[k] = i
          /\ \A k, l \in 1..Cardinality(I) : k < l <=> <<p[k], p[l]>> \in R
          /\ \A k, l \in 1..Cardinality(I) : p[k] = p[l] => k = l
<1> DEFINE n == Cardinality(I)
<1>1. ASSUME NEW i \in I, NEW j \in I, Place(R, I, i) = Place(R, I, j) PROVE i = j
  <2>1. Place(R, I, i) \in Int /\ Place(R, I, j) \in Int
    BY Places
  <2>2. <<i, j>> \notin R /\ <<j, i>> \notin R
    BY <1>1, <2>1, Places
  <2> QED BY <2>2 DEF IsOrder
<1>2. ASSUME NEW i \in I PROVE \E k \in 1..n : p[k] = i
  <2>1. Place(R, I, i) \in 1..n
    BY Places
  <2>2. p[Place(R, I, i)] = i
    BY <1>1, <2>1
  <2> QED BY <2>1, <2>2
<1>3. ASSUME NEW k \in 1..n, NEW l \in 1..n PROVE k < l <=> <<p[k], p[l]>> \in R
  <2>1. CASE <<p[k], p[l]>> \in R
    BY <2>1, Places
  <2>2. CASE <<p[l], p[k]>> \in R
    <3>1. l < k
      BY <2>2, Places
    <3>2. <<p[k], p[l]>> \notin R
      BY <2>2 DEF IsOrder
    <3> QED BY <3>1, <3>2
  <2>3. CASE p[k] = p[l]
    <3>1. k = l
      BY <2>3
    <3> QED BY <2>3, <3>1 DEF IsOrder
  <2> QED BY <2>1, <2>2, <2>3 DEF IsOrder
<1>4. \A k, l \in 1..n : p[k] = p[l] => k = l
  OBVIOUS
<1> QED BY <1>2, <1>3, <1>4

\* What sortQueue does: the same transactions, once each, by falling score.
LEMMA SortedQueue ==
    ASSUME NEW q \in Seq(Txs), NEW tried \in [Txs -> Nat], age \in [Txs -> 0..2]
    PROVE /\ Sorted(q, tried) \in Seq(Txs) /\ Len(Sorted(q, tried)) = Len(q)
          /\ ToSet(Sorted(q, tried)) = ToSet(q)
          /\ IsInjective(q) => IsInjective(Sorted(q, tried))
          /\ \A k, l \in 1..Len(q) :
                 k < l => Score(Sorted(q, tried)[k], tried) >= Score(Sorted(q, tried)[l], tried)
<1> DEFINE I == DOMAIN q
           Bef(i, j) == \/ Score(q[i], tried) > Score(q[j], tried)
                        \/ Score(q[i], tried) = Score(q[j], tried) /\ i < j
           R == {r \in I \X I : Bef(r[1], r[2])}
           p == [k \in I |-> CHOOSE i \in I : Cardinality({j \in I : Bef(j, i)}) + 1 = k]
           s == Sorted(q, tried)
<1>1. I = 1..Len(q) /\ Len(q) \in Nat /\ \A i \in I : q[i] \in Txs
  BY LenProperties, ElementOfSeq
<1>2. IsFiniteSet(I) /\ Cardinality(I) = Len(q)
  <2>1. Len(q) \in Nat
    BY <1>1
  <2>2. IsFiniteSet(1..Len(q)) /\ Cardinality(1..Len(q)) = Len(q)
    BY <2>1, FirstNumbers
  <2> QED BY <1>1, <2>2
<1>3. \A t \in Txs : Score(t, tried) \in Nat
  <2>1. ASSUME NEW t \in Txs PROVE Score(t, tried) \in Nat
    <3>1. Priority[t] \in 0..4 /\ tried[t] \in Nat /\ age[t] \in 0..2
      BY PoolAssumption
    <3>2. Base[Priority[t]] \in Nat
      BY <3>1 DEF Base
    <3> DEFINE boosted == IF Boost /\ age[t] > 0 THEN 200 ELSE 0
               aged == IF age[t] = 2 THEN 50 ELSE 0
    <3>3. boosted \in Nat /\ aged \in Nat
      OBVIOUS
    <3>4. \A a, b, d, n \in Nat : a + b + 5 * n + d \in Nat
      OBVIOUS
    <3>5. Score(t, tried) = Base[Priority[t]] + boosted + 5 * tried[t] + aged
      BY DEF Score
    <3> HIDE DEF boosted, aged
    <3> QED BY <3>1, <3>2, <3>3, <3>4, <3>5
  <2> QED BY <2>1
<1>4. \A i \in I : Score(q[i], tried) \in Nat
  BY <1>1, <1>3
<1>5. \A i, j \in I : <<i, j>> \in R <=> Bef(i, j)
  OBVIOUS
<1>6. IsOrder(R, I)
  <2>1. \A i \in I : ~Bef(i, i)
    BY <1>1, <1>4
  <2>2. \A i, j \in I : i # j => Bef(i, j) \/ Bef(j, i)
    BY <1>1, <1>4
  <2>3. \A i, j, k \in I : Bef(i, j) /\ Bef(j, k) => Bef(i, k)
    BY <1>1, <1>4
  <2> QED BY <1>5, <2>1, <2>2, <2>3 DEF IsOrder
<1> HIDE DEF R
<1>7. \A i \in I : Place(R, I, i) = Cardinality({j \in I : Bef(j, i)}) + 1
  <2>1. ASSUME NEW i \in I PROVE Before(R, I, i) = {j \in I : Bef(j, i)}
    BY <1>5 DEF Before
  <2> QED BY <2>1 DEF Place
<1>8. \A k \in I : p[k] \in I /\ Place(R, I, p[k]) = k
  <2>1. ASSUME NEW k \in I PROVE p[k] \in I /\ Place(R, I, p[k]) = k
    <3>1. \E i \in I : Place(R, I, i) = k
      <4>1. k \in 1..Cardinality(I)
        BY <1>1, <1>2
      <4> HIDE DEF I
      <4> QED BY <1>2, <1>6, <4>1, Places
    <3>2. \E i \in I : Cardinality({j \in I : Bef(j, i)}) + 1 = k
      BY <1>7, <3>1
    <3>3. p[k] \in I /\ Cardinality({j \in I : Bef(j, p[k])}) + 1 = k
      BY <3>2
    <3> QED BY <1>7, <3>3
  <2> QED BY <2>1
<1>9. s = [k \in I |-> q[p[k]]]
  BY DEF Sorted
<1> HIDE DEF p, s, I
<1>10. /\ \A i \in I : \E k \in I : p[k] = i
       /\ \A k, l \in I : k < l <=> <<p[k], p[l]>> \in R
       /\ \A k, l \in I : p[k] = p[l] => k = l
  <2>1. I = 1..Cardinality(I)
    BY <1>1, <1>2
  <2>2. \A k \in 1..Cardinality(I) : p[k] \in I /\ Place(R, I, p[k]) = k
    BY <1>8, <2>1
  <2>3. /\ \A i \in I : \E k \in 1..Cardinality(I) : p[k] = i
        /\ \A k, l \in 1..Cardinality(I) : k < l <=> <<p[k], p[l]>> \in R
        /\ \A k, l \in 1..Cardinality(I) : p[k] = p[l] => k = l
    <3>1. IsFiniteSet(I) /\ IsOrder(R, I)
      BY <1>2, <1>6
    <3> QED BY <2>2, <3>1, Listed
  <2> QED BY <2>1, <2>3
<1>11. s \in [1..Len(q) -> Txs]
  BY <1>1, <1>8, <1>9
<1>12. s \in Seq(Txs) /\ Len(s) = Len(q) /\ DOMAIN s = I
  <2>1. Len(q) \in Nat
    BY <1>1
  <2>2. s \in Seq(Txs) /\ Len(s) = Len(q)
    BY <1>11, <2>1, FunctionIsSeq
  <2> QED BY <1>1, <1>11, <2>2
<1>13. ToSet(s) = ToSet(q)
  <2>1. ToSet(s) \subseteq ToSet(q)
    BY <1>8, <1>9, <1>12 DEF ToSet, I
  <2>2. ASSUME NEW i \in I PROVE q[i] \in ToSet(s)
    <3>1. PICK k \in I : p[k] = i
      BY <1>10
    <3>2. s[k] = q[i]
      BY <1>9, <3>1
    <3> QED BY <1>12, <3>2 DEF ToSet
  <2> QED BY <2>1, <2>2 DEF ToSet, I
<1>14. IsInjective(q) => IsInjective(s)
  <2>1. ASSUME IsInjective(q), NEW k \in I, NEW l \in I, s[k] = s[l] PROVE k = l
    <3>1. q[p[k]] = q[p[l]] /\ p[k] \in DOMAIN q /\ p[l] \in DOMAIN q
      BY <1>8, <1>9, <2>1 DEF I
    <3>2. p[k] = p[l]
      BY <2>1, <3>1 DEF IsInjective
    <3> QED BY <1>10, <3>2
  <2> QED BY <1>12, <2>1 DEF IsInjective
<1>15. \A k, l \in I : k < l => Score(s[k], tried) >= Score(s[l], tried)
  <2>1. ASSUME NEW k \in I, NEW l \in I, k < l PROVE Score(s[k], tried) >= Score(s[l], tried)
    <3>1. p[k] \in I /\ p[l] \in I /\ s[k] = q[p[k]] /\ s[l] = q[p[l]]
      BY <1>8, <1>9
    <3>2. Bef(p[k], p[l])
      BY <1>5, <1>10, <2>1, <3>1
    <3>3. Score(q[p[k]], tried) \in Nat /\ Score(q[p[l]], tried) \in Nat
      BY <1>4, <3>1
    <3> QED BY <3>1, <3>2, <3>3
  <2> QED BY <2>1
<1> QED BY <1>1, <1>12, <1>13, <1>14, <1>15 DEF s

\* What filter and splice leave: the other transactions, in their order.
LEMMA FilteredQueue ==
    ASSUME NEW q \in Seq(Txs), NEW S, IsInjective(q)
    PROVE /\ Without(q, S) \in Seq(Txs) /\ Len(Without(q, S)) <= Len(q)
          /\ ToSet(Without(q, S)) = ToSet(q) \ S
          /\ IsInjective(Without(q, S))
          /\ CriticalAhead(q) => CriticalAhead(Without(q, S))
<1> DEFINE I == {i \in DOMAIN q : q[i] \notin S}
           n == Cardinality(I)
           R == {r \in I \X I : r[1] < r[2]}
           p == [k \in 1..n |-> CHOOSE i \in I : Cardinality({j \in I : j < i}) + 1 = k]
           s == Without(q, S)
<1>1. DOMAIN q = 1..Len(q) /\ Len(q) \in Nat /\ \A i \in I : i \in DOMAIN q /\ q[i] \in Txs
  BY LenProperties, ElementOfSeq
<1>2. IsFiniteSet(I) /\ n \in Nat /\ n <= Len(q)
  <2>0. Len(q) \in Nat
    BY <1>1
  <2>1. IsFiniteSet(1..Len(q)) /\ Cardinality(1..Len(q)) = Len(q)
    BY <2>0, FirstNumbers
  <2>2. IsFiniteSet(I) /\ n <= Cardinality(1..Len(q))
    BY <1>1, <2>1, FS_Subset
  <2> QED BY <2>1, <2>2, FS_CardinalityType
<1>3. \A i, j \in I : <<i, j>> \in R <=> i < j
  OBVIOUS
<1>4. IsOrder(R, I)
  <2>1. \A i \in I : i \in Int
    BY <1>1
  <2> QED BY <1>3, <2>1 DEF IsOrder
<1> HIDE DEF R
<1>5. \A i \in I : Place(R, I, i) = Cardinality({j \in I : j < i}) + 1
  <2>1. ASSUME NEW i \in I PROVE Before(R, I, i) = {j \in I : j < i}
    BY <1>3 DEF Before
  <2> QED BY <2>1 DEF Place
<1>6. \A k \in 1..n : p[k] \in I /\ Place(R, I, p[k]) = k
  <2>1. ASSUME NEW k \in 1..n PROVE p[k] \in I /\ Place(R, I, p[k]) = k
    <3>1. \E i \in I : Place(R, I, i) = k
      <4> HIDE DEF I
      <4> QED BY <1>2, <1>4, Places
    <3>2. \E i \in I : Cardinality({j \in I : j < i}) + 1 = k
      BY <1>5, <3>1
    <3>3. p[k] \in I /\ Cardinality({j \in I : j < p[k]}) + 1 = k
      BY <3>2
    <3> QED BY <1>5, <3>3
  <2> QED BY <2>1
<1>7. s = [k \in 1..n |-> q[p[k]]]
  BY DEF Without
<1> HIDE DEF p, s, I
<1>8. /\ \A i \in I : \E k \in 1..n : p[k] = i
      /\ \A k, l \in 1..n : k < l <=> <<p[k], p[l]>> \in R
      /\ \A k, l \in 1..n : p[k] = p[l] => k = l
  BY <1>2, <1>4, <1>6, Listed
<1> HIDE DEF n
<1>9. s \in [1..n -> Txs]
  BY <1>1, <1>6, <1>7
<1>10. s \in Seq(Txs) /\ Len(s) = n /\ DOMAIN s = 1..n
  <2>1. n \in Nat
    BY <1>2
  <2> QED BY <1>9, <2>1, FunctionIsSeq
<1>11. ToSet(s) = ToSet(q) \ S
  <2>1. ToSet(s) \subseteq ToSet(q) \ S
    BY <1>6, <1>7, <1>10 DEF ToSet, I
  <2>2. ASSUME NEW i \in I PROVE q[i] \in ToSet(s)
    <3>1. PICK k \in 1..n : p[k] = i
      BY <1>8
    <3>2. s[k] = q[i]
      BY <1>7, <3>1
    <3> QED BY <1>10, <3>2 DEF ToSet
  <2> QED BY <2>1, <2>2 DEF ToSet, I
<1>12. IsInjective(s)
  <2>1. ASSUME NEW k \in 1..n, NEW l \in 1..n, s[k] = s[l] PROVE k = l
    <3>1. q[p[k]] = q[p[l]] /\ p[k] \in DOMAIN q /\ p[l] \in DOMAIN q
      BY <1>1, <1>6, <1>7, <2>1
    <3>2. p[k] = p[l]
      BY <3>1 DEF IsInjective
    <3> QED BY <1>8, <3>2
  <2> QED BY <1>10, <2>1 DEF IsInjective
<1>13. CriticalAhead(q) => CriticalAhead(s)
  <2>1. ASSUME NEW k \in 1..n, NEW l \in 1..n, k < l PROVE p[k] < p[l]
    BY <1>3, <1>6, <1>8, <2>1
  <2> QED BY <1>1, <1>6, <1>7, <1>10, <2>1 DEF CriticalAhead
<1> QED BY <1>2, <1>10, <1>11, <1>12, <1>13 DEF s

-----------------------------------------------------------------------------
(* Starting passes *)

\* A set of natural numbers that is not empty has a least element.
LEMMA Least == ASSUME NEW T \in SUBSET Nat, T # {} PROVE \E n \in T : \A m \in T : n <= m
<1> DEFINE R == OpToRel(<, Nat)
<1>1. \E n \in T : \A m \in T : ~(<<m, n>> \in R)
  <2>1. IsWellFoundedOn(R, Nat)
    BY NatLessThanWellFounded
  <2> HIDE DEF R
  <2> QED BY <2>1, WFMin
<1>2. \A m, n \in Nat : m < n => <<m, n>> \in R
  BY DEF OpToRel
<1> HIDE DEF R
<1>3. PICK n \in T : \A m \in T : ~(<<m, n>> \in R)
  BY <1>1
<1>4. ASSUME NEW m \in T PROVE n <= m
  <2>1. m \in Nat /\ n \in Nat /\ ~(m < n)
    BY <1>2, <1>3
  <2> QED BY <2>1
<1> QED BY <1>4

\* The loop of processQueue ends somewhere in the queue, and fills no more than the
\* free slots.
LEMMA SlotsFit ==
    ASSUME NEW q \in Seq(Txs), IsFiniteSet(processing), Cardinality(processing) <= MaxConcurrent
    PROVE /\ Slots(q) \in 0..Len(q)
          /\ IsFiniteSet(processing \cup ToSet(SubSeq(q, 1, Slots(q))))
          /\ Cardinality(processing \cup ToSet(SubSeq(q, 1, Slots(q)))) <= MaxConcurrent
<1> DEFINE busy(m) == processing \cup ToSet(SubSeq(q, 1, m))
           Ends(n) == n = Len(q) \/ Cardinality(busy(n)) >= MaxConcurrent
           n == Slots(q)
<1>1. Len(q) \in Nat /\ DOMAIN q = 1..Len(q) /\ \A i \in 1..Len(q) : q[i] \in Txs
  BY LenProperties, ElementOfSeq
<1>2. ASSUME NEW m \in 0..Len(q)
      PROVE /\ SubSeq(q, 1, m) \in Seq(Txs) /\ Len(SubSeq(q, 1, m)) = m
            /\ \A i \in 1..m : SubSeq(q, 1, m)[i] = q[i]
            /\ ToSet(SubSeq(q, 1, m)) = {q[i] : i \in 1..m}
  <2>1. m \in Nat /\ m <= Len(q)
    BY <1>1
  <2>2. /\ SubSeq(q, 1, m) \in Seq(Txs) /\ Len(SubSeq(q, 1, m)) = m
        /\ \A i \in 1..m : SubSeq(q, 1, m)[i] = q[i]
    BY <1>1, <2>1, SubSeqProperties
  <2>3. DOMAIN SubSeq(q, 1, m) = 1..m
    BY <2>2
  <2> QED BY <2>2, <2>3 DEF ToSet
<1>3. busy(0) = processing
  BY <1>1, <1>2
<1>4. ASSUME NEW m \in 0..Len(q), m # 0, IsFiniteSet(busy(m - 1)), Cardinality(busy(m - 1)) \in Nat
      PROVE IsFiniteSet(busy(m)) /\ Cardinality(busy(m)) \in Nat
            /\ Cardinality(busy(m)) <= Cardinality(busy(m - 1)) + 1
  <2>1. m - 1 \in 0..Len(q) /\ 1..m = (1..(m - 1)) \cup {m}
    BY <1>1, <1>4
  <2>2. busy(m) = busy(m - 1) \cup {q[m]}
    BY <1>2, <2>1
  <2> HIDE DEF busy
  <2>3. /\ IsFiniteSet(busy(m - 1) \cup {q[m]})
        /\ Cardinality(busy(m - 1) \cup {q[m]}) =
               IF q[m] \in busy(m - 1) THEN Cardinality(busy(m - 1)) ELSE Cardinality(busy(m - 1)) + 1
    BY <1>4, FS_AddElement
  <2> QED BY <1>4, <2>2, <2>3
<1>5. \A m \in 0..Len(q) : IsFiniteSet(busy(m)) /\ Cardinality(busy(m)) \in Nat
  <2>1. ASSUME NEW m \in 0..Len(q) PROVE IsFiniteSet(busy(m))
    <3>1. IsFiniteSet(ToSet(SubSeq(q, 1, m)))
      <4> DEFINE f == [i \in 1..m |-> q[i]]
                 T == {q[i] : i \in 1..m}
      <4>1. f \in Surjection(1..m, T)
        BY DEF Surjection
      <4>2. IsFiniteSet(1..m)
        BY <1>1, FirstNumbers
      <4>3. IsFiniteSet(T)
        BY <4>1, <4>2, FS_Surjection
      <4> QED BY <1>2, <4>3
    <3> QED BY <3>1, FS_Union
  <2> HIDE DEF busy
  <2> QED BY <2>1, FS_CardinalityType
<1> HIDE DEF busy
<1>6. \E k \in 0..Len(q) : (\A m \in 0..(k - 1) : Cardinality(busy(m)) < MaxConcurrent) /\ Ends(k)
  <2> DEFINE T == {m \in 0..Len(q) : Ends(m)}
  <2>1. T \in SUBSET Nat /\ Len(q) \in T
    BY <1>1
  <2>2. PICK k \in T : \A m \in T : k <= m
    <3> HIDE DEF T
    <3> QED BY <2>1, Least
  <2>3. ASSUME NEW m \in 0..(k - 1) PROVE Cardinality(busy(m)) < MaxConcurrent
    <3>0. k \in 0..Len(q)
      OBVIOUS
    <3>1. m \in 0..Len(q) /\ m < k
      <4> HIDE DEF T
      <4>1. Len(q) \in Nat
        BY <1>1
      <4> QED BY <3>0, <4>1
    <3>2. m \notin T
      <4> HIDE DEF T
      <4>1. ~(k <= m)
        BY <3>0, <3>1
      <4> QED BY <2>2, <4>1
    <3> QED BY <1>5, <3>1, <3>2, PoolAssumption
  <2> QED BY <2>2, <2>3
<1>7. /\ n \in 0..Len(q) /\ \A m \in 0..(n - 1) : Cardinality(busy(m)) < MaxConcurrent
      /\ Ends(n)
  BY <1>6 DEF Slots, busy
<1> HIDE DEF n
<1>8. Cardinality(busy(n)) <= MaxConcurrent
  <2>1. CASE n = 0
    BY <1>3, <2>1
  <2>2. CASE n # 0
    <3>1. n - 1 \in 0..(n - 1) /\ n - 1 \in 0..Len(q)
      <4>1. n \in 0..Len(q) /\ Len(q) \in Nat
        BY <1>1, <1>7
      <4>2. \A a, b \in Nat : a # 0 /\ a \in 0..b => a - 1 \in 0..(a - 1) /\ a - 1 \in 0..b
        OBVIOUS
      <4>3. n \in Nat
        BY <4>1
      <4> QED BY <2>2, <4>1, <4>2, <4>3
    <3>2. Cardinality(busy(n - 1)) < MaxConcurrent
      BY <1>7, <3>1
    <3>3. Cardinality(busy(n)) <= Cardinality(busy(n - 1)) + 1
      BY <1>4, <1>5, <1>7, <2>2, <3>1
    <3> QED BY <1>5, <1>7, <3>1, <3>2, <3>3, PoolAssumption
  <2> QED BY <2>1, <2>2
<1> QED BY <1>5, <1>7, <1>8 DEF busy, n

\* Splitting a queue: what is started, and what is left.
LEMMA SplitQueue ==
    ASSUME NEW q \in Seq(Txs), IsInjective(q), NEW n \in 0..Len(q)
    PROVE LET head == SubSeq(q, 1, n)
              rest == SubSeq(q, n + 1, Len(q))
          IN  /\ rest \in Seq(Txs) /\ Len(rest) = Len(q) - n /\ IsInjective(rest)
              /\ ToSet(head) \subseteq Txs /\ ToSet(head) \cup ToSet(rest) = ToSet(q)
              /\ ToSet(head) \cap ToSet(rest) = {}
              /\ CriticalAhead(q) => CriticalAhead(rest)
              /\ CriticalAhead(q) => \A t \in ToSet(head), u \in ToSet(rest) :
                                         Priority[u] = 0 => Priority[t] = 0
<1> DEFINE head == SubSeq(q, 1, n)
           rest == SubSeq(q, n + 1, Len(q))
<1>1. Len(q) \in Nat /\ n \in Nat /\ n <= Len(q) /\ DOMAIN q = 1..Len(q) /\ \A i \in 1..Len(q) : q[i] \in Txs
  BY LenProperties, ElementOfSeq
<1>2. /\ head \in Seq(Txs) /\ Len(head) = n /\ \A i \in 1..n : head[i] = q[i]
  BY <1>1, SubSeqProperties
<1>3. /\ rest \in Seq(Txs) /\ Len(rest) = Len(q) - n
      /\ \A i \in 1..(Len(q) - n) : rest[i] = q[n + i]
  <2>1. \A i \in (n + 1)..Len(q) : q[i] \in Txs
    BY <1>1
  <2>2. /\ rest \in Seq(Txs) /\ Len(rest) = IF n + 1 <= Len(q) THEN Len(q) - (n + 1) + 1 ELSE 0
        /\ \A i \in 1..(Len(q) - (n + 1) + 1) : rest[i] = q[(n + 1) + i - 1]
    BY <1>1, <2>1, SubSeqProperties
  <2>3. Len(q) - (n + 1) + 1 = Len(q) - n /\ (~(n + 1 <= Len(q)) => Len(q) - n = 0)
    <3>1. Len(q) \in Nat /\ n \in Nat /\ n <= Len(q)
      BY <1>1
    <3> HIDE DEF rest, head
    <3> QED BY <3>1
  <2>4. \A i \in 1..(Len(q) - n) : i \in 1..(Len(q) - (n + 1) + 1) /\ (n + 1) + i - 1 = n + i
    BY <1>1
  <2> HIDE DEF rest
  <2> QED BY <2>2, <2>3, <2>4
<1>4. DOMAIN head = 1..n /\ DOMAIN rest = 1..(Len(q) - n)
  BY <1>2, <1>3
<1> HIDE DEF head, rest
<1>5. \A i \in 1..(Len(q) - n) : n + i \in 1..Len(q)
  BY <1>1
<1>6. IsInjective(rest)
  <2>1. ASSUME NEW i \in DOMAIN rest, NEW j \in DOMAIN rest, rest[i] = rest[j] PROVE i = j
    <3>1. q[n + i] = q[n + j] /\ n + i \in DOMAIN q /\ n + j \in DOMAIN q
      BY <1>1, <1>3, <1>4, <1>5, <2>1
    <3>2. n + i = n + j
      BY <3>1 DEF IsInjective
    <3>3. i \in Int /\ j \in Int
      BY <1>1, <1>4
    <3> QED BY <1>1, <3>2, <3>3
  <2> QED BY <2>1 DEF IsInjective
<1>7. ToSet(head) = {q[i] : i \in 1..n} /\ ToSet(rest) = {q[i] : i \in (n + 1)..Len(q)}
  <2>1. ToSet(head) = {q[i] : i \in 1..n}
    BY <1>2, <1>4 DEF ToSet
  <2>2. ToSet(rest) = {q[n + i] : i \in 1..(Len(q) - n)}
    BY <1>3, <1>4 DEF ToSet
  <2>3. \A i \in (n + 1)..Len(q) : i - n \in 1..(Len(q) - n) /\ n + (i - n) = i
    BY <1>1
  <2>4. \A i \in 1..(Len(q) - n) : n + i \in (n + 1)..Len(q)
    BY <1>1
  <2>5. {q[n + i] : i \in 1..(Len(q) - n)} = {q[i] : i \in (n + 1)..Len(q)}
    BY <2>3, <2>4
  <2> QED BY <2>1, <2>2, <2>5
<1>8. ToSet(head) \cup ToSet(rest) = ToSet(q) /\ ToSet(head) \subseteq Txs
  <2>1. \A i \in 1..Len(q) : i \in 1..n \/ i \in (n + 1)..Len(q)
    BY <1>1
  <2>2. 1..n \subseteq 1..Len(q) /\ (n + 1)..Len(q) \subseteq 1..Len(q)
    BY <1>1
  <2>3. ToSet(q) = {q[i] : i \in 1..Len(q)}
    BY <1>1 DEF ToSet
  <2> QED BY <1>1, <1>7, <2>1, <2>2, <2>3
<1>9. ToSet(head) \cap ToSet(rest) = {}
  <2>1. ASSUME NEW i \in 1..n, NEW j \in (n + 1)..Len(q), q[i] = q[j] PROVE FALSE
    <3>1. i \in DOMAIN q /\ j \in DOMAIN q /\ i # j
      BY <1>1
    <3> QED BY <2>1, <3>1 DEF IsInjective
  <2> QED BY <1>7, <2>1
<1>10. CriticalAhead(q) => CriticalAhead(rest)
  <2>1. ASSUME CriticalAhead(q), NEW i \in DOMAIN rest, NEW j \in DOMAIN rest, i < j, Priority[rest[j]] = 0
        PROVE Priority[rest[i]] = 0
    <3>1. rest[i] = q[n + i] /\ rest[j] = q[n + j] /\ n + i \in DOMAIN q /\ n + j \in DOMAIN q
      BY <1>1, <1>3, <1>4, <1>5
    <3>2. n + i < n + j
      BY <1>1, <1>4, <2>1
    <3> QED BY <2>1, <3>1, <3>2 DEF CriticalAhead
  <2> QED BY <2>1 DEF CriticalAhead
<1>11. CriticalAhead(q) => \A t \in ToSet(head), u \in ToSet(rest) : Priority[u] = 0 => Priority[t] = 0
  <2>1. ASSUME CriticalAhead(q), NEW i \in 1..n, NEW j \in (n + 1)..Len(q), Priority[q[j]] = 0
        PROVE Priority[q[i]] = 0
    <3>1. i \in DOMAIN q /\ j \in DOMAIN q /\ i < j
      BY <1>1
    <3> QED BY <2>1, <3>1 DEF CriticalAhead
  <2> QED BY <1>7, <2>1
<1> QED BY <1>3, <1>6, <1>8, <1>9, <1>10, <1>11 DEF head, rest

-----------------------------------------------------------------------------
(* The steps *)

\* A transaction joins the queue and is sorted in.
LEMMA JoinQueue ==
    ASSUME TypeOK, NEW t \in Txs, t \notin ToSet(queue), NEW tried \in [Txs -> Nat]
    PROVE LET q == Sorted(Append(queue, t), tried)
          IN  q \in Seq(Txs) /\ IsInjective(q) /\ ToSet(q) = ToSet(queue) \cup {t}
<1> DEFINE a == Append(queue, t)
<1>1. queue \in Seq(Txs) /\ Len(queue) \in Nat /\ DOMAIN queue = 1..Len(queue) /\ IsInjective(queue)
  BY LenProperties DEF TypeOK
<1>2. /\ a \in Seq(Txs) /\ Len(a) = Len(queue) + 1
      /\ \A i \in 1..Len(queue) : a[i] = queue[i]
      /\ a[Len(queue) + 1] = t
  BY <1>1, AppendProperties
<1>3. DOMAIN a = DOMAIN queue \cup {Len(queue) + 1}
  <2>1. DOMAIN a = 1..(Len(queue) + 1)
    BY <1>2
  <2>2. Len(queue) \in Nat
    BY <1>1
  <2>3. 1..(Len(queue) + 1) = 1..Len(queue) \cup {Len(queue) + 1}
    BY <2>2
  <2> QED BY <1>1, <2>1, <2>3
<1> HIDE DEF a
<1>4. ToSet(a) = ToSet(queue) \cup {t}
  BY <1>1, <1>2, <1>3 DEF ToSet
<1>5. IsInjective(a)
  <2>1. ASSUME NEW i \in DOMAIN queue PROVE queue[i] # t
    BY <2>1 DEF ToSet
  <2> QED BY <1>1, <1>2, <1>3, <2>1 DEF IsInjective
<1>6. age \in [Txs -> 0..2]
  BY DEF TypeOK
<1> QED BY <1>2, <1>4, <1>5, <1>6, SortedQueue DEF a

\* The bounds survive a queue and slots that only lose transactions.
LEMMA BoundsShrink ==
    ASSUME Bounds, ToSet(queue') \subseteq ToSet(queue), processing' \subseteq processing,
           processing \ processing' \subseteq Txs \ ToSet(queue'), IsFiniteSet(ToSet(queue))
    PROVE Bounds'
<1>1. IsFiniteSet(processing') /\ Cardinality(processing') <= Cardinality(processing)
  BY FS_Subset DEF Bounds
<1>2. Cardinality(processing') \in Nat /\ Cardinality(processing) \in Nat
  BY <1>1, FS_CardinalityType DEF Bounds
<1>3. ToSet(queue') \ processing' \subseteq ToSet(queue) \ processing
  OBVIOUS
<1>4. IsFiniteSet(ToSet(queue) \ processing)
  BY FS_Subset
<1>5. /\ IsFiniteSet(ToSet(queue') \ processing')
      /\ Cardinality(ToSet(queue') \ processing') <= Cardinality(ToSet(queue) \ processing)
  BY <1>3, <1>4, FS_Subset
<1>6. Cardinality(ToSet(queue') \ processing') \in Nat /\ Cardinality(ToSet(queue) \ processing) \in Nat
  BY <1>4, <1>5, FS_CardinalityType
<1> QED BY <1>1, <1>2, <1>5, <1>6, PoolAssumption DEF Bounds

\* A queue without repetition has as many transactions as places.
LEMMA QueueSize == ASSUME NEW q \in Seq(Txs), IsInjective(q)
                   PROVE IsFiniteSet(ToSet(q)) /\ Cardinality(ToSet(q)) = Len(q)
<1>1. Len(q) \in Nat /\ DOMAIN q = 1..Len(q) /\ q \in [1..Len(q) -> Txs]
  BY LenProperties
<1>2. IsFiniteSet(1..Len(q)) /\ Cardinality(1..Len(q)) = Len(q)
  <2>1. Len(q) \in Nat
    BY <1>1
  <2> QED BY <2>1, FirstNumbers
<1>3. q \in Surjection(1..Len(q), ToSet(q))
  BY <1>1 DEF Surjection, ToSet
<1>4. q \in Injection(1..Len(q), ToSet(q))
  BY <1>1, <1>3 DEF Injection, Surjection, IsInjective
<1> QED BY <1>2, <1>3, <1>4, FS_Surjection

\* An accepted transaction waits; a full queue accepts none.
LEMMA SubmitInv == ASSUME IInv, NEW t \in Txs, Submit(t) PROVE IInv'
<1> USE DEF IInv
<1>1. /\ status[t] = "None" /\ Len(queue) < MaxQueueSize /\ status' = [status EXCEPT ![t] = "Queued"]
      /\ queue' = Sorted(Append(queue, t), attempts)
      /\ UNCHANGED <<isRunning, processing, completed, attempts, age, at, passes>>
  BY DEF Submit
<1>2. t \notin ToSet(queue)
  BY <1>1 DEF Placed
<1>3. queue' \in Seq(Txs) /\ IsInjective(queue') /\ ToSet(queue') = ToSet(queue) \cup {t}
  <2>1. attempts \in [Txs -> Nat]
    BY DEF TypeOK
  <2> QED BY <1>1, <1>2, <2>1, JoinQueue
<1>4. TypeOK'
  BY <1>1, <1>3 DEF TypeOK, Statuses
<1>5. Placed'
  <2>1. ASSUME NEW u \in Txs, u # t PROVE status'[u] = status[u] /\ (u \in ToSet(queue') <=> u \in ToSet(queue))
    BY <1>1, <1>3, <2>1 DEF TypeOK
  <2>2. status'[t] = "Queued" /\ t \in ToSet(queue')
    BY <1>1, <1>3 DEF TypeOK
  <2> QED BY <1>1, <2>1, <2>2 DEF Placed, Terminal
<1>6. Bounds'
  <2>1. IsFiniteSet(ToSet(queue)) /\ Cardinality(ToSet(queue)) = Len(queue)
    BY QueueSize DEF TypeOK
  <2>2. IsFiniteSet(ToSet(queue) \cup {t}) /\ Cardinality(ToSet(queue) \cup {t}) = Len(queue) + 1
    BY <1>2, <2>1, FS_AddElement
  <2>3. Cardinality(ToSet(queue') \ processing) <= Cardinality(ToSet(queue) \cup {t})
        /\ IsFiniteSet(ToSet(queue') \ processing)
    BY <1>3, <2>2, FS_Subset
  <2>4. Cardinality(ToSet(queue') \ processing) \in Nat /\ Len(queue) \in Nat
    BY <2>3, FS_CardinalityType, LenProperties DEF TypeOK
  <2> QED BY <1>1, <2>2, <2>3, <2>4, PoolAssumption DEF Bounds
<1> QED BY <1>4, <1>5, <1>6

\* A cancelled transaction leaves the queue.
LEMMA CancelInv == ASSUME IInv, NEW t \in Txs, Cancel(t) PROVE IInv'
<1> USE DEF IInv
<1>1. /\ t \in ToSet(queue) /\ queue' = Without(queue, {t})
      /\ status' = [status EXCEPT ![t] = "Cancelled"] /\ completed' = completed \cup {t}
      /\ UNCHANGED <<isRunning, processing, attempts, age, at, passes>>
  BY DEF Cancel
<1>2. queue' \in Seq(Txs) /\ IsInjective(queue') /\ ToSet(queue') = ToSet(queue) \ {t}
  BY <1>1, FilteredQueue DEF TypeOK
<1>3. status[t] = "Queued" /\ ~(at[t] > 0)
  BY <1>1 DEF Placed
<1>4. TypeOK'
  BY <1>1, <1>2 DEF TypeOK, Statuses, Terminal
<1>5. Placed'
  <2>1. ASSUME NEW u \in Txs, u # t
        PROVE status'[u] = status[u] /\ (u \in ToSet(queue') <=> u \in ToSet(queue))
              /\ (u \in completed' <=> u \in completed)
    BY <1>1, <1>2, <2>1 DEF TypeOK
  <2>2. status'[t] = "Cancelled" /\ t \notin ToSet(queue')
    BY <1>1, <1>2 DEF TypeOK
  <2> QED BY <1>1, <1>3, <2>1, <2>2 DEF Placed, Terminal
<1>6. Bounds'
  BY <1>1, <1>2, QueueSize, BoundsShrink DEF TypeOK
<1> QED BY <1>4, <1>5, <1>6

\* The poll timer: the expired are dropped, the head of the rest is started.
LEMMA ProcessQueueInv == ASSUME IInv, ProcessQueue PROVE IInv'
<1> USE DEF IInv
<1> DEFINE waiting == Without(queue, Expired)
           n       == Slots(waiting)
           started == ToSet(SubSeq(waiting, 1, n))
<1>1. /\ queue' = SubSeq(waiting, n + 1, Len(waiting))
      /\ processing' = processing \cup started /\ completed' = completed \cup Expired
      /\ status' = [t \in Txs |-> IF t \in Expired THEN "Expired"
                                  ELSE IF t \in started THEN "Submitted" ELSE status[t]]
      /\ at' = [t \in Txs |-> IF t \in started THEN 1 ELSE at[t]]
      /\ passes' = [t \in Txs |-> IF t \in started THEN passes[t] + 1 ELSE passes[t]]
      /\ UNCHANGED <<isRunning, attempts, age>>
  BY DEF ProcessQueue
<1>2. /\ waiting \in Seq(Txs) /\ IsInjective(waiting) /\ ToSet(waiting) = ToSet(queue) \ Expired
  BY FilteredQueue DEF TypeOK
<1>3. /\ n \in 0..Len(waiting) /\ IsFiniteSet(processing \cup started)
      /\ Cardinality(processing \cup started) <= MaxConcurrent
  <2>1. IsFiniteSet(processing) /\ Cardinality(processing) <= MaxConcurrent
    BY DEF Bounds
  <2> HIDE DEF waiting
  <2> QED BY <1>2, <2>1, SlotsFit
<1>4. /\ queue' \in Seq(Txs) /\ IsInjective(queue') /\ started \subseteq Txs
      /\ started \cup ToSet(queue') = ToSet(queue) \ Expired
      /\ started \cap ToSet(queue') = {}
  <2> HIDE DEF waiting, n
  <2> QED BY <1>1, <1>2, <1>3, SplitQueue DEF started
<1> HIDE DEF waiting, n, started
<1>5. Expired \subseteq ToSet(queue) /\ ToSet(queue) \subseteq Txs
  <2>1. queue \in Seq(Txs)
    BY DEF TypeOK
  <2>2. ToSet(queue) \subseteq Txs
    BY <2>1, LenProperties, ElementOfSeq DEF ToSet
  <2> QED BY <2>2 DEF Expired
<1>6. TypeOK'
  <2>1. 1 \in 0..NProviders
    BY PoolAssumption
  <2>2. at' \in [Txs -> 0..NProviders]
    BY <1>1, <2>1 DEF TypeOK
  <2>3. passes' \in [Txs -> Nat]
    BY <1>1 DEF TypeOK
  <2>4. status' \in [Txs -> Statuses]
    BY <1>1 DEF TypeOK, Statuses, Terminal
  <2> QED BY <1>1, <1>4, <1>5, <2>2, <2>3, <2>4 DEF TypeOK
<1>7. Placed'
  <2>1. ASSUME NEW t \in started
        PROVE /\ status'[t] = "Submitted" /\ at'[t] = 1 /\ passes'[t] = passes[t] + 1
              /\ t \in processing' /\ t \notin completed' /\ t \notin ToSet(queue')
              /\ status[t] = "Queued" /\ at[t] = 0
    <3>1. t \in ToSet(queue) /\ t \in Txs /\ t \notin Expired /\ t \notin ToSet(queue')
      BY <1>4
    <3>2. status[t] = "Queued" /\ ~(at[t] > 0) /\ t \notin completed
      BY <3>1 DEF Placed, Terminal
    <3>3. at[t] = 0
      BY <3>1, <3>2, PoolAssumption DEF TypeOK
    <3> QED BY <1>1, <3>1, <3>2, <3>3
  <2>2. ASSUME NEW t \in Expired
        PROVE /\ status'[t] = "Expired" /\ at'[t] = at[t] /\ passes'[t] = passes[t] /\ ~(at[t] > 0)
              /\ t \notin ToSet(queue') /\ t \in Txs /\ status[t] = "Queued" /\ (t \in completed')
    <3>1. t \in ToSet(queue) /\ t \in Txs /\ t \notin started /\ t \notin ToSet(queue')
      BY <1>4, <1>5
    <3>2. status[t] = "Queued" /\ ~(at[t] > 0)
      BY <3>1 DEF Placed
    <3> QED BY <1>1, <3>1, <3>2
  <2>3. ASSUME NEW t \in Txs, t \notin started, t \notin Expired
        PROVE /\ status'[t] = status[t] /\ at'[t] = at[t] /\ passes'[t] = passes[t]
              /\ t \in ToSet(queue') <=> t \in ToSet(queue)
              /\ t \in completed' <=> t \in completed
              /\ t \in processing' <=> t \in processing
    BY <1>1, <1>4, <2>3
  <2>4. ASSUME NEW t \in started
        PROVE /\ passes'[t] = attempts'[t] + (IF at'[t] > 0 \/ status'[t] = "Confirmed" THEN 1 ELSE 0)
              /\ attempts'[t] < MaxAttempts
    <3>1. t \in Txs /\ passes[t] = attempts[t] + 0 /\ attempts[t] < MaxAttempts /\ attempts[t] \in Nat
      BY <1>4, <2>1 DEF Placed, TypeOK
    <3> QED BY <1>1, <2>1, <3>1
  <2>5. ASSUME NEW t \in Txs
        PROVE /\ passes'[t] = attempts'[t] + (IF at'[t] > 0 \/ status'[t] = "Confirmed" THEN 1 ELSE 0)
              /\ status'[t] = "Queued" <=> t \in ToSet(queue')
              /\ status'[t] = "Submitted" <=> at'[t] > 0
              /\ at'[t] > 0 => t \in processing'
              /\ t \in completed' => status'[t] \in Terminal
              /\ status'[t] \in {"None", "Queued", "Submitted", "Confirmed"} => attempts'[t] < MaxAttempts
    <3>1. CASE t \in started
      BY <2>1, <2>4, <3>1
    <3>2. CASE t \in Expired
      <4>1. passes[t] = attempts[t] + (IF at[t] > 0 \/ status[t] = "Confirmed" THEN 1 ELSE 0)
        BY DEF Placed
      <4> QED BY <1>1, <2>2, <3>2, <4>1 DEF Terminal
    <3>3. CASE t \notin started /\ t \notin Expired
      BY <1>1, <2>3, <3>3 DEF Placed
    <3> QED BY <3>1, <3>2, <3>3
  <2> QED BY <2>5 DEF Placed
<1>8. Bounds'
  <2>1. ToSet(queue') \ processing' \subseteq ToSet(queue) \ processing
    BY <1>1, <1>4
  <2>2. IsFiniteSet(ToSet(queue) \ processing) /\ Cardinality(ToSet(queue) \ processing) <= MaxQueueSize
    BY QueueSize, FS_Subset DEF TypeOK, Bounds
  <2>3. /\ Cardinality(ToSet(queue') \ processing') <= Cardinality(ToSet(queue) \ processing)
        /\ IsFiniteSet(ToSet(queue') \ processing')
    BY <2>1, <2>2, FS_Subset
  <2>4. Cardinality(ToSet(queue') \ processing') \in Nat /\ Cardinality(ToSet(queue) \ processing) \in Nat
    BY <2>2, <2>3, FS_CardinalityType
  <2> QED BY <1>1, <1>3, <2>2, <2>3, <2>4, PoolAssumption DEF Bounds
<1> QED BY <1>6, <1>7, <1>8

\* A pass that ends the transaction: acknowledged, or out of attempts.
LEMMA CompletesInv == ASSUME IInv, NEW t \in Txs, Acknowledged(t) \/ GiveUp(t) PROVE IInv'
<1> USE DEF IInv
<1>1. /\ at[t] > 0 /\ at' = [at EXCEPT ![t] = 0] /\ processing' = processing \ {t}
      /\ completed' = completed \cup {t} /\ UNCHANGED <<isRunning, age, passes, queue>>
  <2>1. at[t] = NProviders => at[t] > 0
    BY PoolAssumption
  <2> QED BY <2>1 DEF Acknowledged, GiveUp, PassEnds, Completes
<1>2. status[t] = "Submitted" /\ t \notin ToSet(queue) /\ attempts[t] < MaxAttempts
      /\ passes[t] = attempts[t] + 1
  BY <1>1 DEF Placed
<1>3. \/ status' = [status EXCEPT ![t] = "Confirmed"] /\ attempts' = attempts
      \/ status' = [status EXCEPT ![t] = "Failed"] /\ attempts' = [attempts EXCEPT ![t] = attempts[t] + 1]
  BY DEF Acknowledged, GiveUp, PassEnds
<1>4. attempts[t] \in Nat /\ attempts[t] + 1 \in 0..MaxAttempts /\ 0 \in 0..NProviders
  BY <1>2, PoolAssumption DEF TypeOK
<1>5. TypeOK'
  BY <1>1, <1>3, <1>4 DEF TypeOK, Statuses, Terminal
<1>6. Placed'
  <2>1. ASSUME NEW u \in Txs, u # t
        PROVE /\ status'[u] = status[u] /\ at'[u] = at[u] /\ attempts'[u] = attempts[u]
              /\ u \in completed' <=> u \in completed
              /\ u \in processing' <=> u \in processing
    BY <1>1, <1>3, <2>1 DEF TypeOK
  <2>2. at'[t] = 0 /\ t \in completed' /\ t \notin ToSet(queue') /\ passes'[t] = passes[t]
    BY <1>1, <1>2 DEF TypeOK
  <2>3. \/ status'[t] = "Confirmed" /\ attempts'[t] = attempts[t]
        \/ status'[t] = "Failed" /\ attempts'[t] = attempts[t] + 1
    BY <1>3 DEF TypeOK
  <2>4. /\ passes'[t] = attempts'[t] + (IF at'[t] > 0 \/ status'[t] = "Confirmed" THEN 1 ELSE 0)
        /\ status'[t] = "Queued" <=> t \in ToSet(queue')
        /\ status'[t] = "Submitted" <=> at'[t] > 0
        /\ at'[t] > 0 => t \in processing'
        /\ t \in completed' => status'[t] \in Terminal
        /\ status'[t] \in {"None", "Queued", "Submitted", "Confirmed"} => attempts'[t] < MaxAttempts
    BY <1>2, <1>4, <2>2, <2>3 DEF Terminal
  <2> QED BY <1>1, <2>1, <2>4 DEF Placed
<1>7. Bounds'
  <2>1. IsFiniteSet(ToSet(queue))
    BY QueueSize DEF TypeOK
  <2> QED BY <1>1, <1>2, <2>1, BoundsShrink
<1> QED BY <1>5, <1>6, <1>7

\* A retry joins the queue again, and keeps its slot.
LEMMA RequeueInv == ASSUME IInv, NEW t \in Txs, Requeue(t) PROVE IInv'
<1> USE DEF IInv
<1>1. /\ at[t] > 0 /\ ~(attempts[t] + 1 >= MaxAttempts) /\ at' = [at EXCEPT ![t] = 0]
      /\ attempts' = [attempts EXCEPT ![t] = attempts[t] + 1]
      /\ status' = [status EXCEPT ![t] = "Queued"]
      /\ queue' = Sorted(Append(queue, t), attempts')
      /\ UNCHANGED <<isRunning, age, passes, processing, completed>>
  <2>1. at[t] = NProviders => at[t] > 0
    BY PoolAssumption
  <2> QED BY <2>1 DEF Requeue, PassEnds, LastAttempt
<1>2. status[t] = "Submitted" /\ t \notin ToSet(queue) /\ attempts[t] < MaxAttempts
      /\ passes[t] = attempts[t] + 1 /\ t \in processing /\ t \notin completed
  BY <1>1 DEF Placed, Terminal
<1>3. attempts[t] \in Nat /\ attempts[t] + 1 \in 0..MaxAttempts /\ 0 \in 0..NProviders
      /\ attempts[t] + 1 < MaxAttempts
  BY <1>1, <1>2, PoolAssumption DEF TypeOK
<1>4. queue' \in Seq(Txs) /\ IsInjective(queue') /\ ToSet(queue') = ToSet(queue) \cup {t}
  <2>1. attempts' \in [Txs -> Nat]
    BY <1>1, <1>3 DEF TypeOK
  <2> QED BY <1>1, <1>2, <2>1, JoinQueue
<1>5. TypeOK'
  BY <1>1, <1>3, <1>4 DEF TypeOK, Statuses
<1>6. Placed'
  <2>1. ASSUME NEW u \in Txs, u # t
        PROVE /\ status'[u] = status[u] /\ at'[u] = at[u] /\ attempts'[u] = attempts[u]
              /\ u \in ToSet(queue') <=> u \in ToSet(queue)
    BY <1>1, <1>4, <2>1 DEF TypeOK
  <2>2. /\ at'[t] = 0 /\ t \in ToSet(queue') /\ status'[t] = "Queued"
        /\ attempts'[t] = attempts[t] + 1 /\ passes'[t] = passes[t]
    BY <1>1, <1>4 DEF TypeOK
  <2>4. /\ passes'[t] = attempts'[t] + (IF at'[t] > 0 \/ status'[t] = "Confirmed" THEN 1 ELSE 0)
        /\ status'[t] = "Queued" <=> t \in ToSet(queue')
        /\ status'[t] = "Submitted" <=> at'[t] > 0
        /\ at'[t] > 0 => t \in processing'
        /\ t \in completed' => status'[t] \in Terminal
        /\ status'[t] \in {"None", "Queued", "Submitted", "Confirmed"} => attempts'[t] < MaxAttempts
    BY <1>1, <1>2, <1>3, <2>2 DEF Terminal
  <2>5. ASSUME NEW u \in Txs, u # t
        PROVE /\ passes'[u] = attempts'[u] + (IF at'[u] > 0 \/ status'[u] = "Confirmed" THEN 1 ELSE 0)
              /\ status'[u] = "Queued" <=> u \in ToSet(queue')
              /\ status'[u] = "Submitted" <=> at'[u] > 0
              /\ at'[u] > 0 => u \in processing'
              /\ u \in completed' => status'[u] \in Terminal
              /\ status'[u] \in {"None", "Queued", "Submitted", "Confirmed"} => attempts'[u] < MaxAttempts
    BY <1>1, <2>1, <2>5 DEF Placed
  <2> QED BY <2>4, <2>5 DEF Placed
<1>7. Bounds'
  <2>1. ToSet(queue') \ processing' = ToSet(queue) \ processing
    BY <1>1, <1>2, <1>4
  <2> QED BY <1>1, <2>1 DEF Bounds
<1> QED BY <1>5, <1>6, <1>7

\* The rest moves no transaction.
LEMMA OtherInv ==
    ASSUME IInv,
           \/ \E t \in Txs : NextProvider(t) \/ Ages(t)
           \/ StartStop \/ ClearCompleted \/ UNCHANGED vars
    PROVE IInv'
<1> USE DEF IInv
<1>1. UNCHANGED <<queue, processing, status, attempts, passes>> /\ completed' \subseteq completed
  BY DEF NextProvider, Ages, StartStop, ClearCompleted, vars
<1>2. /\ at' \in [Txs -> 0..NProviders] /\ \A t \in Txs : at'[t] > 0 <=> at[t] > 0
  <2>1. CASE \E t \in Txs : NextProvider(t)
    <3>1. PICK t \in Txs : NextProvider(t)
      BY <2>1
    <3>2. at[t] + 1 \in 0..NProviders /\ at[t] + 1 > 0 /\ at[t] > 0
      BY <3>1, PoolAssumption DEF NextProvider, TypeOK
    <3> QED BY <3>1, <3>2 DEF NextProvider, TypeOK
  <2>2. CASE at' = at
    BY <2>2 DEF TypeOK
  <2> QED BY <2>1, <2>2 DEF Ages, StartStop, ClearCompleted, vars
<1>3. age' \in [Txs -> 0..2] /\ isRunning' \in BOOLEAN
  <2>1. CASE \E t \in Txs : Ages(t)
    <3>1. PICK t \in Txs : Ages(t)
      BY <2>1
    <3>2. age[t] + 1 \in 0..2
      <4>1. age[t] \in 0..2 /\ age[t] < 2
        BY <3>1 DEF Ages, TypeOK
      <4> QED BY <4>1
    <3> QED BY <3>1, <3>2 DEF Ages, TypeOK
  <2> QED BY <2>1 DEF NextProvider, StartStop, ClearCompleted, vars, TypeOK
<1>4. TypeOK'
  BY <1>1, <1>2, <1>3 DEF TypeOK
<1>5. Placed'
  BY <1>1, <1>2 DEF Placed
<1>6. Bounds'
  BY <1>1 DEF Bounds
<1> QED BY <1>4, <1>5, <1>6

\* Every step keeps the inductive invariant.
LEMMA StepInv == ASSUME IInv, [Next]_vars PROVE IInv'
BY SubmitInv, CancelInv, ProcessQueueInv, CompletesInv, RequeueInv, OtherInv DEF Next

\* A pool starts empty.
LEMMA InitInv == Init => IInv
<1> SUFFICES ASSUME Init PROVE IInv
  OBVIOUS
<1>1. ToSet(queue) = {} /\ IsInjective(queue) /\ queue \in Seq(Txs)
  BY DEF Init, ToSet, IsInjective
<1>2. 0 \in 0..MaxAttempts /\ 0 \in 0..NProviders /\ 0 < MaxAttempts
  BY PoolAssumption
<1>3. TypeOK
  BY <1>1, <1>2 DEF Init, TypeOK, Statuses
<1>4. Placed
  BY <1>1, <1>2 DEF Init, Placed, Terminal
<1>5. Bounds
  <2>1. ToSet(queue) \ processing = {}
    BY <1>1
  <2>2. processing = {}
    BY DEF Init
  <2>3. IsFiniteSet(processing) /\ Cardinality(processing) = 0
    BY <2>2, FS_EmptySet
  <2>4. Cardinality(ToSet(queue) \ processing) = 0
    BY <2>1, FS_EmptySet
  <2> QED BY <2>3, <2>4, PoolAssumption DEF Bounds
<1> QED BY <1>3, <1>4, <1>5 DEF IInv

\* The bounds the run checks follow: a pass holds a slot, and a queued transaction
\* came from a caller or still holds its slot.
LEMMA IInvGivesNothingLost == ASSUME IInv PROVE NothingLost
<1> USE DEF IInv
<1>1. OnePassAtATime
  <2>1. ASSUME NEW t \in Txs
        PROVE /\ passes[t] = attempts[t] + (IF at[t] > 0 \/ status[t] = "Confirmed" THEN 1 ELSE 0)
              /\ at[t] > 0 => t \notin ToSet(queue)
              /\ passes[t] <= MaxAttempts
    <3>1. attempts[t] \in Nat /\ attempts[t] <= MaxAttempts /\ MaxAttempts \in Nat
      BY PoolAssumption DEF TypeOK
    <3>2. at[t] > 0 \/ status[t] = "Confirmed" => attempts[t] < MaxAttempts
      BY DEF Placed
    <3>3. passes[t] = attempts[t] + (IF at[t] > 0 \/ status[t] = "Confirmed" THEN 1 ELSE 0)
          /\ (at[t] > 0 => t \notin ToSet(queue))
      BY DEF Placed
    <3> QED BY <3>1, <3>2, <3>3
  <2> QED BY <2>1 DEF OnePassAtATime
<1>2. PoolBounded
  <2> DEFINE passing == {t \in Txs : at[t] > 0}
             fresh == ToSet(queue) \ processing
  <2>1. IsFiniteSet(passing) /\ Cardinality(passing) <= Cardinality(processing)
    <3>1. passing \subseteq processing
      BY DEF Placed
    <3> QED BY <3>1, FS_Subset DEF Bounds
  <2>2. IsFiniteSet(ToSet(queue)) /\ Cardinality(ToSet(queue)) = Len(queue)
    BY QueueSize DEF TypeOK
  <2>3. IsFiniteSet(fresh)
    BY <2>2, FS_Subset
  <2>4. IsFiniteSet(fresh \cup processing)
        /\ Cardinality(fresh \cup processing) = Cardinality(fresh) + Cardinality(processing) - Cardinality(fresh \cap processing)
    BY <2>3, FS_Union DEF Bounds
  <2>5. fresh \cap processing = {} /\ ToSet(queue) \subseteq fresh \cup processing
    OBVIOUS
  <2>6. Cardinality(ToSet(queue)) <= Cardinality(fresh \cup processing)
    BY <2>4, <2>5, FS_Subset
  <2>7. Cardinality(fresh) \in Nat /\ Cardinality(processing) \in Nat /\ Cardinality(passing) \in Nat
    BY <2>1, <2>3, FS_CardinalityType DEF Bounds
  <2>8. Len(queue) <= Cardinality(fresh) + Cardinality(processing)
    <3>1. Cardinality(fresh \cap processing) = 0
      BY <2>5, FS_EmptySet
    <3> HIDE DEF fresh
    <3> QED BY <2>2, <2>4, <2>6, <2>7, <3>1
  <2>9. Len(queue) \in Nat /\ Cardinality(fresh) <= MaxQueueSize /\ Cardinality(processing) <= MaxConcurrent
    BY LenProperties DEF TypeOK, Bounds
  <2> HIDE DEF fresh, passing
  <2>10. Cardinality(passing) <= MaxConcurrent /\ Len(queue) <= MaxQueueSize + MaxConcurrent
    BY <2>1, <2>7, <2>8, <2>9, PoolAssumption
  <2> QED BY <2>10 DEF PoolBounded, passing
<1> QED BY <1>1, <1>2 DEF NothingLost, Placed

\* The inductive invariant holds as long as the pool lives.
THEOREM PoolInvariant == Spec => []IInv
<1>1. IInv /\ [Next]_vars => IInv'
  BY StepInv
<1> QED BY InitInv, <1>1, PTL DEF Spec

\* No accepted transaction is lost, started twice at once or tried too often, and the
\* pool stays within its bounds (submit, processQueue, processTransaction, cancel).
THEOREM PoolLosesNothing == Spec => []NothingLost
BY PoolInvariant, IInvGivesNothingLost, PTL

\* What has ended stays as it ended and is not sent again: a provider's late answer
\* takes back no cancellation or expiry.
THEOREM PoolEndsForGood == Spec => EndsForGood
<1> DEFINE Stays == \A t \in Txs : status[t] \in Terminal => status'[t] = status[t] /\ at'[t] = 0
<1>1. ASSUME IInv, [Next]_vars PROVE [Stays]_vars
  <2> SUFFICES ASSUME NEW t \in Txs, status[t] \in Terminal, Next PROVE status'[t] = status[t] /\ at'[t] = 0
    BY <1>1
  <2>1. /\ at[t] = 0 /\ t \notin ToSet(queue) /\ status[t] \notin {"None", "Queued", "Submitted"}
    <3>1. status[t] \notin {"None", "Queued", "Submitted"}
      BY DEF Terminal
    <3>2. ~(at[t] > 0) /\ t \notin ToSet(queue) /\ at[t] \in Nat
      BY <1>1, <3>1 DEF IInv, Placed, TypeOK
    <3> QED BY <3>1, <3>2
  <2>2. NProviders > 0
    BY PoolAssumption
  <2>3. ASSUME NEW u \in Txs, Submit(u) \/ Cancel(u) \/ Ages(u) PROVE status'[t] = status[t] /\ at'[t] = 0
    BY <1>1, <2>1, <2>3 DEF IInv, TypeOK, Submit, Cancel, Ages
  <2>4. ASSUME NEW u \in Txs, Acknowledged(u) \/ NextProvider(u) \/ GiveUp(u) \/ Requeue(u)
        PROVE status'[t] = status[t] /\ at'[t] = 0
    <3>1. at[u] > 0
      BY <2>2, <2>4 DEF Acknowledged, NextProvider, GiveUp, Requeue
    <3>2. u # t
      BY <2>1, <3>1
    <3> QED BY <1>1, <2>1, <2>4, <3>2 DEF IInv, TypeOK, Acknowledged, NextProvider, GiveUp, Requeue, PassEnds
  <2>5. CASE StartStop \/ ClearCompleted
    BY <2>1, <2>5 DEF StartStop, ClearCompleted
  <2>6. CASE ProcessQueue
    <3> DEFINE waiting == Without(queue, Expired)
               started == ToSet(SubSeq(waiting, 1, Slots(waiting)))
    <3>1. /\ status' = [u \in Txs |-> IF u \in Expired THEN "Expired"
                                      ELSE IF u \in started THEN "Submitted" ELSE status[u]]
          /\ at' = [u \in Txs |-> IF u \in started THEN 1 ELSE at[u]]
      BY <2>6 DEF ProcessQueue
    <3>2. waiting \in Seq(Txs) /\ IsInjective(waiting) /\ ToSet(waiting) = ToSet(queue) \ Expired
      BY <1>1, FilteredQueue DEF IInv, TypeOK
    <3>3. started \subseteq ToSet(waiting)
      <4>1. IsFiniteSet(processing) /\ Cardinality(processing) <= MaxConcurrent
        BY <1>1 DEF IInv, Bounds
      <4> HIDE DEF waiting
      <4>2. Slots(waiting) \in 0..Len(waiting)
        BY <3>2, <4>1, SlotsFit
      <4> QED BY <3>2, <4>2, SplitQueue
    <3>4. t \notin started /\ t \notin Expired
      <4> HIDE DEF waiting, started
      <4> QED BY <2>1, <3>2, <3>3 DEF Expired
    <3> HIDE DEF started
    <3> QED BY <2>1, <3>1, <3>4
  <2> QED BY <2>3, <2>4, <2>5, <2>6 DEF Next
<1> QED BY PoolInvariant, <1>1, PTL DEF Spec, EndsForGood

-----------------------------------------------------------------------------
(* Critical transactions *)

\* With at most 50 attempts, nothing that is sorted passes a Critical transaction: its
\* score is at least 1000, that of another at most 750 and 5 for every failed attempt.
LEMMA SortedCriticalAhead ==
    ASSUME NEW q \in Seq(Txs), NEW tried \in [Txs -> Nat], age \in [Txs -> 0..2],
           \A i \in DOMAIN q : tried[q[i]] < 50
    PROVE CriticalAhead(Sorted(q, tried))
<1> DEFINE s == Sorted(q, tried)
<1>1. /\ s \in Seq(Txs) /\ Len(s) = Len(q) /\ ToSet(s) = ToSet(q)
      /\ \A k, l \in 1..Len(q) : k < l => Score(s[k], tried) >= Score(s[l], tried)
  BY SortedQueue
<1> HIDE DEF s
<1>2. DOMAIN s = 1..Len(q) /\ \A i \in DOMAIN s : s[i] \in Txs /\ s[i] \in ToSet(q)
  BY <1>1, LenProperties, ElementOfSeq DEF ToSet
<1>3. \A t \in ToSet(q) : tried[t] < 50
  BY DEF ToSet
<1>4. ASSUME NEW t \in Txs, tried[t] < 50
      PROVE /\ Score(t, tried) \in Nat
            /\ Priority[t] = 0 => Score(t, tried) >= 1000
            /\ Priority[t] # 0 => Score(t, tried) < 1000
  <2>1. Priority[t] \in 0..4 /\ tried[t] \in Nat
    BY PoolAssumption
  <2>2. /\ Base[Priority[t]] \in Nat /\ (Priority[t] = 0 => Base[Priority[t]] = 1000)
        /\ (Priority[t] # 0 => Base[Priority[t]] <= 500)
    BY <2>1 DEF Base
  <2> DEFINE aged == IF Boost /\ age[t] > 0 THEN 200 ELSE 0
             late == IF age[t] = 2 THEN 50 ELSE 0
  <2>3. Score(t, tried) = Base[Priority[t]] + aged + 5 * tried[t] + late
    BY DEF Score
  <2>4. aged \in Nat /\ aged <= 200 /\ late \in Nat /\ late <= 50
    OBVIOUS
  <2>5. 5 * tried[t] \in Nat /\ 5 * tried[t] <= 245
    BY <1>4, <2>1
  <2> DEFINE base == Base[Priority[t]]
             tries == 5 * tried[t]
             score == Score(t, tried)
  <2>6. /\ base \in Nat /\ (Priority[t] = 0 => base = 1000) /\ (Priority[t] # 0 => base <= 500)
        /\ tries \in Nat /\ tries <= 245 /\ score = base + aged + tries + late
    BY <2>2, <2>3, <2>5
  <2> HIDE DEF aged, late, base, tries, score
  <2>7. score \in Nat /\ (base = 1000 => score >= 1000) /\ (base <= 500 => score < 1000)
    BY <2>4, <2>6
  <2> QED BY <2>6, <2>7 DEF score
<1>5. ASSUME NEW k \in DOMAIN s, NEW l \in DOMAIN s, k < l, Priority[s[l]] = 0 PROVE Priority[s[k]] = 0
  <2>1. Score(s[k], tried) >= Score(s[l], tried)
    BY <1>1, <1>2, <1>5
  <2>2. Score(s[l], tried) >= 1000 /\ Score(s[l], tried) \in Nat /\ Score(s[k], tried) \in Nat
        /\ (Priority[s[k]] # 0 => Score(s[k], tried) < 1000)
    BY <1>2, <1>3, <1>4, <1>5
  <2> QED BY <2>1, <2>2
<1> QED BY <1>5 DEF CriticalAhead, s

\* The order holds at every step: the queue is sorted whenever it grows.
LEMMA CriticalStep ==
    ASSUME MaxAttempts <= 50, IInv, CriticalAtHead, [Next]_vars PROVE CriticalAtHead'
<1> USE DEF IInv
<1>1. ASSUME NEW t \in Txs, NEW tried \in [Txs -> Nat], \A u \in ToSet(queue) \cup {t} : tried[u] < 50,
             queue' = Sorted(Append(queue, t), tried)
      PROVE CriticalAtHead'
  <2> DEFINE a == Append(queue, t)
  <2>1. queue \in Seq(Txs) /\ Len(queue) \in Nat /\ DOMAIN queue = 1..Len(queue)
    BY LenProperties DEF TypeOK
  <2>2. /\ a \in Seq(Txs) /\ Len(a) = Len(queue) + 1
        /\ \A i \in 1..Len(queue) : a[i] = queue[i]
        /\ a[Len(queue) + 1] = t
    BY <2>1, AppendProperties
  <2>3. DOMAIN a = 1..(Len(queue) + 1)
    BY <2>2
  <2> HIDE DEF a
  <2>4. \A i \in DOMAIN a : i \in 1..Len(queue) \/ i = Len(queue) + 1
    BY <2>1, <2>3
  <2>5. \A i \in DOMAIN a : tried[a[i]] < 50
    BY <1>1, <2>1, <2>2, <2>4 DEF ToSet
  <2>6. age \in [Txs -> 0..2]
    BY DEF TypeOK
  <2> QED BY <1>1, <2>2, <2>5, <2>6, SortedCriticalAhead DEF a, CriticalAtHead
<1>2. /\ attempts \in [Txs -> Nat] /\ \A u \in ToSet(queue) : u \in Txs /\ attempts[u] < 50
  <2>1. queue \in Seq(Txs)
    BY DEF TypeOK
  <2>2. ToSet(queue) \subseteq Txs
    BY <2>1, LenProperties, ElementOfSeq DEF ToSet
  <2>3. ASSUME NEW u \in ToSet(queue) PROVE attempts[u] < 50
    <3>1. attempts[u] < MaxAttempts /\ attempts[u] \in Nat
      BY <2>2, <2>3 DEF Placed, TypeOK
    <3> QED BY <3>1, PoolAssumption
  <2> QED BY <2>2, <2>3 DEF TypeOK
<1>3. ASSUME NEW t \in Txs, Submit(t) PROVE CriticalAtHead'
  <2>1. attempts[t] < 50
    <3>1. attempts[t] < MaxAttempts /\ attempts[t] \in Nat
      BY <1>3 DEF Submit, Placed, TypeOK
    <3> QED BY <3>1, PoolAssumption
  <2> QED BY <1>1, <1>2, <1>3, <2>1 DEF Submit
<1>4. ASSUME NEW t \in Txs, Requeue(t) PROVE CriticalAtHead'
  <2>1. attempts[t] + 1 < 50 /\ attempts[t] \in Nat
    <3>1. ~(attempts[t] + 1 >= MaxAttempts) /\ attempts[t] \in Nat
      BY <1>2, <1>4 DEF Requeue, LastAttempt
    <3> QED BY <3>1, PoolAssumption
  <2>2. attempts' = [attempts EXCEPT ![t] = attempts[t] + 1] /\ queue' = Sorted(Append(queue, t), attempts')
    BY <1>4 DEF Requeue
  <2>3. attempts' \in [Txs -> Nat] /\ \A u \in ToSet(queue) \cup {t} : attempts'[u] < 50
    BY <1>2, <2>1, <2>2
  <2> QED BY <1>1, <2>2, <2>3
<1>5. ASSUME NEW t \in Txs, Cancel(t) PROVE CriticalAtHead'
  BY <1>5, FilteredQueue DEF Cancel, CriticalAtHead, TypeOK
<1>6. CASE ProcessQueue
  <2> DEFINE waiting == Without(queue, Expired)
  <2>1. waiting \in Seq(Txs) /\ IsInjective(waiting) /\ CriticalAhead(waiting)
    BY FilteredQueue DEF TypeOK, CriticalAtHead
  <2>2. queue' = SubSeq(waiting, Slots(waiting) + 1, Len(waiting))
    BY <1>6 DEF ProcessQueue
  <2>3. IsFiniteSet(processing) /\ Cardinality(processing) <= MaxConcurrent
    BY DEF Bounds
  <2> HIDE DEF waiting
  <2>4. Slots(waiting) \in 0..Len(waiting)
    BY <2>1, <2>3, SlotsFit
  <2> QED BY <2>1, <2>2, <2>4, SplitQueue DEF CriticalAtHead
<1>7. CASE UNCHANGED queue
  BY <1>7 DEF CriticalAtHead, CriticalAhead
<1> QED BY <1>3, <1>4, <1>5, <1>6, <1>7
        DEF Next, Acknowledged, NextProvider, GiveUp, Ages, StartStop, ClearCompleted, Completes, vars

\* "Critical priority - process immediately": while no transaction may be tried more
\* than 50 times, nothing else is started before a Critical transaction that waits.
THEOREM CriticalGoesFirst == ASSUME MaxAttempts <= 50 PROVE Spec => CriticalFirst
<1> DEFINE First == \A t, u \in Txs :
               at[t] = 0 /\ at'[t] > 0 /\ u \in ToSet(queue') /\ Priority[u] = 0 => Priority[t] = 0
<1>1. Init => CriticalAtHead
  BY DEF Init, CriticalAtHead, CriticalAhead
<1>2. IInv /\ CriticalAtHead /\ [Next]_vars => CriticalAtHead'
  BY CriticalStep
<1>3. ASSUME IInv, CriticalAtHead, [Next]_vars PROVE [First]_vars
  <2> SUFFICES ASSUME NEW t \in Txs, NEW u \in Txs, Next,
                      at[t] = 0, at'[t] > 0, u \in ToSet(queue'), Priority[u] = 0
               PROVE Priority[t] = 0
    BY <1>3
  <2>1. ProcessQueue
    <3>1. ASSUME NEW w \in Txs,
                 \/ Submit(w) \/ Cancel(w) \/ Ages(w)
                 \/ Acknowledged(w) \/ NextProvider(w) \/ GiveUp(w) \/ Requeue(w)
          PROVE at'[t] = 0
      <4>1. at \in [Txs -> 0..NProviders]
        BY <1>3 DEF IInv, TypeOK
      <4> QED BY <3>1, <4>1 DEF Submit, Cancel, Ages, Acknowledged, NextProvider, GiveUp, Requeue, PassEnds
    <3>2. StartStop \/ ClearCompleted => at'[t] = 0
      BY DEF StartStop, ClearCompleted
    <3> QED BY <3>1, <3>2 DEF Next
  <2> DEFINE waiting == Without(queue, Expired)
             n == Slots(waiting)
             started == ToSet(SubSeq(waiting, 1, n))
  <2>2. /\ queue' = SubSeq(waiting, n + 1, Len(waiting))
        /\ at' = [w \in Txs |-> IF w \in started THEN 1 ELSE at[w]]
    BY <2>1 DEF ProcessQueue
  <2>3. waiting \in Seq(Txs) /\ IsInjective(waiting) /\ CriticalAhead(waiting)
    BY <1>3, FilteredQueue DEF IInv, TypeOK, CriticalAtHead
  <2>4. IsFiniteSet(processing) /\ Cardinality(processing) <= MaxConcurrent
    BY <1>3 DEF IInv, Bounds
  <2> HIDE DEF waiting
  <2>5. n \in 0..Len(waiting)
    BY <2>3, <2>4, SlotsFit
  <2> HIDE DEF n
  <2>6. \A w \in started, v \in ToSet(queue') : Priority[v] = 0 => Priority[w] = 0
    BY <2>2, <2>3, <2>5, SplitQueue
  <2> HIDE DEF started
  <2>7. t \in started
    BY <2>2
  <2> QED BY <2>6, <2>7
<1> QED BY PoolInvariant, <1>1, <1>2, <1>3, PTL DEF Spec, CriticalFirst
=============================================================================
