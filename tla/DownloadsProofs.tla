-------------------------- MODULE DownloadsProofs ---------------------------
(***************************************************************************)
(* Theorems about the parts of internal/download that compete for the      *)
(* providers: the slots and the rows of the HTTP downloads, the queue of   *)
(* searches, and the copies in the PikPak drive.                           *)
(***************************************************************************)
EXTENDS HttpDownloads, SearchQueue, AccountDrive, PriorityQueueTheorems, FiniteSetTheorems, FunctionTheorems

-----------------------------------------------------------------------------
(***************************************************************************)
(* The slots (HttpSlots): whoever waits for a slot waits because the limit *)
(* is reached, for any downloads, positions and limits.                    *)
(*                                                                         *)
(* The counter of active downloads is the number of those that hold a slot *)
(* (ActiveCountsHolders), and a waiter that is not promoted stays in the   *)
(* queue (GrantedOrWaiting). Promotion takes the waiters of the lowest     *)
(* ranks; the ranks of a finite strict order are the numbers below its     *)
(* cardinality, so as many are taken as there is room for, and if one      *)
(* still waits the limit is reached.                                       *)
(***************************************************************************)

(* Ranks in a finite strict order.                                         *)

StrictOrder(L, R) ==
  /\ IsFiniteSet(L)
  /\ \A x \in L : <<x, x>> \notin R
  /\ \A x, y, z \in L : <<x, y>> \in R /\ <<y, z>> \in R => <<x, z>> \in R
  /\ \A x, y \in L : x = y \/ <<x, y>> \in R \/ <<y, x>> \in R

Below(L, R, x) == {y \in L : <<y, x>> \in R}
Rank(L, R, x) == Cardinality(Below(L, R, x))

LEMMA RankOrder ==
  ASSUME NEW L, NEW R, StrictOrder(L, R)
  PROVE  /\ \A x \in L : Rank(L, R, x) \in 0 .. Cardinality(L) - 1
         /\ \A x, y \in L : <<x, y>> \in R => Rank(L, R, x) < Rank(L, R, y)
<1>1. /\ IsFiniteSet(L) /\ \A x \in L : <<x, x>> \notin R
      /\ \A x, y, z \in L : <<x, y>> \in R /\ <<y, z>> \in R => <<x, z>> \in R
  BY DEF StrictOrder
<1>2. \A x \in L : IsFiniteSet(Below(L, R, x)) /\ Rank(L, R, x) \in Nat
  <2> TAKE x \in L
  <2>1. Below(L, R, x) \in SUBSET L
    BY DEF Below
  <2> QED  BY <1>1, <2>1, FS_Subset, FS_CardinalityType DEF Rank
<1>3. ASSUME NEW S \in SUBSET L, NEW T \in SUBSET S, NEW x \in S, x \notin T
      PROVE  Cardinality(T) < Cardinality(S)
  <2>1. IsFiniteSet(S) /\ S \in SUBSET L
    BY <1>1, FS_Subset
  <2>2. IsFiniteSet(T) /\ Cardinality(T) <= Cardinality(S) /\ (Cardinality(S) = Cardinality(T) => S = T)
    BY <2>1, FS_Subset
  <2>3. Cardinality(S) \in Nat /\ Cardinality(T) \in Nat
    BY <2>1, <2>2, FS_CardinalityType
  <2>4. S # T
    BY <1>3
  <2> QED  BY <2>2, <2>3, <2>4
<1>4. ASSUME NEW x \in L  PROVE Rank(L, R, x) \in 0 .. Cardinality(L) - 1
  <2>1. Below(L, R, x) \in SUBSET L /\ x \notin Below(L, R, x) /\ L \in SUBSET L
    BY <1>1 DEF Below
  <2>2. Rank(L, R, x) < Cardinality(L)
    BY <1>3, <2>1 DEF Rank
  <2> QED  BY <1>1, <1>2, <2>2, FS_CardinalityType
<1>5. ASSUME NEW x \in L, NEW y \in L, <<x, y>> \in R  PROVE Rank(L, R, x) < Rank(L, R, y)
  <2>1. /\ Below(L, R, x) \in SUBSET Below(L, R, y) /\ Below(L, R, y) \in SUBSET L
        /\ x \in Below(L, R, y) /\ x \notin Below(L, R, x)
    BY <1>1, <1>5 DEF Below
  <2> QED  BY <1>3, <2>1 DEF Rank
<1> QED  BY <1>4, <1>5

(* Each rank below the number of elements is that of exactly one element.  *)
LEMMA RankIsBijective ==
  ASSUME NEW L, NEW R, StrictOrder(L, R)
  PROVE  /\ \A x, y \in L : Rank(L, R, x) = Rank(L, R, y) => x = y
         /\ \A n \in 0 .. Cardinality(L) - 1 : \E x \in L : Rank(L, R, x) = n
<1> DEFINE rank == [x \in L |-> Rank(L, R, x)]
           N == 0 .. Cardinality(L) - 1
<1>1. IsFiniteSet(L) /\ Cardinality(L) \in Nat
  BY FS_CardinalityType DEF StrictOrder
<1>2. \A x, y \in L : Rank(L, R, x) = Rank(L, R, y) => x = y
  <2> SUFFICES ASSUME NEW x \in L, NEW y \in L, Rank(L, R, x) = Rank(L, R, y), x # y  PROVE FALSE
    OBVIOUS
  <2>1. <<x, y>> \in R \/ <<y, x>> \in R
    BY DEF StrictOrder
  <2>2. Rank(L, R, x) < Rank(L, R, y) \/ Rank(L, R, y) < Rank(L, R, x)
    BY <2>1, RankOrder
  <2>3. Rank(L, R, x) \in 0 .. Cardinality(L) - 1
    BY RankOrder
  <2> QED  BY <1>1, <2>2, <2>3
<1>3. rank \in [L -> N]
  BY RankOrder
<1>4. rank \in Injection(L, N)
  BY <1>2, <1>3, Fun_IsInj
<1>5. IsFiniteSet(N) /\ Cardinality(N) = Cardinality(L)
  BY <1>1, FS_Interval
<1> HIDE DEF N
<1>6. rank \in Surjection(L, N)
  BY <1>4, <1>5, FS_Injection
<1>7. \A n \in N : \E x \in L : Rank(L, R, x) = n
  BY <1>6 DEF Surjection
<1> QED  BY <1>2, <1>7 DEF N

(* Those of a rank below k are at most k, and all of them or exactly k.    *)
LEMMA LowestRanks ==
  ASSUME NEW L, NEW R, StrictOrder(L, R), NEW k \in Nat
  PROVE  LET T == {x \in L : Rank(L, R, x) < k}
         IN  IsFiniteSet(T) /\ Cardinality(T) <= k /\ (T # L => Cardinality(T) >= k)
<1> DEFINE T == {x \in L : Rank(L, R, x) < k}
           rank == [x \in T |-> Rank(L, R, x)]
<1>1. IsFiniteSet(L) /\ T \in SUBSET L /\ IsFiniteSet(T) /\ Cardinality(T) \in Nat
  <2>1. IsFiniteSet(L) /\ T \in SUBSET L
    BY DEF StrictOrder
  <2> QED  BY <2>1, FS_Subset, FS_CardinalityType
<1>2. Cardinality(T) <= k
  <2>1. \A x \in T : Rank(L, R, x) \in 0 .. k - 1
    <3> TAKE x \in T
    <3>1. Rank(L, R, x) \in 0 .. Cardinality(L) - 1 /\ Rank(L, R, x) < k
      BY RankOrder
    <3>2. Rank(L, R, x) \in Nat
      BY <1>1, <3>1, FS_CardinalityType
    <3> QED  BY <3>1, <3>2
  <2>2. rank \in [T -> 0 .. k - 1]
    BY <2>1
  <2>3. \A x, y \in T : rank[x] = rank[y] => x = y
    BY RankIsBijective
  <2>4. rank \in Injection(T, 0 .. k - 1)
    BY <2>2, <2>3, Fun_IsInj
  <2>5. IsFiniteSet(0 .. k - 1) /\ Cardinality(0 .. k - 1) = k
    <3>1. 0 \in Int /\ k - 1 \in Int /\ (IF 0 > k - 1 THEN 0 ELSE (k - 1) - 0 + 1) = k
      OBVIOUS
    <3> QED  BY <3>1, FS_Interval
  <2> QED  BY <2>4, <2>5, FS_Injection
<1>3. ASSUME T # L  PROVE Cardinality(T) >= k
  <2> DEFINE M == {Rank(L, R, x) : x \in L \ T}
  <2>1. M \subseteq Nat /\ M # {}
    <3>1. \A x \in L : Rank(L, R, x) \in Nat
      <4> TAKE x \in L
      <4>1. Rank(L, R, x) \in 0 .. Cardinality(L) - 1
        BY RankOrder
      <4> QED  BY <1>1, <4>1, FS_CardinalityType
    <3>2. L \ T # {}
      BY <1>1, <1>3
    <3> HIDE DEF T
    <3> QED  BY <3>1, <3>2
  <2>2. PICK m \in M : \A n \in M : m <= n
    <3> HIDE DEF M
    <3> QED  BY <2>1, LeastNatural
  <2>3. PICK z \in L \ T : Rank(L, R, z) = m
    OBVIOUS
  <2>4. m \in Nat /\ m >= k
    BY <2>1, <2>3
  <2>5. Below(L, R, z) \in SUBSET T
    <3> SUFFICES ASSUME NEW y \in L, <<y, z>> \in R, y \notin T  PROVE FALSE
      BY DEF Below
    <3>1. Rank(L, R, y) < m /\ Rank(L, R, y) \in M
      BY <2>3, RankOrder
    <3>2. m <= Rank(L, R, y) /\ Rank(L, R, y) \in Nat
      BY <2>1, <2>2, <3>1
    <3> HIDE DEF M, T
    <3> QED  BY <2>4, <3>1, <3>2
  <2>6. Rank(L, R, z) <= Cardinality(T)
    BY <1>1, <2>5, FS_Subset DEF Rank
  <2> HIDE DEF T, M
  <2> QED  BY <1>1, <2>3, <2>4, <2>6
<1> QED  BY <1>1, <1>2, <1>3

-----------------------------------------------------------------------------
(* The queue and the promotion.                                            *)

LEMMA FinitePositions ==
  ASSUME NEW S, NEW q \in Seq(S), NEW L, L \subseteq DOMAIN q
  PROVE  IsFiniteSet(L) /\ Cardinality(L) \in Nat /\ \A i \in L : i \in Nat \ {0} /\ q[i] \in S
<1>1. DOMAIN q = 1 .. Len(q) /\ Len(q) \in Nat /\ \A i \in DOMAIN q : i \in Nat \ {0} /\ q[i] \in S
  OBVIOUS
<1>2. IsFiniteSet(DOMAIN q)
  BY <1>1, FS_Interval
<1>3. IsFiniteSet(L)
  BY <1>2, FS_Subset
<1> QED  BY <1>1, <1>3, FS_CardinalityType

(* Others drops the promoted waiters and keeps the rest.                   *)
LEMMA OthersStay ==
  ASSUME NEW S, NEW q \in Seq(S), NoDuplicates(q), NEW up
  PROVE  /\ Others(q, up) \in Seq(S) /\ NoDuplicates(Others(q, up))
         /\ ToSet(Others(q, up)) = ToSet(q) \ up
<1> DEFINE stay == {i \in DOMAIN q : q[i] \notin up}
           R == {p \in stay \X stay : p[1] < p[2]}
           c == Cardinality(stay)
           place(n) == CHOOSE i \in stay : Cardinality({j \in stay : j < i}) = n - 1
           r == Others(q, up)
<1>1. IsFiniteSet(stay) /\ c \in Nat /\ \A i \in stay : i \in Nat \ {0} /\ q[i] \in S
  BY FinitePositions
<1>2. StrictOrder(stay, R)
  <2>1. \A x, y \in stay : <<x, y>> \in R <=> x < y
    OBVIOUS
  <2>2. \A x \in stay : x \in Nat
    BY <1>1
  <2> HIDE DEF stay, R
  <2> QED  BY <1>1, <2>1, <2>2 DEF StrictOrder
<1>3. \A i \in stay : Rank(stay, R, i) = Cardinality({j \in stay : j < i})
  <2> TAKE i \in stay
  <2>1. Below(stay, R, i) = {j \in stay : j < i}
    BY DEF Below
  <2> QED  BY <2>1 DEF Rank
<1>4. r = [n \in 1 .. c |-> q[place(n)]]
  BY DEF Others
<1> HIDE DEF r
<1>5. ASSUME NEW n \in 1 .. c
      PROVE  place(n) \in stay /\ Rank(stay, R, place(n)) = n - 1
  <2>1. n - 1 \in 0 .. c - 1
    BY <1>1
  <2> HIDE DEF R
  <2>2. \E i \in stay : Rank(stay, R, i) = n - 1
    <3> HIDE DEF stay
    <3> QED  BY <1>2, <2>1, RankIsBijective
  <2> HIDE DEF stay
  <2>3. \E i \in stay : Cardinality({j \in stay : j < i}) = n - 1
    BY <1>3, <2>2
  <2> QED  BY <1>3, <2>3
<1>6. ASSUME NEW i \in stay  PROVE \E n \in 1 .. c : place(n) = i
  <2> DEFINE n == Rank(stay, R, i) + 1
  <2>1. Rank(stay, R, i) \in 0 .. c - 1
    <3> HIDE DEF stay, R
    <3> QED  BY <1>2, RankOrder
  <2>2. n \in 1 .. c /\ n - 1 = Rank(stay, R, i)
    BY <1>1, <2>1
  <2>3. place(n) \in stay /\ Rank(stay, R, place(n)) = Rank(stay, R, i)
    <3> HIDE DEF n, stay, R
    <3> QED  BY <1>5, <2>2
  <2>4. place(n) = i
    <3> HIDE DEF stay, R, n, place
    <3> QED  BY <1>2, <2>3, RankIsBijective
  <2> HIDE DEF n
  <2> QED  BY <2>2, <2>4
<1> HIDE DEF place, R
<1>7. \A n \in 1 .. c : r[n] = q[place(n)] /\ place(n) \in DOMAIN q /\ q[place(n)] \notin up /\ r[n] \in S
  BY <1>1, <1>4, <1>5
<1>8. r \in Seq(S) /\ DOMAIN r = 1 .. c
  <2> HIDE DEF stay
  <2>1. r \in [1 .. c -> S]
    BY <1>4, <1>7
  <2> QED  BY <1>1, <2>1, IsASeq
<1>9. NoDuplicates(r)
  <2> SUFFICES ASSUME NEW m \in 1 .. c, NEW n \in 1 .. c, r[m] = r[n]  PROVE m = n
    BY <1>8 DEF NoDuplicates
  <2>1. place(m) = place(n)
    BY <1>7 DEF NoDuplicates
  <2>2. m - 1 = n - 1
    BY <1>5, <2>1
  <2>3. m \in Nat /\ n \in Nat
    BY <1>1
  <2> QED  BY <2>2, <2>3
<1>10. ToSet(r) = ToSet(q) \ up
  <2>1. ToSet(r) \subseteq ToSet(q) \ up
    BY <1>7, <1>8 DEF ToSet
  <2>2. ASSUME NEW i \in DOMAIN q, q[i] \notin up  PROVE q[i] \in ToSet(r)
    <3>1. PICK n \in 1 .. c : place(n) = i
      BY <1>6, <2>2
    <3> QED  BY <1>7, <1>8, <3>1 DEF ToSet
  <2> QED  BY <2>1, <2>2 DEF ToSet
<1> QED  BY <1>8, <1>9, <1>10 DEF r

(* Who is ahead of whom is a strict order, and the rank of a waiter is the *)
(* number of those ahead of it.                                            *)
LEMMA AheadOrder ==
  ASSUME NEW S, prio \in [S -> Int], NEW q \in Seq(S), NEW L, NEW R,
         L = DOMAIN q, \A x, y \in L : <<x, y>> \in R <=> Ahead(q, x, y)
  PROVE  /\ StrictOrder(L, R)
         /\ \A k \in L : Rank(L, R, k) = Cardinality({i \in L : Ahead(q, i, k)})
<1>1. IsFiniteSet(L) /\ \A i \in L : i \in Nat /\ q[i] \in S /\ prio[q[i]] \in Int
  BY FinitePositions
<1>2. StrictOrder(L, R)
  <2> DEFINE key(x) == prio[q[x]]
  <2>2. \A x, y \in L : Ahead(q, x, y) <=> key(x) < key(y) \/ (key(x) = key(y) /\ x < y)
    BY DEF Ahead
  <2>3. \A x \in L : key(x) \in Int /\ x \in Nat
    BY <1>1
  <2> HIDE DEF key
  <2>4. ASSUME NEW x \in L  PROVE <<x, x>> \notin R
    <3>1. ~Ahead(q, x, x)
      BY <2>2, <2>3
    <3> QED  BY <3>1
  <2>5. ASSUME NEW x \in L, NEW y \in L, NEW z \in L, <<x, y>> \in R, <<y, z>> \in R
        PROVE  <<x, z>> \in R
    <3>1. Ahead(q, x, y) /\ Ahead(q, y, z)
      BY <2>5
    <3>2. Ahead(q, x, z)
      BY <2>2, <2>3, <3>1
    <3> QED  BY <3>2
  <2>6. ASSUME NEW x \in L, NEW y \in L  PROVE x = y \/ <<x, y>> \in R \/ <<y, x>> \in R
    <3>1. x = y \/ Ahead(q, x, y) \/ Ahead(q, y, x)
      BY <2>2, <2>3
    <3> QED  BY <3>1
  <2> QED  BY <1>1, <2>4, <2>5, <2>6 DEF StrictOrder
<1>3. \A k \in L : Rank(L, R, k) = Cardinality({i \in L : Ahead(q, i, k)})
  <2> TAKE k \in L
  <2>1. Below(L, R, k) = {i \in L : Ahead(q, i, k)}
    BY DEF Below
  <2> QED  BY <2>1 DEF Rank
<1> QED  BY <1>2, <1>3

(* The order as a relation.                                                *)
AheadPairs(q) == {p \in (DOMAIN q) \X (DOMAIN q) : Ahead(q, p[1], p[2])}

LEMMA AheadRanks ==
  ASSUME NEW S, prio \in [S -> Int], NEW q \in Seq(S)
  PROVE  /\ StrictOrder(DOMAIN q, AheadPairs(q))
         /\ \A k \in DOMAIN q : Rank(DOMAIN q, AheadPairs(q), k)
                               = Cardinality({i \in DOMAIN q : Ahead(q, i, k)})
         /\ \A x, y \in DOMAIN q : <<x, y>> \in AheadPairs(q) <=> Ahead(q, x, y)
<1>1. \A x, y \in DOMAIN q : <<x, y>> \in AheadPairs(q) <=> Ahead(q, x, y)
  BY DEF AheadPairs
<1> QED  BY <1>1, AheadOrder

(* How many are promoted: up to the limit, and no fewer while one waits.   *)
LEMMA PromotedCount ==
  ASSUME NEW S, prio \in [S -> Int], NEW q \in Seq(S), NoDuplicates(q), NEW taken \in Nat, NEW limit \in Nat
  PROVE  /\ Promoted(q, taken, limit) \subseteq ToSet(q)
         /\ IsFiniteSet(Promoted(q, taken, limit))
         /\ Cardinality(Promoted(q, taken, limit)) \in Nat
         /\ \/ Promoted(q, taken, limit) = {}
            \/ taken + Cardinality(Promoted(q, taken, limit)) <= limit
         /\ ToSet(q) \ Promoted(q, taken, limit) # {} =>
              taken + Cardinality(Promoted(q, taken, limit)) >= limit
<1> DEFINE L == DOMAIN q
           R == AheadPairs(q)
           T == {k \in L : Cardinality({i \in L : Ahead(q, i, k)}) < limit - taken}
           up == Promoted(q, taken, limit)
<1>1. IsFiniteSet(L) /\ \A i \in L : i \in Nat /\ q[i] \in S
  BY FinitePositions
<1>2. StrictOrder(L, R) /\ \A k \in L : Rank(L, R, k) = Cardinality({i \in L : Ahead(q, i, k)})
  BY AheadRanks
<1>4. T = {k \in L : Rank(L, R, k) < limit - taken}
  BY <1>2
<1>5. up = {q[j] : j \in T}
  BY DEF Promoted
<1>6. T \subseteq L /\ IsFiniteSet(T) /\ Cardinality(T) \in Nat
  <2>1. T \subseteq DOMAIN q
    OBVIOUS
  <2> HIDE DEF T
  <2> QED  BY <2>1, FinitePositions
<1> HIDE DEF R, up
<1>7. /\ T = {} \/ taken + Cardinality(T) <= limit
      /\ T # L => taken + Cardinality(T) >= limit
  <2>1. CASE limit - taken <= 0
    <3>1. \A k \in L : Rank(L, R, k) \in Nat
      <4> TAKE k \in L
      <4>1. Rank(L, R, k) \in 0 .. Cardinality(L) - 1
        <5> HIDE DEF L
        <5> QED  BY <1>2, RankOrder
      <4>2. Cardinality(L) \in Nat
        BY <1>1, FS_CardinalityType
      <4> QED  BY <4>1, <4>2
    <3>2. T = {}
      <4> HIDE DEF L
      <4> QED  BY <1>4, <2>1, <3>1
    <3> QED  BY <1>6, <2>1, <3>2
  <2>2. CASE limit - taken > 0
    <3> DEFINE k == limit - taken
    <3>1. k \in Nat
      BY <2>2
    <3> HIDE DEF L
    <3>2. Cardinality(T) <= k /\ (T # L => Cardinality(T) >= k)
      <4> HIDE DEF T, k
      <4>1. T = {x \in L : Rank(L, R, x) < k}
        BY <1>4 DEF k
      <4> QED  BY <1>2, <3>1, <4>1, LowestRanks
    <3> QED  BY <1>6, <3>2
  <2> QED  BY <2>1, <2>2
<1>8. up \subseteq ToSet(q)
  BY <1>5, <1>6 DEF ToSet
<1>9. IsFiniteSet(up) /\ Cardinality(up) = Cardinality(T)
  <2> DEFINE f == [j \in T |-> q[j]]
  <2>1. f \in [T -> up]
    BY <1>5
  <2>2. \A i, j \in T : f[i] = f[j] => i = j
    BY <1>6 DEF NoDuplicates
  <2>3. \A x \in up : \E j \in T : f[j] = x
    BY <1>5
  <2> HIDE DEF T, f
  <2>4. f \in Bijection(T, up)
    BY <2>1, <2>2, <2>3, Fun_IsBij, Fun_IsInj, Fun_IsSurj DEF Bijection
  <2> QED  BY <1>6, <2>4, FS_Bijection DEF ExistsBijection
<1>10. ToSet(q) \ up # {} => T # L
  BY <1>5 DEF ToSet
<1>11. T = {} => up = {}
  BY <1>5
<1> HIDE DEF T, L
<1> QED  BY <1>6, <1>7, <1>8, <1>9, <1>10, <1>11 DEF up

(* Who is promoted is ahead of who is not.                                 *)
LEMMA PromotedFirst ==
  ASSUME NEW S, prio \in [S -> Int], NEW q \in Seq(S), NEW taken \in Nat, NEW limit \in Nat,
         NEW a \in Promoted(q, taken, limit), NEW b \in ToSet(q) \ Promoted(q, taken, limit)
  PROVE  \E i, j \in DOMAIN q : q[i] = a /\ q[j] = b /\ Ahead(q, i, j)
<1> DEFINE L == DOMAIN q
           R == AheadPairs(q)
           ahead(k) == Cardinality({i \in L : Ahead(q, i, k)})
<1>1. PICK i \in L : q[i] = a /\ ahead(i) < limit - taken
  BY DEF Promoted
<1>2. PICK j \in L : q[j] = b
  BY DEF ToSet
<1>3. ~(ahead(j) < limit - taken)
  BY <1>2 DEF Promoted
<1>4. /\ StrictOrder(L, R)
      /\ \A k \in L : Rank(L, R, k) = ahead(k)
      /\ \A x, y \in L : <<x, y>> \in R <=> Ahead(q, x, y)
  BY AheadRanks
<1>5. Cardinality(L) \in Nat
  BY FinitePositions
<1> HIDE DEF L, R, ahead
<1>6. \A x \in L : ahead(x) \in Int
  <2>1. \A x \in L : Rank(L, R, x) \in 0 .. Cardinality(L) - 1
    BY <1>4, RankOrder
  <2> QED  BY <1>4, <1>5, <2>1
<1>7. ahead(i) < ahead(j)
  BY <1>1, <1>3, <1>6
<1>8. ~Ahead(q, j, i) /\ i # j
  <2>1. Ahead(q, j, i) => ahead(j) < ahead(i)
    BY <1>4, RankOrder
  <2> QED  BY <1>6, <1>7, <2>1
<1>9. Ahead(q, i, j)
  BY <1>4, <1>8 DEF StrictOrder
<1> QED  BY <1>1, <1>2, <1>9 DEF L

(* What the loop does to the queue, the grants and the counter.            *)
LEMMA PromoteStep ==
  ASSUME prio \in [Runs -> Int], NEW q \in Seq(Runs), NoDuplicates(q),
         NEW taken \in Nat, NEW limit \in Nat, Promote(q, taken, limit)
  PROVE  \E up \in SUBSET ToSet(q) :
           /\ IsFiniteSet(up) /\ granted' = granted \cup up
           /\ active' = taken + Cardinality(up) /\ Cardinality(up) \in Nat
           /\ up = {} \/ active' <= limit
           /\ waiters' \in Seq(Runs) /\ NoDuplicates(waiters')
           /\ ToSet(waiters') = ToSet(q) \ up
           /\ waiters' # <<>> => active' >= limit
<1> DEFINE up == Promoted(q, taken, limit)
<1>1. /\ up \in SUBSET ToSet(q) /\ IsFiniteSet(up) /\ Cardinality(up) \in Nat
      /\ up = {} \/ taken + Cardinality(up) <= limit
      /\ ToSet(q) \ up # {} => taken + Cardinality(up) >= limit
  BY PromotedCount
<1>2. waiters' = Others(q, up) /\ granted' = granted \cup up /\ active' = taken + Cardinality(up)
  BY DEF Promote
<1> HIDE DEF up
<1>3. waiters' \in Seq(Runs) /\ NoDuplicates(waiters') /\ ToSet(waiters') = ToSet(q) \ up
  BY <1>2, OthersStay
<1>4. waiters' # <<>> => ToSet(waiters') # {}
  <2> SUFFICES ASSUME waiters' # <<>>  PROVE ToSet(waiters') # {}
    OBVIOUS
  <2>1. Head(waiters') \in ToSet(waiters')
    BY <1>3, TailDropsHead
  <2> QED  BY <2>1
<1> QED  BY <1>1, <1>2, <1>3, <1>4

LEMMA LimitsInRange ==
  /\ Limits \subseteq Nat \ {0} /\ Limits # {}
  /\ setting \in Settings => Readable \subseteq Limits
<1>1. \A s \in Settings : Clamp(s) \in Nat \ {0}
  BY NumbersAssumption DEF Clamp
<1> QED  BY <1>1, NumbersAssumption DEF Limits, Readable

-----------------------------------------------------------------------------
(* The invariant.                                                          *)

SlotTypes ==
  /\ pc \in [Runs -> Steps] /\ prio \in [Runs -> Int] /\ DOMAIN read = Runs
  /\ setting \in Settings
  /\ waiters \in Seq(Runs) /\ NoDuplicates(waiters) /\ granted \subseteq Runs

(* A run that waits was granted nothing, and one that works has its grant. *)
GrantedOrWaiting ==
  /\ \A r \in ToSet(waiters) : pc[r] \in {"waiting", "giving_up"} /\ r \notin granted
  /\ \A r \in granted : pc[r] \notin {"idle", "starting"}
  /\ \A r \in Runs : pc[r] \in {"working", "releasing"} => r \in granted

(* What a run has read for its next critical section is a limit.           *)
ReadsALimit == \A r \in Runs : pc[r] \in {"starting", "giving_up", "releasing"} => read[r] \in Limits

(* The counter counts the holders.                                         *)
ActiveCountsHolders == IsFiniteSet(Holders) /\ active = Cardinality(Holders)

WithinLimits ==
  /\ \E n \in Limits : active <= n
  /\ waiters # <<>> => \E n \in Limits : active >= n

SlotsInv == SlotTypes /\ GrantedOrWaiting /\ ReadsALimit /\ ActiveCountsHolders /\ WithinLimits

(* Any critical section that ends with a promotion: run r goes to step,    *)
(* after the queue became q and the holders H.                             *)
LEMMA PromotionKeeps ==
  ASSUME SlotsInv, NEW r \in Runs, NEW step \in {"waiting", "leaving"},
         NEW q \in Seq(Runs), NoDuplicates(q), NEW taken \in Nat, taken <= active,
         Promote(q, taken, read[r]), read[r] \in Limits, MoveTo(r, step), DropLimit(r),
         UNCHANGED <<setting, prio>>,
         ToSet(q) \subseteq ToSet(waiters) \cup {r},
         step = "waiting" => pc[r] = "starting" /\ taken = active,
         step = "leaving" => /\ r \notin ToSet(q)
                             /\ IsFiniteSet(Holders \ {r}) /\ taken = Cardinality(Holders \ {r})
  PROVE  SlotsInv'
<1>1. /\ pc \in [Runs -> Steps] /\ prio \in [Runs -> Int] /\ DOMAIN read = Runs
      /\ waiters \in Seq(Runs) /\ granted \subseteq Runs /\ setting \in Settings
  BY DEF SlotsInv, SlotTypes
<1>2. Limits \subseteq Nat \ {0} /\ read[r] \in Nat
  BY LimitsInRange
<1>3. PICK up \in SUBSET ToSet(q) :
           /\ IsFiniteSet(up) /\ granted' = granted \cup up
           /\ active' = taken + Cardinality(up) /\ Cardinality(up) \in Nat
           /\ up = {} \/ active' <= read[r]
           /\ waiters' \in Seq(Runs) /\ NoDuplicates(waiters')
           /\ ToSet(waiters') = ToSet(q) \ up
           /\ waiters' # <<>> => active' >= read[r]
  BY <1>1, <1>2, PromoteStep
<1>4. /\ pc' = [pc EXCEPT ![r] = step] /\ step \in Steps
      /\ read' = [read EXCEPT ![r] = 1]
  BY DEF MoveTo, DropLimit, Steps
<1>5. ToSet(q) \subseteq Runs
  BY FinitePositions DEF ToSet
<1>6. SlotTypes'
  BY <1>1, <1>3, <1>4, <1>5 DEF SlotTypes
<1>7. \A s \in Runs : s # r => pc'[s] = pc[s] /\ read'[s] = read[s]
  BY <1>1, <1>4
<1>8. pc'[r] = step
  BY <1>1, <1>4
<1>9. \A s \in ToSet(q) : s = r \/ (pc[s] \in {"waiting", "giving_up"} /\ s \notin granted)
  BY DEF SlotsInv, GrantedOrWaiting
<1>10. r \in ToSet(q) => step = "waiting" /\ r \notin granted
  BY DEF SlotsInv, GrantedOrWaiting
<1>11. \A s \in ToSet(q) : pc'[s] \in {"waiting", "giving_up"} /\ s \notin granted
  BY <1>5, <1>7, <1>8, <1>9, <1>10
<1>12. GrantedOrWaiting'
  <2>1. \A s \in ToSet(waiters') : pc'[s] \in {"waiting", "giving_up"} /\ s \notin granted'
    BY <1>3, <1>11
  <2>2. \A s \in granted' : pc'[s] \notin {"idle", "starting"}
    BY <1>1, <1>3, <1>7, <1>8, <1>11 DEF SlotsInv, GrantedOrWaiting
  <2>3. \A s \in Runs : pc'[s] \in {"working", "releasing"} => s \in granted'
    BY <1>3, <1>7, <1>8 DEF SlotsInv, GrantedOrWaiting
  <2> QED  BY <2>1, <2>2, <2>3 DEF GrantedOrWaiting
<1>13. ReadsALimit'
  <2>1. Limits' = Limits
    BY DEF Limits
  <2> QED  BY <1>7, <1>8, <2>1 DEF SlotsInv, ReadsALimit
<1>14. ActiveCountsHolders'
  <2> DEFINE H == IF step = "leaving" THEN Holders \ {r} ELSE Holders
  <2>1. IsFiniteSet(H) /\ taken = Cardinality(H) /\ H \cap up = {}
    BY <1>3, <1>11 DEF SlotsInv, ActiveCountsHolders, Holders
  <2>2. Holders' = H \cup up
    <3>1. \A s \in Runs : s \in Holders' <=> (s \in granted \cup up /\ pc'[s] \notin {"leaving", "done"})
      BY <1>3 DEF Holders
    <3>2. \A s \in up : pc'[s] \notin {"leaving", "done"} /\ s \in Runs
      BY <1>3, <1>5, <1>11
    <3>3. \A s \in granted : s # r => (s \in Holders <=> pc'[s] \notin {"leaving", "done"})
      BY <1>1, <1>7 DEF Holders
    <3>4. step = "waiting" => r \notin granted
      BY DEF SlotsInv, GrantedOrWaiting
    <3>5. Holders \subseteq granted /\ Holders' \subseteq Runs
      BY <1>1, <1>3, <1>5 DEF Holders
    <3> QED  BY <1>1, <1>8, <3>1, <3>2, <3>3, <3>4, <3>5
  <2> HIDE DEF H
  <2>3. Cardinality(H \cup up) = Cardinality(H) + Cardinality(up) - Cardinality({})
    BY <1>3, <2>1, FS_Union
  <2>4. IsFiniteSet(H \cup up) /\ Cardinality({}) = 0
    BY <1>3, <2>1, FS_Union, FS_EmptySet
  <2> QED  BY <1>3, <2>1, <2>2, <2>3, <2>4 DEF ActiveCountsHolders
<1>15. WithinLimits'
  <2>1. Limits' = Limits
    BY DEF Limits
  <2>2. active \in Nat
    BY FS_CardinalityType DEF SlotsInv, ActiveCountsHolders
  <2>3. PICK n \in Limits : active <= n
    BY DEF SlotsInv, WithinLimits
  <2>4. \E m \in Limits : active' <= m
    <3>1. CASE up = {}
      <4>1. Cardinality(up) = 0
        BY <3>1, FS_EmptySet
      <4>2. active' <= n
        BY <1>2, <1>3, <2>2, <2>3, <4>1
      <4> QED  BY <4>2
    <3> QED  BY <1>3, <3>1
  <2> QED  BY <1>3, <2>1, <2>4 DEF WithinLimits
<1> QED  BY <1>6, <1>12, <1>13, <1>14, <1>15 DEF SlotsInv

LEMMA SlotsInit == Init => SlotsInv
<1> SUFFICES ASSUME Init  PROVE SlotsInv
  OBVIOUS
<1>1. waiters = <<>> /\ granted = {} /\ active = 0 /\ pc = [r \in Runs |-> "idle"]
  BY DEF Init
<1>2. waiters \in Seq(Runs) /\ NoDuplicates(waiters) /\ ToSet(waiters) = {}
  BY <1>1 DEF NoDuplicates, ToSet
<1>3. SlotTypes
  BY <1>1, <1>2, NumbersAssumption DEF Init, SlotTypes, Steps
<1>4. Holders = {}
  BY <1>1 DEF Holders
<1>5. ActiveCountsHolders
  BY <1>1, <1>4, FS_EmptySet DEF ActiveCountsHolders
<1>6. WithinLimits
  <2>1. PICK n \in Limits : n \in Nat
    BY LimitsInRange
  <2> QED  BY <1>1, <2>1 DEF WithinLimits
<1>7. GrantedOrWaiting /\ ReadsALimit
  BY <1>1, <1>2 DEF GrantedOrWaiting, ReadsALimit
<1> QED  BY <1>3, <1>5, <1>6, <1>7 DEF SlotsInv

(* A run goes on to a step in which it holds what it held before.          *)
LEMMA StepKeeps ==
  ASSUME SlotsInv, NEW r \in Runs, NEW step \in Steps, MoveTo(r, step),
         ReadLimit(r) \/ (UNCHANGED read /\ step \in {"working", "done"}),
         UNCHANGED <<active, waiters, granted, prio, setting>>,
         r \notin ToSet(waiters) \/ step = "giving_up",
         step \in {"working", "releasing"} => r \in granted,
         step \in {"idle", "starting"} => r \notin granted,
         r \in granted => (pc[r] \in {"leaving", "done"} <=> step \in {"leaving", "done"})
  PROVE  SlotsInv'
<1>1. pc \in [Runs -> Steps] /\ DOMAIN read = Runs /\ setting \in Settings /\ granted \subseteq Runs
  BY DEF SlotsInv, SlotTypes
<1>2. pc' = [pc EXCEPT ![r] = step]
  BY DEF MoveTo
<1>3. pc'[r] = step /\ \A s \in Runs : s # r => pc'[s] = pc[s]
  BY <1>1, <1>2
<1>4. SlotTypes'
  <2>1. DOMAIN read' = Runs
    BY <1>1 DEF ReadLimit
  <2> QED  BY <1>1, <1>2, <2>1 DEF SlotsInv, SlotTypes
<1>5. GrantedOrWaiting'
  <2>1. ToSet(waiters) \subseteq Runs
    BY FinitePositions DEF ToSet, SlotsInv, SlotTypes
  <2> QED  BY <1>1, <1>3, <2>1 DEF SlotsInv, GrantedOrWaiting
<1>6. ReadsALimit'
  <2>1. Limits' = Limits
    BY DEF Limits
  <2>2. step \in {"working", "done"} \/ read'[r] \in Limits
    BY <1>1, LimitsInRange DEF ReadLimit
  <2>3. \A s \in Runs : s # r => read'[s] = read[s]
    BY <1>1 DEF ReadLimit
  <2> QED  BY <1>3, <2>1, <2>2, <2>3 DEF SlotsInv, ReadsALimit
<1>7. Holders' = Holders
  BY <1>1, <1>3 DEF Holders
<1>8. Limits' = Limits
  BY DEF Limits
<1> QED  BY <1>4, <1>5, <1>6, <1>7, <1>8 DEF SlotsInv, ActiveCountsHolders, WithinLimits

LEMMA OneHolderLess ==
  ASSUME SlotsInv, NEW r \in Runs
  PROVE  /\ IsFiniteSet(Holders \ {r}) /\ active \in Nat
         /\ r \notin granted => active = Cardinality(Holders \ {r})
         /\ r \in granted /\ pc[r] \notin {"leaving", "done"} =>
              OneLess = Cardinality(Holders \ {r}) /\ OneLess \in Nat /\ OneLess <= active
<1>1. IsFiniteSet(Holders) /\ active = Cardinality(Holders) /\ active \in Nat
  BY FS_CardinalityType DEF SlotsInv, ActiveCountsHolders
<1>2. /\ IsFiniteSet(Holders \ {r})
      /\ Cardinality(Holders \ {r}) = IF r \in Holders THEN active - 1 ELSE active
  BY <1>1, FS_RemoveElement
<1>3. r \in granted /\ pc[r] \notin {"leaving", "done"} <=> r \in Holders
  BY DEF Holders
<1>4. r \in Holders => active > 0
  BY <1>1, FS_EmptySet
<1>5. r \notin granted => r \notin Holders
  BY DEF Holders
<1> QED  BY <1>1, <1>2, <1>3, <1>4, <1>5 DEF OneLess

LEMMA SlotsNext == SlotsInv /\ [Next]_vars => SlotsInv'
<1> SUFFICES ASSUME SlotsInv, [Next]_vars  PROVE SlotsInv'
  OBVIOUS
<1>0. /\ waiters \in Seq(Runs) /\ NoDuplicates(waiters) /\ granted \subseteq Runs
      /\ pc \in [Runs -> Steps] /\ prio \in [Runs -> Int] /\ DOMAIN read = Runs /\ setting \in Settings
  BY DEF SlotsInv, SlotTypes
<1>a. \A r \in ToSet(waiters) : pc[r] \in {"waiting", "giving_up"} /\ r \notin granted
  BY DEF SlotsInv, GrantedOrWaiting
<1>1. ASSUME NEW r \in Runs, NEW d \in Downloads, Start(r, d)  PROVE SlotsInv'
  <2>1. /\ pc[r] = "idle" /\ ReadLimit(r) /\ MoveTo(r, "starting")
        /\ UNCHANGED <<active, waiters, granted, prio, setting>>
    BY <1>1 DEF Start, slotVars, editVars
  <2>2. r \notin granted /\ r \notin ToSet(waiters)
    BY <1>a, <2>1 DEF SlotsInv, GrantedOrWaiting
  <2> QED  BY <2>1, <2>2, StepKeeps DEF Steps
<1>2. ASSUME NEW r \in Runs, Enter(r)  PROVE SlotsInv'
  <2> DEFINE previous == httpRuns[of[r]]
             others == IF previous \in granted THEN waiters ELSE RemoveFirst(waiters, previous)
             q == Append(others, r)
  <2>1. /\ pc[r] = "starting" /\ MoveTo(r, "waiting") /\ Promote(q, active, read[r]) /\ DropLimit(r)
        /\ UNCHANGED <<setting, prio>>
    BY <1>2 DEF Enter, editVars
  <2>2. others \in Seq(Runs) /\ NoDuplicates(others) /\ ToSet(others) \subseteq ToSet(waiters)
    BY <1>0, RemoveFirstIsSeq, RemoveFirstDropsOne
  <2> HIDE DEF others
  <2>3. r \notin ToSet(others)
    BY <1>a, <2>1, <2>2
  <2>4. q \in Seq(Runs) /\ NoDuplicates(q) /\ ToSet(q) = ToSet(others) \cup {r}
    BY <2>2, <2>3, AppendNewElement
  <2>5. read[r] \in Limits
    BY <2>1 DEF SlotsInv, ReadsALimit
  <2>6. active \in Nat /\ active <= active
    <3>1. active \in Nat
      BY OneHolderLess
    <3> QED  BY <3>1
  <2>7. ToSet(q) \subseteq ToSet(waiters) \cup {r}
    BY <2>2, <2>4
  <2> HIDE DEF q
  <2> QED  BY <2>1, <2>4, <2>5, <2>6, <2>7, PromotionKeeps
<1>3. ASSUME NEW r \in Runs, GoAhead(r)  PROVE SlotsInv'
  <2>1. /\ pc[r] = "waiting" /\ r \in granted /\ MoveTo(r, "working")
        /\ UNCHANGED <<active, waiters, granted, prio, setting, read>>
    BY <1>3 DEF GoAhead, slotVars, editVars, runVars
  <2>2. r \notin ToSet(waiters)
    BY <1>a, <2>1
  <2> QED  BY <2>1, <2>2, StepKeeps DEF Steps
<1>4. ASSUME NEW r \in Runs, GiveUp(r)  PROVE SlotsInv'
  <2>1. /\ pc[r] = "waiting" /\ MoveTo(r, "giving_up") /\ ReadLimit(r)
        /\ UNCHANGED <<active, waiters, granted, prio, setting>>
    BY <1>4 DEF GiveUp, slotVars, editVars, runVars
  <2> QED  BY <2>1, StepKeeps DEF Steps
<1>5. ASSUME NEW r \in Runs, Return(r)  PROVE SlotsInv'
  <2>1. /\ pc[r] = "giving_up" /\ MoveTo(r, "leaving") /\ DropLimit(r)
        /\ UNCHANGED <<setting, prio>>
    BY <1>5 DEF Return, editVars, runVars
  <2>2. read[r] \in Limits
    BY <2>1 DEF SlotsInv, ReadsALimit
  <2>3. CASE r \in granted
    <3>1. Promote(waiters, OneLess, read[r])
      BY <1>5, <2>3 DEF Return
    <3>2. /\ OneLess \in Nat /\ OneLess <= active
          /\ IsFiniteSet(Holders \ {r}) /\ OneLess = Cardinality(Holders \ {r})
      BY <2>1, <2>3, OneHolderLess
    <3>3. r \notin ToSet(waiters) /\ ToSet(waiters) \subseteq ToSet(waiters) \cup {r}
      BY <1>a, <2>3
    <3> QED  BY <1>0, <2>1, <2>2, <3>1, <3>2, <3>3, PromotionKeeps
  <2>4. CASE r \notin granted
    <3> DEFINE q == RemoveFirst(waiters, r)
    <3>1. Promote(q, active, read[r])
      BY <1>5, <2>4 DEF Return
    <3>2. /\ active \in Nat /\ active <= active
          /\ IsFiniteSet(Holders \ {r}) /\ active = Cardinality(Holders \ {r})
      BY <2>4, OneHolderLess
    <3>3. q \in Seq(Runs) /\ NoDuplicates(q) /\ ToSet(q) = ToSet(waiters) \ {r}
      BY <1>0, RemoveFirstIsSeq, RemoveFirstDropsOne
    <3>4. r \notin ToSet(q) /\ ToSet(q) \subseteq ToSet(waiters) \cup {r}
      BY <3>3
    <3> HIDE DEF q
    <3> QED  BY <2>1, <2>2, <3>1, <3>2, <3>3, <3>4, PromotionKeeps
  <2> QED  BY <2>3, <2>4
<1>6. ASSUME NEW r \in Runs, FinishWork(r)  PROVE SlotsInv'
  <2>1. /\ pc[r] = "working" /\ MoveTo(r, "releasing") /\ ReadLimit(r)
        /\ UNCHANGED <<active, waiters, granted, prio, setting>>
    BY <1>6 DEF FinishWork, slotVars, editVars, runVars
  <2>2. r \in granted /\ r \notin ToSet(waiters)
    BY <1>a, <2>1 DEF SlotsInv, GrantedOrWaiting
  <2> QED  BY <2>1, <2>2, StepKeeps DEF Steps
<1>7. ASSUME NEW r \in Runs, Release(r)  PROVE SlotsInv'
  <2>1. /\ pc[r] = "releasing" /\ MoveTo(r, "leaving") /\ DropLimit(r)
        /\ Promote(waiters, OneLess, read[r]) /\ UNCHANGED <<setting, prio>>
    BY <1>7 DEF Release, editVars, runVars
  <2>2. r \in granted /\ r \notin ToSet(waiters) /\ read[r] \in Limits
    BY <1>a, <2>1 DEF SlotsInv, GrantedOrWaiting, ReadsALimit
  <2>3. /\ OneLess \in Nat /\ OneLess <= active
        /\ IsFiniteSet(Holders \ {r}) /\ OneLess = Cardinality(Holders \ {r})
    BY <2>1, <2>2, OneHolderLess
  <2>4. ToSet(waiters) \subseteq ToSet(waiters) \cup {r}
    OBVIOUS
  <2> QED  BY <1>0, <2>1, <2>2, <2>3, <2>4, PromotionKeeps
<1>8. ASSUME NEW r \in Runs, Leave(r)  PROVE SlotsInv'
  <2>1. /\ pc[r] = "leaving" /\ MoveTo(r, "done")
        /\ UNCHANGED <<active, waiters, granted, prio, setting, read>>
    BY <1>8 DEF Leave, slotVars, editVars
  <2>2. r \notin ToSet(waiters)
    BY <1>a, <2>1
  <2> QED  BY <2>1, <2>2, StepKeeps DEF Steps
<1>9. ASSUME SlotTypes', UNCHANGED <<active, waiters, granted, pc, read>>  PROVE SlotsInv'
  <2>1. Holders' = Holders /\ Limits' = Limits
    BY <1>9 DEF Holders, Limits
  <2> QED  BY <1>9, <2>1
              DEF SlotsInv, GrantedOrWaiting, ReadsALimit, ActiveCountsHolders, WithinLimits
<1>10. ASSUME NEW d \in Downloads, Cancel(d)  PROVE SlotsInv'
  BY <1>0, <1>9, <1>10 DEF Cancel, slotVars, editVars, SlotTypes
<1>11. ASSUME NEW d \in Downloads, NEW p \in Priorities, EditPriority(d, p)  PROVE SlotsInv'
  <2>1. p \in Int
    BY NumbersAssumption
  <2>2. prio' \in [Runs -> Int]
    BY <1>0, <1>11, <2>1 DEF EditPriority
  <2> QED  BY <1>0, <1>9, <1>11, <2>2 DEF EditPriority, slotVars, SlotTypes
<1>12. ASSUME NEW n \in Settings, SaveSetting(n)  PROVE SlotsInv'
  BY <1>0, <1>9, <1>12 DEF SaveSetting, slotVars, runVars, SlotTypes
<1>13. CASE UNCHANGED vars
  BY <1>0, <1>9, <1>13 DEF vars, slotVars, runVars, editVars, SlotTypes
<1> QED  BY <1>1, <1>2, <1>3, <1>4, <1>5, <1>6, <1>7, <1>8, <1>10, <1>11, <1>12, <1>13
            DEF Next, RunNext

(* No more downloads transfer than the setting allows or has allowed, and  *)
(* none waits while every value it has had leaves a slot free, however     *)
(* starts, cancellations, releases and edits of the setting interleave.    *)
THEOREM SlotsAreUsed == Spec => []LimitIsUsed
<1>1. SlotsInv => LimitIsUsed
  BY DEF SlotsInv, ActiveCountsHolders, WithinLimits, LimitIsUsed
<1> QED  BY <1>1, SlotsInit, SlotsNext, PTL DEF Spec

-----------------------------------------------------------------------------
(* The position that is shown.                                             *)

(* The sorted queue exists and lists every position once.                  *)
LEMMA QueueIsSorted ==
  ASSUME SlotTypes
  PROVE  /\ SortedQueue \in [DOMAIN waiters -> DOMAIN waiters]
         /\ \A m, n \in DOMAIN waiters :
              m < n => Ahead(waiters, SortedQueue[m], SortedQueue[n])
         /\ \A i \in DOMAIN waiters : \E n \in DOMAIN waiters : SortedQueue[n] = i
<1> DEFINE L == DOMAIN waiters
           R == AheadPairs(waiters)
           Sorted(o) == \A m, n \in L : m < n => Ahead(waiters, o[m], o[n])
           o == [n \in L |-> CHOOSE i \in L : Rank(L, R, i) = n - 1]
<1>1. waiters \in Seq(Runs) /\ prio \in [Runs -> Int]
  BY DEF SlotTypes
<1>2. L = 1 .. Len(waiters) /\ Len(waiters) \in Nat /\ IsFiniteSet(L) /\ Cardinality(L) = Len(waiters)
  <2>1. L = 1 .. Len(waiters) /\ Len(waiters) \in Nat
    BY <1>1
  <2> HIDE DEF L
  <2> QED  BY <2>1, FS_Interval
<1>3. StrictOrder(L, R) /\ \A x, y \in L : <<x, y>> \in R <=> Ahead(waiters, x, y)
  BY <1>1, AheadRanks
<1> HIDE DEF L, R
<1>4. \A n \in L : o[n] \in L /\ Rank(L, R, o[n]) = n - 1
  <2> TAKE n \in L
  <2>1. n - 1 \in 0 .. Cardinality(L) - 1
    BY <1>2
  <2>2. \E i \in L : Rank(L, R, i) = n - 1
    BY <1>3, <2>1, RankIsBijective
  <2> QED  BY <2>2
<1>5. o \in [L -> L]
  BY <1>4
<1>6. Sorted(o)
  <2> SUFFICES ASSUME NEW m \in L, NEW n \in L, m < n  PROVE Ahead(waiters, o[m], o[n])
    OBVIOUS
  <2>1. o[m] \in L /\ o[n] \in L /\ Rank(L, R, o[m]) = m - 1 /\ Rank(L, R, o[n]) = n - 1
    BY <1>4
  <2> HIDE DEF o
  <2>2. m \in Int /\ n \in Int
    BY <1>2
  <2>3. ~(n - 1 < m - 1) /\ m - 1 # n - 1
    BY <2>2
  <2>4. o[m] # o[n] /\ <<o[n], o[m]>> \notin R
    BY <1>3, <2>1, <2>3, RankOrder
  <2> QED  BY <1>3, <2>1, <2>4 DEF StrictOrder
<1> HIDE DEF o
<1>7. SortedQueue \in [L -> L] /\ Sorted(SortedQueue)
  <2>1. SortedQueue = CHOOSE w \in [L -> L] : Sorted(w)
    BY DEF SortedQueue, Ahead, L
  <2> HIDE DEF Sorted
  <2> QED  BY <1>5, <1>6, <2>1
<1>8. \A m, n \in L : SortedQueue[m] = SortedQueue[n] => m = n
  <2> SUFFICES ASSUME NEW m \in L, NEW n \in L, SortedQueue[m] = SortedQueue[n], m # n  PROVE FALSE
    OBVIOUS
  <2>1. m < n \/ n < m
    BY <1>2
  <2>2. Ahead(waiters, SortedQueue[m], SortedQueue[m]) /\ SortedQueue[m] \in L
    BY <1>7, <2>1
  <2> QED  BY <1>3, <2>2 DEF StrictOrder
<1>9. \A i \in L : \E n \in L : SortedQueue[n] = i
  <2>1. SortedQueue \in Injection(L, L)
    BY <1>7, <1>8, Fun_IsInj
  <2>2. SortedQueue \in Surjection(L, L)
    BY <1>2, <2>1, FS_Injection
  <2> QED  BY <2>2 DEF Surjection
<1> QED  BY <1>7, <1>9 DEF L

(* Whoever is ahead of another waiter is shown a lower position.           *)
LEMMA PositionsFollow ==
  ASSUME SlotTypes, NEW i \in DOMAIN waiters, NEW j \in DOMAIN waiters, Ahead(waiters, i, j)
  PROVE  QueuePosition(waiters[i]) < QueuePosition(waiters[j])
<1> DEFINE L == DOMAIN waiters
<1>1. /\ waiters \in Seq(Runs) /\ prio \in [Runs -> Int]
      /\ \A x, y \in L : waiters[x] = waiters[y] => x = y
  BY DEF SlotTypes, NoDuplicates
<1>2. \A x \in L : x \in Nat /\ waiters[x] \in Runs /\ prio[waiters[x]] \in Int
  BY <1>1, FinitePositions
<1>3. \A x \in L : /\ QueuePosition(waiters[x]) \in L
                    /\ SortedQueue[QueuePosition(waiters[x])] = x
  <2> TAKE x \in L
  <2>1. \E n \in L : waiters[SortedQueue[n]] = waiters[x]
    BY QueueIsSorted
  <2>2. /\ QueuePosition(waiters[x]) \in L
        /\ waiters[SortedQueue[QueuePosition(waiters[x])]] = waiters[x]
    BY <2>1 DEF QueuePosition
  <2> QED  BY <1>1, <2>2, QueueIsSorted
<1> DEFINE m == QueuePosition(waiters[i])
           n == QueuePosition(waiters[j])
<1>4. m \in L /\ n \in L /\ SortedQueue[m] = i /\ SortedQueue[n] = j
  BY <1>3
<1> HIDE DEF m, n
<1>5. ~(n < m) /\ n # m
  <2>1. ~Ahead(waiters, j, i) /\ i # j
    BY <1>2 DEF Ahead
  <2> QED  BY <1>4, <2>1, QueueIsSorted
<1>6. m < n
  BY <1>2, <1>4, <1>5
<1> QED  BY <1>6 DEF m, n

(* A promotion from a queue that keeps the order of the waiters.           *)
LEMMA PromotionByPosition ==
  ASSUME SlotsInv, NEW q \in Seq(Runs), NEW taken \in Nat, NEW limit \in Nat, Promote(q, taken, limit),
         \A a, b \in ToSet(q) \cap ToSet(waiters) : Precedes(waiters, a, b) => Precedes(q, a, b),
         NoDuplicates(q),
         NEW a \in ToSet(waiters), NEW b \in ToSet(waiters),
         a \in granted', b \notin granted', b \in ToSet(waiters')
  PROVE  QueuePosition(a) < QueuePosition(b)
<1>1. /\ SlotTypes /\ prio \in [Runs -> Int] /\ waiters \in Seq(Runs) /\ NoDuplicates(waiters)
      /\ a \notin granted
  BY DEF SlotsInv, SlotTypes, GrantedOrWaiting
<1>2. /\ granted' = granted \cup Promoted(q, taken, limit)
      /\ ToSet(waiters') = ToSet(q) \ Promoted(q, taken, limit)
  BY OthersStay DEF Promote
<1>3. a \in Promoted(q, taken, limit) /\ b \in ToSet(q) \ Promoted(q, taken, limit)
  BY <1>1, <1>2
<1>4. PICK i, j \in DOMAIN q : q[i] = a /\ q[j] = b /\ Ahead(q, i, j)
  BY <1>1, <1>3, PromotedFirst
<1>5. a \in ToSet(q) /\ b \in ToSet(q) /\ \A x, y \in DOMAIN q : q[x] = q[y] => x = y
  BY <1>4 DEF ToSet, NoDuplicates
<1>6. PICK k, l \in DOMAIN waiters : waiters[k] = a /\ waiters[l] = b
  BY DEF ToSet
<1>7. /\ i \in Nat /\ j \in Nat /\ k \in Nat /\ l \in Nat
      /\ prio[a] \in Int /\ prio[b] \in Int
  BY <1>1, <1>4, <1>6, FinitePositions
<1>8. Ahead(waiters, k, l)
  <2>1. CASE prio[a] < prio[b]
    BY <1>6, <2>1 DEF Ahead
  <2>2. CASE ~(prio[a] < prio[b])
    <3>1. prio[a] = prio[b] /\ i < j
      BY <1>4, <2>2 DEF Ahead
    <3>2. ~Precedes(q, b, a)
      <4> SUFFICES ASSUME NEW x \in DOMAIN q, NEW y \in DOMAIN q, x < y, q[x] = b, q[y] = a
                   PROVE  FALSE
        BY DEF Precedes
      <4>1. x = j /\ y = i
        BY <1>4, <1>5
      <4> QED  BY <1>7, <3>1, <4>1
    <3>3. ~Precedes(waiters, b, a)
      BY <1>5, <3>2
    <3>4. ~(l < k)
      BY <1>6, <3>3 DEF Precedes
    <3>5. k # l
      BY <1>4, <1>5, <1>6, <1>7, <3>1
    <3>6. k < l
      BY <1>7, <3>4, <3>5
    <3> QED  BY <1>6, <3>1, <3>6 DEF Ahead
  <2> QED  BY <2>1, <2>2
<1> QED  BY <1>1, <1>6, <1>8, PositionsFollow

(* No waiter is promoted before one that HTTPQueuePosition puts ahead.      *)
InTurn ==
  \A a, b \in ToSet(waiters) :
    a \in granted' /\ b \notin granted' /\ b \in ToSet(waiters')
      => QueuePosition(a) < QueuePosition(b)

LEMMA StepInTurn ==
  ASSUME SlotsInv, Next
  PROVE  InTurn
<1>0. /\ waiters \in Seq(Runs) /\ NoDuplicates(waiters)
      /\ \A r \in ToSet(waiters) : pc[r] \in {"waiting", "giving_up"} /\ r \notin granted
  BY DEF SlotsInv, SlotTypes, GrantedOrWaiting
<1>a. active \in Nat /\ OneLess \in Nat
  <2>1. active \in Nat
    BY FS_CardinalityType DEF SlotsInv, ActiveCountsHolders
  <2> QED  BY <2>1 DEF OneLess
<1>b. \A r \in Runs : pc[r] \in {"starting", "giving_up", "releasing"} => read[r] \in Nat
  BY LimitsInRange DEF SlotsInv, ReadsALimit
<1>1. ASSUME UNCHANGED granted  PROVE InTurn
  BY <1>0, <1>1 DEF InTurn
<1>2. ASSUME NEW r \in Runs, Enter(r)  PROVE InTurn
  <2> DEFINE previous == httpRuns[of[r]]
             others == IF previous \in granted THEN waiters ELSE RemoveFirst(waiters, previous)
             q == Append(others, r)
  <2>1. pc[r] = "starting" /\ Promote(q, active, read[r])
    BY <1>2 DEF Enter
  <2>2. /\ others \in Seq(Runs) /\ NoDuplicates(others) /\ ToSet(others) \subseteq ToSet(waiters)
        /\ \A a, b \in ToSet(others) : Precedes(waiters, a, b) => Precedes(others, a, b)
    <3>1. CASE previous \in granted
      BY <1>0, <3>1
    <3>2. CASE previous \notin granted
      <4> DEFINE rest == RemoveFirst(waiters, previous)
      <4>1. rest \in Seq(Runs) /\ NoDuplicates(rest) /\ ToSet(rest) = ToSet(waiters) \ {previous}
        BY <1>0, RemoveFirstIsSeq, RemoveFirstDropsOne
      <4>2. \A a, b \in ToSet(rest) : Precedes(waiters, a, b) => Precedes(rest, a, b)
        BY <1>0, <4>1, RemoveFirstKeepsPlaces
      <4> QED  BY <3>2, <4>1, <4>2
    <3> QED  BY <3>1, <3>2
  <2> HIDE DEF others
  <2>3. r \notin ToSet(others) /\ r \notin ToSet(waiters)
    BY <1>0, <2>1, <2>2
  <2>4. q \in Seq(Runs) /\ NoDuplicates(q) /\ ToSet(q) = ToSet(others) \cup {r}
    BY <2>2, <2>3, AppendNewElement
  <2>5. \A a, b \in ToSet(others) : Precedes(others, a, b) => Precedes(q, a, b)
    <3> SUFFICES ASSUME NEW x \in DOMAIN others, NEW y \in DOMAIN others, x < y
                 PROVE  Precedes(q, others[x], others[y])
      BY DEF Precedes
    <3>1. x \in DOMAIN q /\ y \in DOMAIN q /\ q[x] = others[x] /\ q[y] = others[y]
      BY <2>2
    <3> QED  BY <3>1 DEF Precedes
  <2> HIDE DEF q
  <2>6. \A a, b \in ToSet(q) \cap ToSet(waiters) : Precedes(waiters, a, b) => Precedes(q, a, b)
    BY <2>2, <2>3, <2>4, <2>5
  <2> QED  BY <1>a, <1>b, <2>1, <2>4, <2>6, PromotionByPosition DEF InTurn
<1>3. ASSUME NEW r \in Runs, Return(r)  PROVE InTurn
  <2>1. pc[r] = "giving_up" /\ read[r] \in Nat
    BY <1>3, <1>b DEF Return
  <2>2. CASE r \in granted
    <3>1. Promote(waiters, OneLess, read[r])
      BY <1>3, <2>2 DEF Return
    <3> QED  BY <1>0, <1>a, <2>1, <3>1, PromotionByPosition DEF InTurn
  <2>3. CASE r \notin granted
    <3> DEFINE q == RemoveFirst(waiters, r)
    <3>1. Promote(q, active, read[r])
      BY <1>3, <2>3 DEF Return
    <3>2. q \in Seq(Runs) /\ NoDuplicates(q) /\ ToSet(q) = ToSet(waiters) \ {r}
      BY <1>0, RemoveFirstIsSeq, RemoveFirstDropsOne
    <3>3. \A a, b \in ToSet(q) \cap ToSet(waiters) : Precedes(waiters, a, b) => Precedes(q, a, b)
      BY <1>0, <3>2, RemoveFirstKeepsPlaces
    <3> HIDE DEF q
    <3> QED  BY <1>a, <2>1, <3>1, <3>2, <3>3, PromotionByPosition DEF InTurn
  <2> QED  BY <2>2, <2>3
<1>4. ASSUME NEW r \in Runs, Release(r)  PROVE InTurn
  <2>1. pc[r] = "releasing" /\ Promote(waiters, OneLess, read[r]) /\ read[r] \in Nat
    BY <1>4, <1>b DEF Release
  <2> QED  BY <1>0, <1>a, <2>1, PromotionByPosition DEF InTurn
<1>5. \/ UNCHANGED granted
      \/ \E r \in Runs : Enter(r) \/ Return(r) \/ Release(r)
  BY DEF Next, RunNext, Start, GoAhead, GiveUp, FinishWork, Leave, Cancel, EditPriority,
              SaveSetting, slotVars
<1> QED  BY <1>1, <1>2, <1>3, <1>4, <1>5

(* No run gets a slot before one that HTTPQueuePosition shows ahead of it, *)
(* whoever joins, gives up or is superseded in the same critical section   *)
(* (promoteHTTPWaitersLocked).                                             *)
THEOREM SlotsGoByPosition == Spec => ServedByPosition
<1>1. SlotsInv /\ [Next]_vars => [InTurn]_vars
  BY StepInTurn
<1>2. Spec => [][InTurn]_vars
  BY <1>1, SlotsInit, SlotsNext, PTL DEF Spec
<1> QED  BY <1>2 DEF ServedByPosition, InTurn

(* A run that is still wanted: it waits for a slot or has one, and nobody  *)
(* has told it to stop.                                                    *)
Live(r) == pc[r] \in {"waiting", "working"} /\ r \notin cancelled

(* The entry of httpRuns is the run that is wanted, if there is one. *)
LiveRunsAreKnown ==
  /\ pc \in [Runs -> Steps] /\ of \in [Runs -> Downloads]
  /\ httpRuns \in [Downloads -> Runs \cup {NoRun}]
  /\ \A r \in Runs : pc[r] \in {"idle", "starting"} => r \notin cancelled
  /\ \A d \in Downloads : httpRuns[d] # NoRun => pc[httpRuns[d]] \notin {"idle", "starting"}
  /\ \A r \in Runs : Live(r) => httpRuns[of[r]] = r

OneLiveRun == \A r, s \in Runs : Live(r) /\ Live(s) /\ of[r] = of[s] => r = s

LEMMA LiveRunsInit == Init /\ Downloads # {} => LiveRunsAreKnown
<1> SUFFICES ASSUME Init, Downloads # {}  PROVE LiveRunsAreKnown
  OBVIOUS
<1>1. (CHOOSE d \in Downloads : TRUE) \in Downloads
  OBVIOUS
<1> QED  BY <1>1 DEF Init, LiveRunsAreKnown, Live, Steps

LEMMA LiveRunsStep == LiveRunsAreKnown /\ [Next]_vars => LiveRunsAreKnown'
<1> SUFFICES ASSUME LiveRunsAreKnown, [Next]_vars  PROVE LiveRunsAreKnown'
  OBVIOUS
<1> USE RunsAssumption DEF LiveRunsAreKnown, Live, MoveTo, Steps
<1>1. ASSUME NEW r \in Runs, NEW d \in Downloads, Start(r, d)  PROVE LiveRunsAreKnown'
  BY <1>1 DEF Start
<1>2. ASSUME NEW r \in Runs, Enter(r)  PROVE LiveRunsAreKnown'
  <2> DEFINE previous == httpRuns[of[r]]
  <2>1. /\ pc[r] = "starting" /\ UNCHANGED of
        /\ pc' = [pc EXCEPT ![r] = "waiting"]
        /\ httpRuns' = [httpRuns EXCEPT ![of[r]] = r]
        /\ cancelled' = cancelled \cup ({previous} \ {NoRun})
    BY <1>2 DEF Enter
  <2>2. ASSUME NEW s \in Runs, pc'[s] \in {"idle", "starting"}  PROVE s \notin cancelled'
    BY <2>1, <2>2 DEF Enter
  <2> QED  BY <2>1, <2>2
<1>3. ASSUME NEW r \in Runs, GoAhead(r) \/ GiveUp(r) \/ Return(r) \/ FinishWork(r) \/ Release(r)
      PROVE  LiveRunsAreKnown'
  BY <1>3 DEF GoAhead, GiveUp, Return, FinishWork, Release, runVars
<1>4. ASSUME NEW r \in Runs, Leave(r)  PROVE LiveRunsAreKnown'
  BY <1>4 DEF Leave
<1>5. ASSUME NEW d \in Downloads, Cancel(d)  PROVE LiveRunsAreKnown'
  BY <1>5 DEF Cancel
<1>6. ASSUME \/ UNCHANGED vars
             \/ \E d \in Downloads, p \in Priorities : EditPriority(d, p)
             \/ \E n \in Settings : SaveSetting(n)
      PROVE  LiveRunsAreKnown'
  BY <1>6 DEF EditPriority, SaveSetting, vars, runVars
<1> QED  BY <1>1, <1>2, <1>3, <1>4, <1>5, <1>6 DEF Next, RunNext

(* A download has one run at most that waits or transfers and was not told *)
(* to stop, and cancelHTTPDownload reaches it: starts that overtake each   *)
(* other on their way to the lock leave the newest one alone.              *)
THEOREM DownloadsHaveOneRun == Downloads # {} /\ Spec => [](OneLiveRun /\ LiveRunsAreKnown)
<1> SUFFICES ASSUME Downloads # {}  PROVE Spec => [](OneLiveRun /\ LiveRunsAreKnown)
  OBVIOUS
<1>1. LiveRunsAreKnown => OneLiveRun
  BY DEF LiveRunsAreKnown, OneLiveRun
<1>2. Init => LiveRunsAreKnown
  BY LiveRunsInit
<1> QED  BY <1>1, <1>2, LiveRunsStep, PTL DEF Spec

(* Run r can take its next step: it waits for nobody, or for nothing more. *)
CanGoOn(r) ==
  \/ pc[r] \in {"starting", "giving_up", "working", "releasing", "leaving"}
  \/ pc[r] = "waiting" /\ r \in granted \cup cancelled

(* Whoever waits is in the queue, has been granted a slot or is told to    *)
(* stop: no grant, and no removal from the queue, is lost on the way.      *)
WaitersAreQueued ==
  \A r \in Runs : pc[r] = "waiting" => r \in ToSet(waiters) \cup granted \cup cancelled

(* Somebody can go on while a run is under way. *)
NeverStuck == (\E r \in Runs : pc[r] \notin {"idle", "done"}) => \E r \in Runs : CanGoOn(r)

LEMMA PromotionLosesNobody ==
  ASSUME SlotsInv, WaitersAreQueued, NEW r \in Runs, NEW step \in {"waiting", "leaving"},
         NEW q \in Seq(Runs), NoDuplicates(q), NEW taken \in Nat, NEW limit \in Nat,
         Promote(q, taken, limit), MoveTo(r, step), cancelled \subseteq cancelled',
         ToSet(waiters) \subseteq ToSet(q) \cup {r} \cup cancelled',
         step = "waiting" => r \in ToSet(q)
  PROVE  WaitersAreQueued'
<1>1. /\ prio \in [Runs -> Int] /\ pc \in [Runs -> Steps]
  BY DEF SlotsInv, SlotTypes
<1>2. ToSet(q) \subseteq ToSet(waiters') \cup granted' /\ granted \subseteq granted'
  BY <1>1, PromoteStep
<1>3. \A s \in Runs : pc'[s] = IF s = r THEN step ELSE pc[s]
  BY <1>1 DEF MoveTo
<1> QED  BY <1>2, <1>3 DEF WaitersAreQueued

LEMMA WaitersStayQueued ==
  ASSUME SlotsInv, WaitersAreQueued, [Next]_vars
  PROVE  WaitersAreQueued'
<1>0. /\ waiters \in Seq(Runs) /\ NoDuplicates(waiters) /\ pc \in [Runs -> Steps]
      /\ \A r \in ToSet(waiters) : pc[r] \in {"waiting", "giving_up"} /\ r \notin granted
  BY DEF SlotsInv, SlotTypes, GrantedOrWaiting
<1>a. active \in Nat /\ OneLess \in Nat
  <2>1. active \in Nat
    BY FS_CardinalityType DEF SlotsInv, ActiveCountsHolders
  <2> QED  BY <2>1 DEF OneLess
<1>b. \A r \in Runs : pc[r] \in {"starting", "giving_up", "releasing"} => read[r] \in Nat
  BY LimitsInRange DEF SlotsInv, ReadsALimit
<1>1. ASSUME UNCHANGED <<waiters, granted>>, cancelled \subseteq cancelled',
             \A r \in Runs : pc'[r] = "waiting" => pc[r] = "waiting"
      PROVE  WaitersAreQueued'
  BY <1>1 DEF WaitersAreQueued
<1>2. ASSUME NEW r \in Runs, Enter(r)  PROVE WaitersAreQueued'
  <2> DEFINE previous == httpRuns[of[r]]
             others == IF previous \in granted THEN waiters ELSE RemoveFirst(waiters, previous)
             q == Append(others, r)
  <2>1. /\ pc[r] = "starting" /\ Promote(q, active, read[r]) /\ MoveTo(r, "waiting")
        /\ cancelled' = cancelled \cup ({previous} \ {NoRun})
    BY <1>2 DEF Enter
  <2>2. /\ others \in Seq(Runs) /\ NoDuplicates(others) /\ ToSet(others) \subseteq ToSet(waiters)
        /\ ToSet(waiters) \subseteq ToSet(others) \cup {previous}
    BY <1>0, RemoveFirstIsSeq, RemoveFirstDropsOne
  <2>3. NoRun \notin ToSet(waiters)
    BY <1>0, FinitePositions, RunsAssumption DEF ToSet
  <2> HIDE DEF others, previous
  <2>4. r \notin ToSet(others)
    BY <1>0, <2>1, <2>2
  <2>5. q \in Seq(Runs) /\ NoDuplicates(q) /\ ToSet(q) = ToSet(others) \cup {r}
    BY <2>2, <2>4, AppendNewElement
  <2> HIDE DEF q
  <2>6. ToSet(waiters) \subseteq ToSet(q) \cup {r} \cup cancelled'
    BY <2>1, <2>2, <2>3, <2>5
  <2> QED  BY <1>a, <1>b, <2>1, <2>5, <2>6, PromotionLosesNobody
<1>3. ASSUME NEW r \in Runs, Return(r)  PROVE WaitersAreQueued'
  <2>1. /\ pc[r] = "giving_up" /\ read[r] \in Nat /\ MoveTo(r, "leaving")
        /\ cancelled' = cancelled
    BY <1>3, <1>b DEF Return, runVars
  <2>2. CASE r \in granted
    <3>1. Promote(waiters, OneLess, read[r])
      BY <1>3, <2>2 DEF Return
    <3> QED  BY <1>0, <1>a, <2>1, <3>1, PromotionLosesNobody
  <2>3. CASE r \notin granted
    <3> DEFINE q == RemoveFirst(waiters, r)
    <3>1. Promote(q, active, read[r])
      BY <1>3, <2>3 DEF Return
    <3>2. q \in Seq(Runs) /\ NoDuplicates(q) /\ ToSet(q) = ToSet(waiters) \ {r}
      BY <1>0, RemoveFirstIsSeq, RemoveFirstDropsOne
    <3> HIDE DEF q
    <3> QED  BY <1>a, <2>1, <3>1, <3>2, PromotionLosesNobody
  <2> QED  BY <2>2, <2>3
<1>4. ASSUME NEW r \in Runs, Release(r)  PROVE WaitersAreQueued'
  <2>1. /\ pc[r] = "releasing" /\ Promote(waiters, OneLess, read[r]) /\ read[r] \in Nat
        /\ MoveTo(r, "leaving") /\ cancelled' = cancelled
    BY <1>4, <1>b DEF Release, runVars
  <2> QED  BY <1>0, <1>a, <2>1, PromotionLosesNobody
<1>5. ASSUME NEW r \in Runs,
             GoAhead(r) \/ GiveUp(r) \/ FinishWork(r) \/ Leave(r) \/ \E d \in Downloads : Start(r, d)
      PROVE  WaitersAreQueued'
  BY <1>0, <1>1, <1>5 DEF GoAhead, GiveUp, FinishWork, Leave, Start, MoveTo, slotVars, runVars
<1>6. ASSUME \/ UNCHANGED vars
             \/ \E d \in Downloads : Cancel(d)
             \/ \E d \in Downloads, p \in Priorities : EditPriority(d, p)
             \/ \E n \in Settings : SaveSetting(n)
      PROVE  WaitersAreQueued'
  BY <1>1, <1>6 DEF Cancel, EditPriority, SaveSetting, vars, slotVars, runVars
<1> QED  BY <1>2, <1>3, <1>4, <1>5, <1>6 DEF Next, RunNext

LEMMA SlotsKeepGoing == SlotsInv /\ WaitersAreQueued => NeverStuck
<1> SUFFICES ASSUME SlotsInv, WaitersAreQueued, NEW r \in Runs, pc[r] \notin {"idle", "done"}
             PROVE  \E s \in Runs : CanGoOn(s)
  BY DEF NeverStuck
<1>1. CASE CanGoOn(r)
  BY <1>1
<1>2. CASE ~CanGoOn(r)
  <2>1. pc[r] = "waiting" /\ r \in ToSet(waiters)
    BY <1>2 DEF CanGoOn, WaitersAreQueued, SlotsInv, SlotTypes, Steps
  <2>2. waiters # <<>>
    BY <2>1 DEF ToSet
  <2>3. Holders # {}
    <3>1. PICK n \in Limits : active >= n
      BY <2>2 DEF SlotsInv, WithinLimits
    <3>2. Holders = {} => active = 0
      BY FS_EmptySet DEF SlotsInv, ActiveCountsHolders
    <3> QED  BY <3>1, <3>2, LimitsInRange
  <2>4. PICK h \in granted : pc[h] \notin {"leaving", "done"}
    BY <2>3 DEF Holders
  <2>5. h \in Runs /\ pc[h] \in {"waiting", "giving_up", "working", "releasing"}
    BY <2>4 DEF SlotsInv, SlotTypes, GrantedOrWaiting, Steps
  <2> QED  BY <2>5 DEF CanGoOn
<1> QED  BY <1>1, <1>2

(* The downloads never wait for each other in a circle: while any run is   *)
(* under way one of them can take its next step, for a run that waits in   *)
(* the queue waits for one that holds a slot. A limit is never below one   *)
(* (httpConcurrency), and a run that is superseded while it waits is told. *)
THEOREM DownloadsNeverDeadlock == Spec => []NeverStuck
<1>1. Init => SlotsInv /\ WaitersAreQueued
  BY SlotsInit DEF Init, WaitersAreQueued
<1>2. SlotsInv /\ WaitersAreQueued /\ [Next]_vars => (SlotsInv /\ WaitersAreQueued)'
  BY SlotsNext, WaitersStayQueued
<1> QED  BY <1>1, <1>2, SlotsKeepGoing, PTL DEF Spec

-----------------------------------------------------------------------------
(***************************************************************************)
(* The rows (HttpDownloads), for any downloads, releases, runs, requests,  *)
(* removals and number of restarts. Plain rows are those no fallback of    *)
(* another provider can write to; requests for a release are made one at a *)
(* time (OneAtATime), as one page makes them.                              *)
(*                                                                         *)
(* A plain row has one holder (OneHolder): the run that may still write to *)
(* it, the timer of its re-download, the resumption that has listed it, or *)
(* a request that has checked its release. So nobody writes to it behind   *)
(* the holder's back, and while it is queued or downloading the holder is  *)
(* there (Attended, ShownHasWriter) - or a removal has cancelled it, for   *)
(* nobody else cancels the run of a row that lives (CancelledByRemoval).   *)
(* That a row was re-downloaded is known to the row while it is active and *)
(* to every copy worked on (RedownloadIsKnown), so the second bad video    *)
(* ends it.                                                                *)
(***************************************************************************)

(* Run r may still write to its row.                                       *)
Writes(r) ==
  \/ pc[r] = "starting"
  \/ pc[r] = "waiting" /\ r \notin cancelled
  \/ pc[r] = "working" /\ doing[r] # "over"

(* A removal of row d has cancelled its run, and is not over.              *)
Covered(d) ==
  \E x \in Removals : /\ removal[x].step \in {"waiting", "deleting", "failed"}
                      /\ removal[x].of = d

RowShapes ==
  /\ status \in [Downloads -> Statuses]
  /\ pc \in [Runs -> Steps] /\ of \in [Runs -> Downloads] /\ doing \in [Runs -> Doings]
  /\ cancelled \subseteq Runs
  /\ httpRuns \in [Downloads -> Runs \cup {NoRun}]
  /\ restarts \subseteq Downloads /\ fallbacks \subseteq FallsBack
  /\ request \in [Requests -> [step : {"idle", "checked", "done"}, of : Downloads]]
  /\ removal \in [Removals -> [step : {"idle", "waiting", "deleting", "failed", "done"},
                               of : Downloads, run : Runs \cup {NoRun}]]
  /\ boot \in {"sleeping", "listed"}
  /\ listed \in [Downloads -> [status : Statuses, retried : BOOLEAN]]

(* A run writes and is cancelled only after it was entered.                *)
RunsInOrder ==
  /\ \A r \in Runs : pc[r] \in {"idle", "starting"} => r \notin cancelled
  /\ \A r \in Runs : pc[r] \in {"idle", "starting", "waiting"} => doing[r] = "nothing"
  /\ \A d \in Downloads : httpRuns[d] # NoRun =>
       pc[httpRuns[d]] \notin {"idle", "starting"} /\ of[httpRuns[d]] = d

Checked(q, d) == request[q].step = "checked" /\ request[q].of = d
Unfinished(d) == status[d] \in {"queued", "downloading", "removed"}

(* Whoever holds a plain row holds it alone: one writer, the timer of the  *)
(* re-download, the list of the resumption, or one request.                *)
OneWriter ==
  \A r, s \in Runs : Writes(r) /\ Writes(s) /\ of[r] = of[s] /\ of[r] \in Plain => r = s

WriterHolds ==
  \A r \in Runs : Writes(r) /\ of[r] \in Plain =>
    Unfinished(of[r]) /\ of[r] \notin restarts /\ listed[of[r]] = NotListed

TimerHolds == \A d \in restarts \cap Plain : Unfinished(d) /\ listed[d] = NotListed

ListHolds == \A d \in Plain : listed[d] # NotListed => Unfinished(d)

RequestsAlone ==
  \A q \in Requests : request[q].step = "checked" =>
    /\ \A d \in Downloads : listed[d] = NotListed
    /\ \A o \in Requests : request[o].step = "checked" => o = q

RequestHolds ==
  \A q \in Requests : request[q].step = "checked" /\ request[q].of \in Plain =>
    /\ status[request[q].of] \in {"none", "failed", "removed"}
    /\ \A r \in Runs : ~(Writes(r) /\ of[r] = request[q].of)
    /\ request[q].of \notin restarts
    /\ \A e \in Siblings(request[q].of) \cap Plain : ~Active(e)

NobodyAsleep ==
  boot = "sleeping" =>
    /\ \A r \in Runs : ~Writes(r)
    /\ restarts = {} /\ \A d \in Downloads : listed[d] = NotListed
    /\ \A q \in Requests : request[q].step # "checked"

OneHolder ==
  /\ OneWriter /\ WriterHolds /\ TimerHolds /\ ListHolds
  /\ RequestsAlone /\ RequestHolds /\ NobodyAsleep

(* Every active plain row has somebody to finish it, ...                   *)
Attended ==
  \A d \in Plain : Active(d) =>
    (\E r \in Runs : WillSettle(r, d)) \/ d \in restarts \/ Covered(d) \/ WillResume(d)

(* ... a writer is cancelled only by a removal of its row, ...             *)
CancelledByRemoval ==
  \A r \in Runs : Writes(r) /\ r \in cancelled /\ of[r] \in Plain =>
    status[of[r]] = "removed" \/ Covered(of[r])

(* ... and a row says "downloading" while its writer has a slot.           *)
ShownHasWriter ==
  \A d \in Plain : status[d] = "downloading" =>
    (\E r \in Runs : of[r] = d /\ pc[r] = "working" /\ doing[r] # "over") \/ Covered(d) \/ WillResume(d)

(* The row of a download that was re-downloaded says so, and so does every *)
(* copy that is worked on.                                                 *)
RedownloadIsKnown ==
  \A d \in Plain \cap redone :
    /\ Active(d) => d \in retried
    /\ listed[d] # NotListed => listed[d].retried
    /\ \A r \in Runs : Writes(r) /\ of[r] = d => r \in again

RowsInv ==
  /\ RowShapes /\ RunsInOrder /\ OneHolder /\ Attended /\ CancelledByRemoval /\ ShownHasWriter
  /\ RedownloadIsKnown /\ OneActivePerRelease

-----------------------------------------------------------------------------
(* What a save of a copy does to the row, and a start to the runs.         *)
LEMMA SaveEffect ==
  ASSUME RowShapes, NEW d \in Downloads, NEW new, NEW v \in BOOLEAN, Save(d, new, v)
  PROVE  /\ status' = [e \in Downloads |-> IF e = d /\ status[d] # "removed" THEN new ELSE status[e]]
         /\ \A e \in Downloads \ {d} : e \in retried' <=> e \in retried
         /\ status[d] # "removed" => (d \in retried' <=> v)
<1>1. status \in [Downloads -> Statuses]
  BY DEF RowShapes
<1> QED  BY <1>1 DEF Save

LEMMA StartEffect ==
  ASSUME RowShapes, NEW r \in Runs, NEW d \in Downloads, NEW v \in BOOLEAN, StartCopy(r, d, v)
  PROVE  /\ pc[r] = "idle" /\ pc' = [s \in Runs |-> IF s = r THEN "starting" ELSE pc[s]]
         /\ of' = [s \in Runs |-> IF s = r THEN d ELSE of[s]]
         /\ UNCHANGED <<cancelled, httpRuns>>
         /\ again \subseteq again' /\ (v => r \in again')
<1>1. pc \in [Runs -> Steps] /\ of \in [Runs -> Downloads]
  BY DEF RowShapes
<1> QED  BY <1>1 DEF StartCopy, Start, MoveTo

(* The run that is started is the only one whose hold changes.             *)
LEMMA NewWriter ==
  ASSUME RowShapes, NEW r \in Runs, NEW d \in Downloads, pc[r] = "idle",
         pc' = [s \in Runs |-> IF s = r THEN "starting" ELSE pc[s]],
         of' = [s \in Runs |-> IF s = r THEN d ELSE of[s]], UNCHANGED <<cancelled, doing>>
  PROVE  /\ Writes(r)' /\ ~Writes(r) /\ of'[r] = d
         /\ \A s \in Runs \ {r} : Writes(s)' = Writes(s) /\ of'[s] = of[s]
BY DEF Writes

(* The steps that change no row, and nobody's hold on one.                 *)
Quiet ==
  /\ UNCHANGED <<storeVars, again, restarts, fallbacks, of, request, removal, bootVars>>
  /\ \A r \in Runs : Writes(r)' = Writes(r) /\ (r \in cancelled' <=> r \in cancelled)
  /\ \A r \in Runs, d \in Downloads : WillSettle(r, d) => WillSettle(r, d)'
  /\ \A r \in Runs : pc[r] = "working" /\ doing[r] # "over" => pc'[r] = "working" /\ doing'[r] # "over"

(* A removal, or a request, that goes a step on keeps its shape.           *)
LEMMA StepsKeepShape ==
  ASSUME RowShapes
  PROVE  /\ \A x \in Removals : \A step \in {"idle", "waiting", "deleting", "failed", "done"} :
              [removal EXCEPT ![x].step = step] \in
                [Removals -> [step : {"idle", "waiting", "deleting", "failed", "done"},
                              of : Downloads, run : Runs \cup {NoRun}]]
         /\ \A q \in Requests : \A step \in {"idle", "checked", "done"} :
              [request EXCEPT ![q].step = step] \in
                [Requests -> [step : {"idle", "checked", "done"}, of : Downloads]]
<1>1. ASSUME NEW x \in Removals, NEW step \in {"idle", "waiting", "deleting", "failed", "done"}
      PROVE  [removal[x] EXCEPT !.step = step] \in
               [step : {"idle", "waiting", "deleting", "failed", "done"},
                of : Downloads, run : Runs \cup {NoRun}]
  <2>1. removal[x] \in [step : {"idle", "waiting", "deleting", "failed", "done"},
                        of : Downloads, run : Runs \cup {NoRun}]
    BY DEF RowShapes
  <2> QED  BY <2>1
<1>2. ASSUME NEW q \in Requests, NEW step \in {"idle", "checked", "done"}
      PROVE  [request[q] EXCEPT !.step = step] \in [step : {"idle", "checked", "done"}, of : Downloads]
  BY DEF RowShapes
<1>3. \A x \in Removals : \A step \in {"idle", "waiting", "deleting", "failed", "done"} :
        [removal EXCEPT ![x].step = step] = [removal EXCEPT ![x] = [removal[x] EXCEPT !.step = step]]
  BY DEF RowShapes
<1>4. \A q \in Requests : \A step \in {"idle", "checked", "done"} :
        [request EXCEPT ![q].step = step] = [request EXCEPT ![q] = [request[q] EXCEPT !.step = step]]
  BY DEF RowShapes
<1>5. ASSUME NEW x \in Removals, NEW step \in {"idle", "waiting", "deleting", "failed", "done"}
      PROVE  [removal EXCEPT ![x] = [removal[x] EXCEPT !.step = step]] \in
               [Removals -> [step : {"idle", "waiting", "deleting", "failed", "done"},
                             of : Downloads, run : Runs \cup {NoRun}]]
  <2>1. removal \in [Removals -> [step : {"idle", "waiting", "deleting", "failed", "done"},
                                  of : Downloads, run : Runs \cup {NoRun}]]
    BY DEF RowShapes
  <2> QED  BY <1>1, <2>1
<1>6. ASSUME NEW q \in Requests, NEW step \in {"idle", "checked", "done"}
      PROVE  [request EXCEPT ![q] = [request[q] EXCEPT !.step = step]] \in
               [Requests -> [step : {"idle", "checked", "done"}, of : Downloads]]
  BY <1>2 DEF RowShapes
<1> QED  BY <1>3, <1>4, <1>5, <1>6

LEMMA RowShapesStep ==
  ASSUME RowShapes, [NextRows]_allVars
  PROVE  RowShapes'
<1> USE RowsAssumption, RunsAssumption
<1>1. ASSUME NEW r \in Runs, GoAhead(r), UNCHANGED rowVars
      PROVE  RowShapes'
  BY <1>1 DEF RowShapes, Steps, GoAhead, MoveTo, runVars, rowVars, storeVars, workVars, bootVars
<1>2. ASSUME NEW r \in Runs, GiveUp(r), UNCHANGED rowVars
      PROVE  RowShapes'
  BY <1>2 DEF RowShapes, Steps, GiveUp, MoveTo, runVars, rowVars, storeVars, workVars, bootVars
<1>3. ASSUME NEW r \in Runs, Return(r), UNCHANGED rowVars
      PROVE  RowShapes'
  BY <1>3 DEF RowShapes, Steps, Return, MoveTo, runVars, rowVars, storeVars, workVars, bootVars
<1>4. ASSUME NEW r \in Runs, Release(r), UNCHANGED rowVars
      PROVE  RowShapes'
  BY <1>4 DEF RowShapes, Steps, Release, MoveTo, runVars, rowVars, storeVars, workVars, bootVars
<1>5. ASSUME NEW r \in Runs, Leave(r), UNCHANGED rowVars
      PROVE  RowShapes'
  BY <1>5 DEF RowShapes, Steps, Leave, MoveTo, rowVars, storeVars, workVars, bootVars
<1>6. ASSUME NEW r \in Runs, FinishRun(r)
      PROVE  RowShapes'
  BY <1>6
     DEF RowShapes, Steps, FinishRun, FinishWork, MoveTo, runVars, rowVars, storeVars, workVars,
         bootVars
<1>7. ASSUME NEW r \in Runs, NEW outcome \in {"failed", "completed", "unsound"},
             Decide(r, outcome)
      PROVE  RowShapes'
  BY <1>7 DEF RowShapes, Doings, Decide, vars, runVars, storeVars, bootVars
<1>8. ASSUME UNCHANGED allVars
      PROVE  RowShapes'
  BY <1>8 DEF RowShapes, allVars, vars, runVars, rowVars, storeVars, workVars, bootVars
<1>9. ASSUME NEW r \in Runs, Enter(r), UNCHANGED rowVars
      PROVE  RowShapes'
  BY <1>9 DEF RowShapes, Steps, Enter, MoveTo, rowVars, storeVars, workVars, bootVars
<1>10. ASSUME NEW r \in Runs, Begin(r)
      PROVE  RowShapes'
  BY <1>10
     DEF RowShapes, Statuses, Doings, Begin, Save, vars, runVars, storeVars, workVars, bootVars,
         rowVars
<1>11. ASSUME NEW r \in Runs, Progress(r)
      PROVE  RowShapes'
  BY <1>11 DEF RowShapes, Statuses, Progress, Save, vars, runVars, workVars, bootVars
<1>12. ASSUME NEW r \in Runs, Abandon(r)
      PROVE  RowShapes'
  BY <1>12 DEF RowShapes, Doings, Abandon, vars, runVars, storeVars, bootVars
<1>13. ASSUME NEW r \in Runs, Settle(r)
      PROVE  RowShapes'
  <2>1. doing[r] \in Statuses
    BY <1>13 DEF Settle, Statuses
  <2>2. status' \in [Downloads -> Statuses]
    BY <1>13, <2>1 DEF RowShapes, Statuses, Settle, Save
  <2>3. doing' \in [Runs -> Doings] /\ fallbacks' \subseteq FallsBack
    BY <1>13 DEF RowShapes, Doings, Settle
  <2> QED  BY <1>13, <2>2, <2>3 DEF Settle, RowShapes, vars, runVars, bootVars
<1>14. ASSUME NEW r \in Runs, SettleUnsound(r)
      PROVE  RowShapes'
  <2>1. /\ status' = [status EXCEPT ![of[r]] = status'[of[r]]]
        /\ status'[of[r]] \in {"failed", "queued", "removed"} /\ of[r] \in Downloads
    BY <1>14 DEF SettleUnsound, Save, RowShapes
  <2>2. status' \in [Downloads -> Statuses]
    BY <2>1 DEF RowShapes, Statuses
  <2>3. restarts' \subseteq restarts \cup {of[r]}
    BY <1>14 DEF SettleUnsound, NoteRedownload
  <2>4. doing' \in [Runs -> Doings]
    BY <1>14 DEF SettleUnsound, RowShapes, Doings
  <2> QED  BY <1>14, <2>1, <2>2, <2>3, <2>4
              DEF SettleUnsound, RowShapes, vars, runVars, bootVars
<1>15. ASSUME NEW q \in Requests, NEW d \in Downloads, Check(q, d)
      PROVE  RowShapes'
  BY <1>15 DEF RowShapes, Check, vars, runVars, storeVars, workVars, bootVars
<1>16. ASSUME NEW q \in Requests, NEW r \in Runs, Submit(q, r)
      PROVE  RowShapes'
  <2>1. request' \in [Requests -> [step : {"idle", "checked", "done"}, of : Downloads]]
    BY <1>16, StepsKeepShape DEF Submit
  <2>2. request[q].of \in Downloads
    BY DEF RowShapes
  <2>3. status' \in [Downloads -> Statuses]
    BY <1>16, <2>2 DEF RowShapes, Statuses, Submit, Save
  <2>4. /\ pc' \in [Runs -> Steps] /\ of' \in [Runs -> Downloads]
        /\ httpRuns' \in [Downloads -> Runs \cup {NoRun}] /\ cancelled' = cancelled
        /\ UNCHANGED <<doing, restarts, fallbacks, removal, boot, listed>>
    BY <1>16, <2>2 DEF RowShapes, Steps, Submit, StartCopy, Start, MoveTo, bootVars
  <2> QED  BY <2>1, <2>3, <2>4 DEF RowShapes
<1>17. ASSUME NEW d \in Downloads, NEW r \in Runs, Redownload(d, r)
      PROVE  RowShapes'
  BY <1>17 DEF RowShapes, Steps, Redownload, StartCopy, Start, MoveTo, storeVars, bootVars
<1>18. ASSUME NEW d \in Downloads, NEW r \in Runs, Resume(d, r)
      PROVE  RowShapes'
  BY <1>18 DEF RowShapes, Statuses, Steps, NotListed, Resume, Save, StartCopy, Start, MoveTo
<1>19. ASSUME NEW d \in Downloads, FallBack(d)
      PROVE  RowShapes'
  BY <1>19 DEF RowShapes, Statuses, FallBack, Save, vars, runVars, bootVars
<1>20. ASSUME NEW x \in Removals, NEW d \in Downloads, RemoveDownload(x, d)
      PROVE  RowShapes'
  BY <1>20 DEF RowShapes, RemoveDownload, Cancel, vars, runVars, storeVars, workVars, bootVars
<1>21. ASSUME NEW x \in Removals, RunIsDone(x)
      PROVE  RowShapes'
  <2>1. removal' = [removal EXCEPT ![x].step = "deleting"]
    BY <1>21 DEF RunIsDone
  <2>2. UNCHANGED <<vars, storeVars, workVars, request, bootVars>>
    BY <1>21 DEF RunIsDone
  <2> QED  BY <2>1, <2>2, StepsKeepShape
              DEF RowShapes, vars, runVars, storeVars, workVars, bootVars
<1>22. ASSUME NEW x \in Removals, RemoveFails(x)
      PROVE  RowShapes'
  <2>1. removal' = [removal EXCEPT ![x].step = "failed"]
    BY <1>22 DEF RemoveFails
  <2>2. UNCHANGED <<vars, storeVars, workVars, request, bootVars>>
    BY <1>22 DEF RemoveFails
  <2> QED  BY <2>1, <2>2, StepsKeepShape
              DEF RowShapes, vars, runVars, storeVars, workVars, bootVars
<1>23. ASSUME NEW x \in Removals, DeleteRows(x)
      PROVE  RowShapes'
  <2>1. removal' = [removal EXCEPT ![x].step = "done"]
    BY <1>23 DEF DeleteRows
  <2>2. UNCHANGED <<vars, workVars, request, bootVars>>
    BY <1>23 DEF DeleteRows
  <2>3. status' \in [Downloads -> Statuses]
    BY <1>23 DEF RowShapes, Statuses, DeleteRows
  <2> QED  BY <2>1, <2>2, <2>3, StepsKeepShape DEF RowShapes, vars, runVars, workVars, bootVars
<1>24. ASSUME Crash
      PROVE  RowShapes'
  <2>1. /\ request' \in [Requests -> [step : {"idle", "checked", "done"}, of : Downloads]]
        /\ removal' \in [Removals -> [step : {"idle", "waiting", "deleting", "failed", "done"},
                                      of : Downloads, run : Runs \cup {NoRun}]]
    <3>1. ASSUME NEW q \in Requests
          PROVE  [request[q] EXCEPT !.step = "done"] \in [step : {"idle", "checked", "done"}, of : Downloads]
      BY DEF RowShapes
    <3>2. ASSUME NEW x \in Removals
          PROVE  [removal[x] EXCEPT !.step = "done"] \in
                   [step : {"idle", "waiting", "deleting", "failed", "done"},
                    of : Downloads, run : Runs \cup {NoRun}]
      <4>1. removal[x] \in [step : {"idle", "waiting", "deleting", "failed", "done"},
                            of : Downloads, run : Runs \cup {NoRun}]
        BY DEF RowShapes
      <4> QED  BY <4>1
    <3> QED  BY <1>24, <3>1, <3>2 DEF Crash, RowShapes
  <2>2. /\ pc' \in [Runs -> Steps] /\ doing' \in [Runs -> Doings] /\ of' \in [Runs -> Downloads]
        /\ status' \in [Downloads -> Statuses]
    BY <1>24 DEF Crash, RowShapes, Steps, Doings, storeVars
  <2>3. listed' \in [Downloads -> [status : Statuses, retried : BOOLEAN]]
    BY <1>24 DEF Crash, NotListed, Statuses
  <2> QED  BY <1>24, <2>1, <2>2, <2>3 DEF Crash, RowShapes
<1>25. ASSUME ListRows
      PROVE  RowShapes'
  BY <1>25
     DEF RowShapes, Statuses, NotListed, ListRows, Listing, vars, runVars, storeVars, workVars
<1> QED  BY <1>1, <1>2, <1>3, <1>4, <1>5, <1>6, <1>7, <1>8, <1>9, <1>10, <1>11, <1>12, <1>13,
            <1>14, <1>15, <1>16, <1>17, <1>18, <1>19, <1>20, <1>21, <1>22, <1>23, <1>24, <1>25
            DEF NextRows, RunStep, SlotStep

LEMMA RunsInOrderStep ==
  ASSUME RowsInv, [NextRows]_allVars
  PROVE  RunsInOrder'
<1> USE RowsAssumption, RunsAssumption DEF RowsInv
<1>1. ASSUME NEW r \in Runs, GoAhead(r), UNCHANGED rowVars
      PROVE  RunsInOrder'
  BY <1>1 DEF RunsInOrder, GoAhead, MoveTo, runVars, rowVars, workVars
<1>2. ASSUME NEW r \in Runs, GiveUp(r), UNCHANGED rowVars
      PROVE  RunsInOrder'
  BY <1>2 DEF RunsInOrder, GiveUp, MoveTo, runVars, rowVars, workVars
<1>3. ASSUME NEW r \in Runs, Return(r), UNCHANGED rowVars
      PROVE  RunsInOrder'
  BY <1>3 DEF RunsInOrder, Return, MoveTo, runVars, rowVars, workVars
<1>4. ASSUME NEW r \in Runs, Release(r), UNCHANGED rowVars
      PROVE  RunsInOrder'
  BY <1>4 DEF RunsInOrder, Release, MoveTo, runVars, rowVars, workVars
<1>5. ASSUME NEW r \in Runs, Leave(r), UNCHANGED rowVars
      PROVE  RunsInOrder'
  BY <1>5 DEF RunsInOrder, Leave, MoveTo, rowVars, workVars
<1>6. ASSUME NEW r \in Runs, FinishRun(r)
      PROVE  RunsInOrder'
  BY <1>6 DEF RunsInOrder, FinishRun, FinishWork, MoveTo, runVars, rowVars, workVars
<1>7. ASSUME NEW r \in Runs, NEW outcome \in {"failed", "completed", "unsound"},
             Decide(r, outcome)
      PROVE  RunsInOrder'
  BY <1>7 DEF RunsInOrder, Decide, vars, runVars
<1>8. ASSUME UNCHANGED allVars
      PROVE  RunsInOrder'
  BY <1>8 DEF RunsInOrder, allVars, vars, runVars, rowVars, workVars
<1>9. ASSUME NEW r \in Runs, Enter(r), UNCHANGED rowVars
      PROVE  RunsInOrder'
  BY <1>9 DEF RunsInOrder, RowShapes, Enter, MoveTo, rowVars, workVars
<1>10. ASSUME NEW r \in Runs, Begin(r)
      PROVE  RunsInOrder'
  BY <1>10 DEF RunsInOrder, Begin, vars, runVars
<1>11. ASSUME NEW r \in Runs, Progress(r)
      PROVE  RunsInOrder'
  BY <1>11 DEF RunsInOrder, Progress, vars, runVars, workVars
<1>12. ASSUME NEW r \in Runs, Abandon(r)
      PROVE  RunsInOrder'
  BY <1>12 DEF RunsInOrder, Abandon, vars, runVars
<1>13. ASSUME NEW r \in Runs, Settle(r)
      PROVE  RunsInOrder'
  BY <1>13 DEF RunsInOrder, Settle, vars, runVars
<1>14. ASSUME NEW r \in Runs, SettleUnsound(r)
      PROVE  RunsInOrder'
  BY <1>14 DEF RunsInOrder, SettleUnsound, vars, runVars
<1>15. ASSUME NEW q \in Requests, NEW d \in Downloads, Check(q, d)
      PROVE  RunsInOrder'
  BY <1>15 DEF RunsInOrder, Check, vars, runVars, workVars
<1>16. ASSUME NEW q \in Requests, NEW r \in Runs, Submit(q, r)
      PROVE  RunsInOrder'
  BY <1>16 DEF RunsInOrder, Submit, StartCopy, Start, MoveTo
<1>17. ASSUME NEW d \in Downloads, NEW r \in Runs, Redownload(d, r)
      PROVE  RunsInOrder'
  BY <1>17 DEF RunsInOrder, Redownload, StartCopy, Start, MoveTo
<1>18. ASSUME NEW d \in Downloads, NEW r \in Runs, Resume(d, r)
      PROVE  RunsInOrder'
  BY <1>18 DEF RunsInOrder, Resume, StartCopy, Start, MoveTo
<1>19. ASSUME NEW d \in Downloads, FallBack(d)
      PROVE  RunsInOrder'
  BY <1>19 DEF RunsInOrder, FallBack, vars, runVars
<1>20. ASSUME NEW x \in Removals, NEW d \in Downloads, RemoveDownload(x, d)
      PROVE  RunsInOrder'
  BY <1>20 DEF RunsInOrder, RemoveDownload, Cancel, vars, runVars, workVars
<1>21. ASSUME NEW x \in Removals, RunIsDone(x)
      PROVE  RunsInOrder'
  BY <1>21 DEF RunsInOrder, RunIsDone, vars, runVars, workVars
<1>22. ASSUME NEW x \in Removals, RemoveFails(x)
      PROVE  RunsInOrder'
  BY <1>22 DEF RunsInOrder, RemoveFails, vars, runVars, workVars
<1>23. ASSUME NEW x \in Removals, DeleteRows(x)
      PROVE  RunsInOrder'
  BY <1>23 DEF RunsInOrder, DeleteRows, vars, runVars, workVars
<1>24. ASSUME Crash
      PROVE  RunsInOrder'
  BY <1>24 DEF RunsInOrder, Crash
<1>25. ASSUME ListRows
      PROVE  RunsInOrder'
  BY <1>25 DEF RunsInOrder, ListRows, vars, runVars, workVars
<1> QED  BY <1>1, <1>2, <1>3, <1>4, <1>5, <1>6, <1>7, <1>8, <1>9, <1>10, <1>11, <1>12, <1>13,
            <1>14, <1>15, <1>16, <1>17, <1>18, <1>19, <1>20, <1>21, <1>22, <1>23, <1>24, <1>25
            DEF NextRows, RunStep, SlotStep

LEMMA QuietSteps ==
  ASSUME RowsInv
  PROVE  /\ \A r \in Runs : UNCHANGED rowVars /\ (GoAhead(r) \/ GiveUp(r) \/ Return(r) \/ Release(r) \/ Leave(r)) => Quiet
         /\ \A r \in Runs : FinishRun(r) => Quiet
         /\ \A r \in Runs, outcome \in {"failed", "completed", "unsound"} : Decide(r, outcome) => Quiet
         /\ UNCHANGED allVars => Quiet
<1> USE DEF RowsInv
<1>1. ASSUME NEW r \in Runs, GoAhead(r), UNCHANGED rowVars
      PROVE  Quiet
  BY <1>1
     DEF Quiet, Writes, WillSettle, RunsInOrder, GoAhead, MoveTo, runVars, rowVars, workVars
<1>2. ASSUME NEW r \in Runs, GiveUp(r), UNCHANGED rowVars
      PROVE  Quiet
  BY <1>2 DEF Quiet, Writes, WillSettle, GiveUp, MoveTo, runVars, rowVars, workVars
<1>3. ASSUME NEW r \in Runs, Return(r), UNCHANGED rowVars
      PROVE  Quiet
  BY <1>3 DEF Quiet, Writes, WillSettle, Return, MoveTo, runVars, rowVars, workVars
<1>4. ASSUME NEW r \in Runs, Release(r), UNCHANGED rowVars
      PROVE  Quiet
  BY <1>4 DEF Quiet, Writes, WillSettle, Release, MoveTo, runVars, rowVars, workVars
<1>5. ASSUME NEW r \in Runs, Leave(r), UNCHANGED rowVars
      PROVE  Quiet
  BY <1>5 DEF Quiet, Writes, WillSettle, Leave, MoveTo, rowVars, workVars
<1>6. ASSUME NEW r \in Runs, FinishRun(r)
      PROVE  Quiet
  BY <1>6
     DEF Quiet, Writes, WillSettle, FinishRun, FinishWork, MoveTo, runVars, rowVars, workVars
<1>7. ASSUME NEW r \in Runs, NEW outcome \in {"failed", "completed", "unsound"},
             Decide(r, outcome)
      PROVE  Quiet
  BY <1>7 DEF Quiet, Writes, WillSettle, Decide, vars, runVars
<1>8. ASSUME UNCHANGED allVars
      PROVE  Quiet
  BY <1>8 DEF Quiet, Writes, WillSettle, allVars, vars, runVars, rowVars, workVars
<1> QED  BY <1>1, <1>2, <1>3, <1>4, <1>5, <1>6, <1>7, <1>8

LEMMA QuietKeeps ==
  ASSUME RowsInv, Quiet
  PROVE  OneHolder' /\ Attended' /\ CancelledByRemoval' /\ ShownHasWriter' /\
         RedownloadIsKnown' /\ OneActivePerRelease'
<1> USE DEF RowsInv, Quiet, storeVars, bootVars
<1>1. OneHolder'
  BY DEF OneHolder, OneWriter, WriterHolds, TimerHolds, ListHolds, RequestsAlone, RequestHolds,
         NobodyAsleep, Unfinished, Active
<1>2. Attended'
  BY DEF Attended, Active, Covered, WillResume, Plain
<1>3. CancelledByRemoval'
  BY DEF CancelledByRemoval, Covered
<1>4. ShownHasWriter'
  BY DEF ShownHasWriter, Covered, WillResume
<1>5. RedownloadIsKnown'
  BY DEF RedownloadIsKnown, Active
<1>6. OneActivePerRelease'
  BY DEF OneActivePerRelease, Active
<1> QED  BY <1>1, <1>2, <1>3, <1>4, <1>5, <1>6

LEMMA EnterKeeps ==
  ASSUME RowsInv, OneAtATime, NEW r \in Runs, Enter(r), UNCHANGED rowVars
  PROVE  OneHolder' /\ Attended' /\ CancelledByRemoval' /\ ShownHasWriter' /\
         RedownloadIsKnown' /\ OneActivePerRelease'
<1> USE RowsAssumption, RunsAssumption DEF RowsInv, OneHolder
<1>1. OneWriter'
  BY DEF Writes, OneWriter, Enter, MoveTo, rowVars, workVars
<1>2. WriterHolds'
  BY DEF Writes, WriterHolds, Unfinished, Enter, MoveTo, rowVars, storeVars, workVars, bootVars
<1>3. TimerHolds'
  BY DEF RowShapes, TimerHolds, Unfinished, rowVars, storeVars, workVars, bootVars
<1>4. ListHolds'
  BY DEF RowShapes, ListHolds, Unfinished, rowVars, storeVars, bootVars
<1>5. RequestsAlone'
  BY DEF RequestsAlone, rowVars, bootVars
<1>6. RequestHolds'
  BY DEF RowShapes, Writes, Plain, RequestsAlone, RequestHolds, Active, Enter, MoveTo, rowVars,
         storeVars, workVars
<1>7. NobodyAsleep'
  BY DEF Writes, NobodyAsleep, Enter, rowVars, bootVars
<1>8. Attended'
  <2> SUFFICES ASSUME NEW e \in Plain, Active(e)', NEW s \in Runs, WillSettle(s, e)
               PROVE  WillSettle(s, e)'
    BY DEF Attended, Active, Covered, WillResume, rowVars, storeVars, workVars, bootVars
  <2>1. of[s] = e /\ Writes(s) /\ of' = of
    BY DEF WillSettle, Writes, Enter
  <2>2. s \notin cancelled' \/ s \in cancelled
    <3>1. CASE s # httpRuns[of[r]]
      BY <3>1 DEF Enter
    <3>2. CASE s = httpRuns[of[r]]
      <4>1. of[r] \in Downloads /\ s # NoRun
        BY DEF RowShapes
      <4>2. of[s] = of[r] /\ s # r
        BY <3>2, <4>1 DEF RunsInOrder, Enter
      <4>3. Writes(r)
        BY DEF Enter, Writes
      <4> QED  BY <2>1, <4>2, <4>3 DEF OneWriter
    <3> QED  BY <3>1, <3>2
  <2>3. pc' = [pc EXCEPT ![r] = "waiting"] /\ pc[r] = "starting" /\ doing' = doing
    BY DEF Enter, MoveTo, rowVars, workVars
  <2> QED  BY <2>1, <2>2, <2>3 DEF WillSettle
<1>9. CancelledByRemoval'
  BY DEF RowShapes, Writes, CancelledByRemoval, OneWriter, RunsInOrder, Covered, Enter, MoveTo,
         rowVars, storeVars, workVars
<1>10. ShownHasWriter'
  BY DEF RowShapes, Writes, Plain, ShownHasWriter, CancelledByRemoval, WriterHolds, Covered,
         WillResume, Statuses, Enter, MoveTo, rowVars, storeVars, workVars, bootVars
<1>11. RedownloadIsKnown'
  BY DEF RowShapes, Writes, Plain, RedownloadIsKnown, Active, Enter, MoveTo, rowVars, storeVars,
         workVars, bootVars
<1>12. OneActivePerRelease'
  BY DEF RowShapes, Writes, Plain, OneActivePerRelease, Active, rowVars, storeVars
<1> QED  BY <1>1, <1>2, <1>3, <1>4, <1>5, <1>6, <1>7, <1>8, <1>9, <1>10, <1>11, <1>12

LEMMA BeginKeeps ==
  ASSUME RowsInv, OneAtATime, NEW r \in Runs, Begin(r)
  PROVE  OneHolder' /\ Attended' /\ CancelledByRemoval' /\ ShownHasWriter' /\
         RedownloadIsKnown' /\ OneActivePerRelease'
<1> USE RowsAssumption, RunsAssumption DEF RowsInv, OneHolder
<1>1. OneWriter'
  BY DEF Writes, OneWriter, Begin, vars, runVars
<1>2. WriterHolds'
  BY DEF RowShapes, Writes, WriterHolds, Unfinished, Begin, Save, vars, runVars, bootVars
<1>3. TimerHolds'
  BY DEF RowShapes, Writes, TimerHolds, Unfinished, Begin, Save, bootVars
<1>4. ListHolds'
  BY DEF RowShapes, Writes, Plain, ListHolds, Unfinished, Begin, Save, bootVars
<1>5. RequestsAlone'
  BY DEF RequestsAlone, Begin, bootVars
<1>6. RequestHolds'
  BY DEF RowShapes, Writes, Plain, RequestsAlone, RequestHolds, WriterHolds, Unfinished, Active,
         Begin, Save, vars, runVars
<1>7. NobodyAsleep'
  BY DEF Writes, NobodyAsleep, Begin, bootVars
<1>8. Attended'
  BY DEF RowShapes, Writes, Plain, Attended, OneWriter, WriterHolds, TimerHolds,
         CancelledByRemoval, RunsInOrder, WillSettle, WillResume, Covered, Unfinished, Active,
         Statuses, Begin, Save, vars, runVars, bootVars
<1>9. CancelledByRemoval'
  BY DEF RowShapes, Writes, CancelledByRemoval, Covered, Begin, Save, vars, runVars
<1>10. ShownHasWriter'
  BY DEF RowShapes, Writes, Plain, ShownHasWriter, CancelledByRemoval, WriterHolds, TimerHolds,
         Covered, WillResume, Begin, Save, vars, runVars, bootVars
<1>11. RedownloadIsKnown'
  BY DEF RowShapes, Writes, Plain, RedownloadIsKnown, WriterHolds, Active, Begin, Save, vars,
         runVars, bootVars
<1>12. OneActivePerRelease'
  BY DEF RowShapes, Writes, Plain, OneActivePerRelease, WriterHolds, Unfinished, Active, Begin,
         Save
<1> QED  BY <1>1, <1>2, <1>3, <1>4, <1>5, <1>6, <1>7, <1>8, <1>9, <1>10, <1>11, <1>12

LEMMA ProgressKeeps ==
  ASSUME RowsInv, OneAtATime, NEW r \in Runs, Progress(r)
  PROVE  OneHolder' /\ Attended' /\ CancelledByRemoval' /\ ShownHasWriter' /\
         RedownloadIsKnown' /\ OneActivePerRelease'
<1> USE RowsAssumption, RunsAssumption DEF RowsInv, OneHolder
<1>1. OneWriter'
  BY DEF Writes, OneWriter, Progress, vars, runVars, workVars
<1>2. WriterHolds'
  BY DEF RowShapes, Writes, WriterHolds, Unfinished, Progress, Save, vars, runVars, workVars,
         bootVars
<1>3. TimerHolds'
  BY DEF RowShapes, Writes, Plain, TimerHolds, Unfinished, Progress, Save, workVars, bootVars
<1>4. ListHolds'
  BY DEF RowShapes, Writes, Plain, ListHolds, Unfinished, Progress, Save, bootVars
<1>5. RequestsAlone'
  BY DEF RequestsAlone, Progress, bootVars
<1>6. RequestHolds'
  BY DEF RowShapes, Writes, Plain, RequestsAlone, RequestHolds, WriterHolds, Unfinished, Active,
         Progress, Save, vars, runVars, workVars
<1>7. NobodyAsleep'
  BY DEF Writes, NobodyAsleep, Progress, bootVars
<1>8. Attended'
  BY DEF RowShapes, Writes, Plain, Attended, OneWriter, WriterHolds, TimerHolds,
         CancelledByRemoval, RunsInOrder, WillSettle, WillResume, Covered, Unfinished, Active,
         Statuses, Progress, Save, vars, runVars, workVars, bootVars
<1>9. CancelledByRemoval'
  BY DEF RowShapes, Writes, Plain, CancelledByRemoval, Covered, Progress, Save, vars, runVars,
         workVars
<1>10. ShownHasWriter'
  BY DEF RowShapes, Writes, Plain, ShownHasWriter, CancelledByRemoval, WriterHolds, TimerHolds,
         RunsInOrder, Covered, WillResume, Unfinished, Statuses, Progress, Save, vars, runVars,
         workVars, bootVars
<1>11. RedownloadIsKnown'
  BY DEF RowShapes, Writes, Plain, RedownloadIsKnown, WriterHolds, TimerHolds, Active, Progress,
         Save, vars, runVars, workVars, bootVars
<1>12. OneActivePerRelease'
  BY DEF RowShapes, Writes, Plain, OneActivePerRelease, WriterHolds, TimerHolds, Unfinished,
         Active, Progress, Save
<1> QED  BY <1>1, <1>2, <1>3, <1>4, <1>5, <1>6, <1>7, <1>8, <1>9, <1>10, <1>11, <1>12

LEMMA AbandonKeeps ==
  ASSUME RowsInv, OneAtATime, NEW r \in Runs, Abandon(r)
  PROVE  OneHolder' /\ Attended' /\ CancelledByRemoval' /\ ShownHasWriter' /\
         RedownloadIsKnown' /\ OneActivePerRelease'
<1> USE RowsAssumption, RunsAssumption DEF RowsInv, OneHolder
<1>1. OneWriter'
  BY DEF Writes, OneWriter, Abandon, vars, runVars
<1>2. WriterHolds'
  BY DEF RowShapes, Writes, WriterHolds, Unfinished, Abandon, vars, runVars, storeVars, bootVars
<1>3. TimerHolds'
  BY DEF RowShapes, Writes, TimerHolds, Unfinished, Abandon, storeVars, bootVars
<1>4. ListHolds'
  BY DEF RowShapes, Writes, ListHolds, Unfinished, Abandon, storeVars, bootVars
<1>5. RequestsAlone'
  BY DEF RequestsAlone, Abandon, bootVars
<1>6. RequestHolds'
  BY DEF RowShapes, Writes, Plain, RequestsAlone, RequestHolds, Active, Abandon, vars, runVars,
         storeVars
<1>7. NobodyAsleep'
  BY DEF Writes, NobodyAsleep, Abandon, bootVars
<1>8. Attended'
  <2>1. UNCHANGED <<storeVars, restarts, pc, of, cancelled, removal, boot, listed>>
    BY DEF Abandon, vars, runVars, bootVars
  <2>2. /\ r \in cancelled /\ doing[r] \in {"nothing", "transfer"}
        /\ \A s \in Runs \ {r} : doing'[s] = doing[s]
    BY DEF Abandon, RowShapes
  <2>3. \A s \in Runs, d \in Downloads : WillSettle(s, d) => WillSettle(s, d)'
    BY <2>1, <2>2 DEF WillSettle
  <2> QED  BY <2>1, <2>3 DEF Attended, Plain, Active, Covered, WillResume, storeVars
<1>9. CancelledByRemoval'
  BY DEF RowShapes, Writes, CancelledByRemoval, Covered, Abandon, vars, runVars, storeVars
<1>10. ShownHasWriter'
  BY DEF RowShapes, Writes, Plain, ShownHasWriter, CancelledByRemoval, WriterHolds, TimerHolds,
         RunsInOrder, Covered, WillResume, NotListed, Abandon, vars, runVars, storeVars,
         bootVars
<1>11. RedownloadIsKnown'
  BY DEF RowShapes, Writes, Plain, RedownloadIsKnown, WriterHolds, Active, Abandon, vars,
         runVars, storeVars, bootVars
<1>12. OneActivePerRelease'
  BY DEF RowShapes, Writes, Plain, OneActivePerRelease, WriterHolds, Active, Abandon, storeVars
<1> QED  BY <1>1, <1>2, <1>3, <1>4, <1>5, <1>6, <1>7, <1>8, <1>9, <1>10, <1>11, <1>12

LEMMA SettleKeeps ==
  ASSUME RowsInv, OneAtATime, NEW r \in Runs, Settle(r)
  PROVE  OneHolder' /\ Attended' /\ CancelledByRemoval' /\ ShownHasWriter' /\
         RedownloadIsKnown' /\ OneActivePerRelease'
<1> USE RowsAssumption, RunsAssumption DEF RowsInv, OneHolder
<1>1. OneWriter'
  BY DEF Writes, OneWriter, Settle, vars, runVars
<1>2. WriterHolds'
  BY DEF RowShapes, Writes, OneWriter, WriterHolds, Unfinished, Settle, Save, vars, runVars,
         bootVars
<1>3. TimerHolds'
  BY DEF RowShapes, Writes, WriterHolds, TimerHolds, Unfinished, Settle, Save, bootVars
<1>4. ListHolds'
  BY DEF RowShapes, Writes, Plain, WriterHolds, ListHolds, Unfinished, Settle, Save, bootVars
<1>5. RequestsAlone'
  BY DEF RequestsAlone, Settle, bootVars
<1>6. RequestHolds'
  BY DEF RowShapes, Writes, Plain, RequestsAlone, RequestHolds, Active, Settle, Save, vars,
         runVars
<1>7. NobodyAsleep'
  BY DEF Writes, NobodyAsleep, Settle, bootVars
<1>8. Attended'
  BY DEF RowShapes, Writes, Plain, Attended, OneWriter, WriterHolds, TimerHolds,
         CancelledByRemoval, RunsInOrder, WillSettle, WillResume, Covered, Unfinished, Active,
         NotListed, Statuses, Settle, Save, vars, runVars, editVars, bootVars
<1>9. CancelledByRemoval'
  BY DEF RowShapes, Writes, CancelledByRemoval, Covered, Settle, Save, vars, runVars
<1>10. ShownHasWriter'
  BY DEF RowShapes, Writes, Plain, ShownHasWriter, CancelledByRemoval, WriterHolds, Covered,
         WillResume, Settle, Save, vars, runVars, bootVars
<1>11. RedownloadIsKnown'
  BY DEF RowShapes, Writes, Plain, RedownloadIsKnown, WriterHolds, Active, Settle, Save, vars,
         runVars, bootVars
<1>12. OneActivePerRelease'
  BY DEF RowShapes, Writes, Plain, OneActivePerRelease, WriterHolds, Active, Settle, Save
<1> QED  BY <1>1, <1>2, <1>3, <1>4, <1>5, <1>6, <1>7, <1>8, <1>9, <1>10, <1>11, <1>12

LEMMA SettleUnsoundKeeps ==
  ASSUME RowsInv, OneAtATime, NEW r \in Runs, SettleUnsound(r)
  PROVE  OneHolder' /\ Attended' /\ CancelledByRemoval' /\ ShownHasWriter' /\
         RedownloadIsKnown' /\ OneActivePerRelease'
<1> USE RowsAssumption, RunsAssumption DEF RowsInv, OneHolder
<1>0. PICK d0 \in Downloads : d0 = of[r]
  BY DEF RowShapes
<1>a. /\ d0 = of[r] /\ Writes(r) /\ pc[r] = "working"
      /\ UNCHANGED <<pc, of, cancelled, again, request, removal, boot, listed>>
      /\ doing' = [doing EXCEPT ![r] = "over"]
  BY <1>0 DEF SettleUnsound, Writes, vars, runVars, bootVars
<1>b. /\ \A e \in Downloads \ {d0} : /\ status'[e] = status[e] /\ (e \in retried' <=> e \in retried)
                                     /\ (e \in restarts' <=> e \in restarts)
                                     /\ (e \in redone' <=> e \in redone)
      /\ status[d0] = "removed" => status'[d0] = "removed"
      /\ restarts \subseteq restarts'
  BY <1>a DEF SettleUnsound, Save, NoteRedownload, RowShapes
<1>d. \/ /\ status'[d0] \in {"failed", "removed"}
         /\ redone' = redone
      \/ /\ status'[d0] \in {"queued", "removed"} /\ d0 \in restarts'
         /\ status'[d0] = "queued" => d0 \in retried'
  BY <1>a DEF SettleUnsound, Save, NoteRedownload, RowShapes
<1>1. OneWriter'
  BY DEF Writes, OneWriter, SettleUnsound, vars, runVars
<1>2. WriterHolds'
  BY DEF RowShapes, Writes, OneWriter, WriterHolds, Unfinished, SettleUnsound, NoteRedownload,
         Save, vars, runVars, bootVars
<1>3. TimerHolds'
  BY DEF RowShapes, Writes, Plain, WriterHolds, TimerHolds, Unfinished, SettleUnsound,
         NoteRedownload, Save, editVars, bootVars
<1>4. ListHolds'
  BY DEF RowShapes, Writes, Plain, WriterHolds, ListHolds, Unfinished, SettleUnsound, Save,
         bootVars
<1>5. RequestsAlone'
  BY DEF RequestsAlone, SettleUnsound, bootVars
<1>6. RequestHolds'
  BY DEF RowShapes, Writes, Plain, RequestsAlone, RequestHolds, WriterHolds, Unfinished, Active,
         SettleUnsound, NoteRedownload, Save, vars, runVars
<1>7. NobodyAsleep'
  BY DEF Writes, NobodyAsleep, SettleUnsound, bootVars
<1>8. Attended'
  <2>1. \A s \in Runs, e \in Downloads \ {d0} : WillSettle(s, e) => WillSettle(s, e)'
    BY <1>a DEF WillSettle
  <2>2. \A e \in Downloads \ {d0} : (Active(e)' => Active(e)) /\ (e \in restarts => e \in restarts')
    BY <1>b DEF Active
  <2>3. \A e \in Downloads : (Covered(e) => Covered(e)') /\ (WillResume(e) => WillResume(e)')
    BY <1>a DEF Covered, WillResume
  <2>4. Active(d0)' => d0 \in restarts'
    BY <1>d DEF Active
  <2> QED  BY <2>1, <2>2, <2>3, <2>4 DEF Attended, Plain
<1>9. CancelledByRemoval'
  <2>1. \A s \in Runs : Writes(s)' => Writes(s) /\ s # r
    BY <1>a DEF Writes, RowShapes
  <2>2. \A e \in Downloads : (Covered(e) => Covered(e)') /\ (status[e] = "removed" => status'[e] = "removed")
    BY <1>a, <1>b DEF Covered
  <2> QED  BY <1>a, <2>1, <2>2 DEF CancelledByRemoval, Plain
<1>10. ShownHasWriter'
  BY DEF RowShapes, Writes, Plain, ShownHasWriter, CancelledByRemoval, WriterHolds, TimerHolds,
         RunsInOrder, Covered, WillResume, Unfinished, NotListed, Statuses, SettleUnsound, Save,
         vars, runVars, bootVars
<1>11. RedownloadIsKnown'
  <2>1. \A s \in Runs : Writes(s)' => Writes(s) /\ s # r
    BY <1>a DEF Writes, RowShapes
  <2>2. d0 \in Plain => \A s \in Runs : of[s] = d0 /\ Writes(s) => s = r
    BY <1>a DEF OneWriter
  <2>3. d0 \in Plain => listed[d0] = NotListed
    BY <1>a DEF WriterHolds
  <2>4. Active(d0)' => d0 \in retried'
    BY <1>d DEF Active
  <2> QED  BY <1>a, <1>b, <2>1, <2>2, <2>3, <2>4 DEF RedownloadIsKnown, Plain, Active
<1>12. OneActivePerRelease'
  BY DEF RowShapes, Writes, Plain, OneActivePerRelease, WriterHolds, TimerHolds, Unfinished,
         Active, SettleUnsound, Save
<1> QED  BY <1>1, <1>2, <1>3, <1>4, <1>5, <1>6, <1>7, <1>8, <1>9, <1>10, <1>11, <1>12

LEMMA CheckKeeps ==
  ASSUME RowsInv, OneAtATime, NEW q \in Requests, NEW d \in Downloads, Check(q, d)
  PROVE  OneHolder' /\ Attended' /\ CancelledByRemoval' /\ ShownHasWriter' /\
         RedownloadIsKnown' /\ OneActivePerRelease'
<1> USE RowsAssumption, RunsAssumption DEF RowsInv, OneHolder
<1>1. OneWriter'
  BY DEF Writes, OneWriter, Check, vars, runVars, workVars
<1>2. WriterHolds'
  BY DEF RowShapes, Writes, Plain, OneWriter, WriterHolds, Unfinished, Check, vars, runVars,
         storeVars, workVars, bootVars
<1>3. TimerHolds'
  BY DEF RowShapes, Writes, Plain, OneWriter, WriterHolds, TimerHolds, Unfinished, Check,
         storeVars, workVars, bootVars
<1>4. ListHolds'
  BY DEF RowShapes, Writes, Plain, WriterHolds, TimerHolds, ListHolds, Check, Calm, bootVars
<1>5. RequestsAlone'
  BY DEF RequestsAlone, Check, Calm, bootVars
<1>6. RequestHolds'
  BY DEF RowShapes, Writes, Plain, RequestsAlone, RequestHolds, WriterHolds, TimerHolds,
         ListHolds, Unfinished, Active, Check, Duplicate, vars, runVars, storeVars, workVars
<1>7. NobodyAsleep'
  BY DEF NobodyAsleep, Check, Calm, bootVars
<1>8. Attended'
  BY DEF RowShapes, Writes, Plain, Attended, OneWriter, WriterHolds, TimerHolds,
         CancelledByRemoval, RunsInOrder, WillSettle, WillResume, Covered, Unfinished, Active,
         Check, Calm, vars, slotVars, runVars, storeVars, workVars
<1>9. CancelledByRemoval'
  BY DEF RowShapes, Writes, Plain, CancelledByRemoval, OneWriter, WriterHolds, RunsInOrder,
         Covered, Check, vars, runVars, storeVars, workVars
<1>10. ShownHasWriter'
  BY DEF RowShapes, Writes, Plain, ShownHasWriter, CancelledByRemoval, WriterHolds, TimerHolds,
         RunsInOrder, Covered, WillResume, Unfinished, Statuses, Check, Calm, Duplicate, vars,
         runVars, storeVars, workVars
<1>11. RedownloadIsKnown'
  BY DEF RowShapes, Writes, Plain, RedownloadIsKnown, WriterHolds, TimerHolds, ListHolds,
         RunsInOrder, Active, Check, vars, runVars, storeVars, workVars, bootVars
<1>12. OneActivePerRelease'
  BY DEF RowShapes, Writes, Plain, OneActivePerRelease, WriterHolds, TimerHolds, ListHolds,
         RequestHolds, Active, Check, storeVars
<1> QED  BY <1>1, <1>2, <1>3, <1>4, <1>5, <1>6, <1>7, <1>8, <1>9, <1>10, <1>11, <1>12

LEMMA SubmitKeeps ==
  ASSUME RowsInv, OneAtATime, NEW q \in Requests, NEW r \in Runs, Submit(q, r)
  PROVE  OneHolder' /\ Attended' /\ CancelledByRemoval' /\ ShownHasWriter' /\
         RedownloadIsKnown' /\ OneActivePerRelease'
<1> USE RowsAssumption, RunsAssumption DEF RowsInv, OneHolder
<1>a. PICK d0 \in Downloads : d0 = request[q].of
  BY DEF RowShapes
<1>b. status' = [e \in Downloads |-> IF e = d0 /\ status[d0] # "removed" THEN "queued" ELSE status[e]]
  <2>1. Save(d0, "queued", FALSE)
    BY <1>a DEF Submit
  <2> QED  BY <2>1, SaveEffect
<1>c. /\ pc[r] = "idle" /\ pc' = [s \in Runs |-> IF s = r THEN "starting" ELSE pc[s]]
      /\ of' = [s \in Runs |-> IF s = r THEN d0 ELSE of[s]]
      /\ UNCHANGED <<cancelled, httpRuns>>
  <2>1. StartCopy(r, d0, FALSE)
    BY <1>a DEF Submit
  <2> QED  BY <2>1, StartEffect
<1>d. /\ Writes(r)' /\ ~Writes(r) /\ of'[r] = d0
      /\ \A s \in Runs \ {r} : Writes(s)' = Writes(s) /\ of'[s] = of[s]
  BY <1>c, NewWriter DEF Submit
<1>e. /\ request[q].step = "checked" /\ listed[d0] = NotListed
      /\ UNCHANGED <<restarts, listed>>
  BY <1>a DEF RequestsAlone, Submit, bootVars
<1>f. d0 \in Plain => /\ status[d0] \in {"none", "failed", "removed"} /\ d0 \notin restarts
                     /\ \A s \in Runs : ~(Writes(s) /\ of[s] = d0)
  BY <1>a, <1>e DEF RequestHolds
<1>1. OneWriter'
  BY <1>d, <1>f DEF OneWriter
<1>2. WriterHolds'
  <2>1. \A s \in Runs : of[s] \in Downloads
    BY DEF RowShapes
  <2>2. d0 \in Plain => Unfinished(d0)'
    BY <1>b, <1>f DEF Unfinished
  <2>3. \A e \in Downloads \ {d0} : status'[e] = status[e]
    BY <1>b
  <2> QED  BY <1>d, <1>e, <1>f, <2>1, <2>2, <2>3 DEF WriterHolds, Unfinished
<1>3. TimerHolds'
  BY <1>a, <1>b, <1>c DEF RowShapes, TimerHolds, Unfinished, Submit, bootVars
<1>4. ListHolds'
  BY <1>a, <1>b, <1>c DEF Plain, ListHolds, Unfinished, Submit, bootVars
<1>5. RequestsAlone'
  BY <1>a, <1>b, <1>c DEF RowShapes, RequestsAlone, Submit
<1>6. RequestHolds'
  BY <1>a, <1>b, <1>c DEF RowShapes, RequestsAlone, RequestHolds, Submit
<1>7. NobodyAsleep'
  BY <1>a, <1>b, <1>c DEF NobodyAsleep, Submit, bootVars
<1>8. Attended'
  <2>1. WillSettle(r, d0)'
    BY <1>a, <1>c DEF WillSettle, RunsInOrder
  <2>2. \A s \in Runs, e \in Downloads : WillSettle(s, e) => WillSettle(s, e)'
    BY <1>c DEF WillSettle, Submit
  <2>3. \A e \in Downloads \ {d0} :
          /\ Active(e)' => Active(e) /\ (e \in restarts => e \in restarts')
          /\ (Covered(e) => Covered(e)') /\ (WillResume(e) => WillResume(e)')
    BY <1>b DEF Active, Covered, WillResume, Submit, bootVars
  <2> QED  BY <1>a, <2>1, <2>2, <2>3 DEF Attended, Plain
<1>9. CancelledByRemoval'
  BY <1>a, <1>b, <1>c DEF RowShapes, Writes, CancelledByRemoval, RunsInOrder, Covered, Submit
<1>10. ShownHasWriter'
  BY <1>a, <1>b, <1>c
     DEF RowShapes, Writes, Plain, ShownHasWriter, CancelledByRemoval, Covered, WillResume,
         Unfinished, NotListed, Submit, bootVars
<1>11. RedownloadIsKnown'
  BY <1>a, <1>b, <1>c
     DEF RowShapes, Writes, Plain, RedownloadIsKnown, WriterHolds, Active, Submit, Save,
         StartCopy, bootVars
<1>12. OneActivePerRelease'
  BY <1>a, <1>b, <1>c DEF Plain, OneActivePerRelease, RequestHolds, Active, Siblings, Submit
<1> QED  BY <1>1, <1>2, <1>3, <1>4, <1>5, <1>6, <1>7, <1>8, <1>9, <1>10, <1>11, <1>12

LEMMA RedownloadKeeps ==
  ASSUME RowsInv, OneAtATime, NEW d \in Downloads, NEW r \in Runs, Redownload(d, r)
  PROVE  OneHolder' /\ Attended' /\ CancelledByRemoval' /\ ShownHasWriter' /\
         RedownloadIsKnown' /\ OneActivePerRelease'
<1> USE RowsAssumption, RunsAssumption DEF RowsInv, OneHolder
<1>b. UNCHANGED <<status, retried>>
  BY DEF Redownload, storeVars
<1>c. /\ pc[r] = "idle" /\ pc' = [s \in Runs |-> IF s = r THEN "starting" ELSE pc[s]]
      /\ of' = [s \in Runs |-> IF s = r THEN d ELSE of[s]]
      /\ UNCHANGED <<cancelled, httpRuns>>
  BY StartEffect DEF Redownload
<1>d. /\ Writes(r)' /\ ~Writes(r) /\ of'[r] = d
      /\ \A s \in Runs \ {r} : Writes(s)' = Writes(s) /\ of'[s] = of[s]
  BY <1>c, NewWriter DEF Redownload
<1>e. d \in restarts /\ restarts' = restarts \ {d} /\ UNCHANGED listed
  BY DEF Redownload, bootVars
<1>f. d \in Plain => /\ Unfinished(d) /\ listed[d] = NotListed
                    /\ \A s \in Runs : ~(Writes(s) /\ of[s] = d)
  BY <1>e DEF TimerHolds, WriterHolds
<1>1. OneWriter'
  BY <1>d, <1>f DEF OneWriter
<1>2. WriterHolds'
  <2>1. \A s \in Runs : of[s] \in Downloads
    BY DEF RowShapes
  <2> QED  BY <1>b, <1>d, <1>e, <1>f, <2>1 DEF WriterHolds, Unfinished
<1>3. TimerHolds'
  BY <1>b, <1>c DEF TimerHolds, Unfinished, Redownload, bootVars
<1>4. ListHolds'
  BY <1>b, <1>c DEF ListHolds, Unfinished, Redownload, bootVars
<1>5. RequestsAlone'
  BY <1>b, <1>c DEF RequestsAlone, Redownload, bootVars
<1>6. RequestHolds'
  BY <1>b, <1>c DEF RowShapes, Writes, RequestHolds, Active, Redownload
<1>7. NobodyAsleep'
  BY <1>b, <1>c DEF NobodyAsleep, Redownload, bootVars
<1>8. Attended'
  <2>1. WillSettle(r, d)'
    BY <1>c DEF WillSettle, RunsInOrder
  <2>2. \A s \in Runs, e \in Downloads : WillSettle(s, e) => WillSettle(s, e)'
    BY <1>c DEF WillSettle, Redownload
  <2>3. \A e \in Downloads \ {d} :
          /\ Active(e)' => Active(e) /\ (e \in restarts => e \in restarts')
          /\ (Covered(e) => Covered(e)') /\ (WillResume(e) => WillResume(e)')
    BY <1>b DEF Active, Covered, WillResume, Redownload, bootVars
  <2> QED  BY <2>1, <2>2, <2>3 DEF Attended, Plain
<1>9. CancelledByRemoval'
  BY <1>b, <1>c DEF Writes, CancelledByRemoval, RunsInOrder, Covered, Redownload
<1>10. ShownHasWriter'
  BY <1>b, <1>c
     DEF RowShapes, Writes, Plain, ShownHasWriter, Covered, WillResume, Statuses, Redownload,
         bootVars
<1>11. RedownloadIsKnown'
  BY <1>b, <1>c
     DEF RowShapes, Writes, Plain, RedownloadIsKnown, WriterHolds, Active, Redownload,
         StartCopy, storeVars, bootVars
<1>12. OneActivePerRelease'
  BY <1>b, <1>c DEF RowShapes, OneActivePerRelease, Active
<1> QED  BY <1>1, <1>2, <1>3, <1>4, <1>5, <1>6, <1>7, <1>8, <1>9, <1>10, <1>11, <1>12

LEMMA ResumeKeeps ==
  ASSUME RowsInv, OneAtATime, NEW d \in Downloads, NEW r \in Runs, Resume(d, r)
  PROVE  OneHolder' /\ Attended' /\ CancelledByRemoval' /\ ShownHasWriter' /\
         RedownloadIsKnown' /\ OneActivePerRelease'
<1> USE RowsAssumption, RunsAssumption DEF RowsInv, OneHolder
<1>b. status' = [e \in Downloads |-> IF e = d /\ status[d] # "removed" THEN "queued" ELSE status[e]]
  <2>1. listed[d].retried \in BOOLEAN
    BY DEF RowShapes
  <2> QED  BY <2>1, SaveEffect DEF Resume
<1>c. /\ pc[r] = "idle" /\ pc' = [s \in Runs |-> IF s = r THEN "starting" ELSE pc[s]]
      /\ of' = [s \in Runs |-> IF s = r THEN d ELSE of[s]]
      /\ UNCHANGED <<cancelled, httpRuns>>
  <2>1. listed[d].retried \in BOOLEAN
    BY DEF RowShapes
  <2> QED  BY <2>1, StartEffect DEF Resume
<1>d. /\ Writes(r)' /\ ~Writes(r) /\ of'[r] = d
      /\ \A s \in Runs \ {r} : Writes(s)' = Writes(s) /\ of'[s] = of[s]
  BY <1>c, NewWriter DEF Resume
<1>e. listed[d] # NotListed /\ listed' = [listed EXCEPT ![d] = NotListed] /\ UNCHANGED restarts
  BY DEF Resume
<1>f. d \in Plain => /\ Unfinished(d) /\ d \notin restarts
                    /\ \A s \in Runs : ~(Writes(s) /\ of[s] = d)
  BY <1>e DEF TimerHolds, WriterHolds, ListHolds
<1>1. OneWriter'
  BY <1>d, <1>f DEF OneWriter
<1>2. WriterHolds'
  <2>1. (\A s \in Runs : of[s] \in Downloads) /\ DOMAIN listed = Downloads
    BY DEF RowShapes
  <2>2. d \in Plain => Unfinished(d)'
    BY <1>b, <1>f DEF Unfinished
  <2>3. \A e \in Downloads \ {d} : status'[e] = status[e]
    BY <1>b
  <2> QED  BY <1>d, <1>e, <1>f, <2>1, <2>2, <2>3 DEF WriterHolds, Unfinished
<1>3. TimerHolds'
  BY <1>b, <1>c DEF RowShapes, TimerHolds, Unfinished, Resume
<1>4. ListHolds'
  BY <1>b, <1>c DEF Plain, ListHolds, Unfinished, Resume
<1>5. RequestsAlone'
  BY <1>b, <1>c DEF RequestsAlone, Resume
<1>6. RequestHolds'
  BY <1>b, <1>c DEF RequestsAlone, RequestHolds, Resume
<1>7. NobodyAsleep'
  BY <1>b, <1>c DEF NobodyAsleep, Resume
<1>8. Attended'
  <2>1. WillSettle(r, d)'
    BY <1>c DEF WillSettle, RunsInOrder
  <2>2. \A s \in Runs, e \in Downloads : WillSettle(s, e) => WillSettle(s, e)'
    BY <1>c DEF WillSettle, Resume
  <2>3. \A e \in Downloads \ {d} :
          /\ Active(e)' => Active(e) /\ (e \in restarts => e \in restarts')
          /\ (Covered(e) => Covered(e)') /\ (WillResume(e) => WillResume(e)')
    BY <1>b DEF Active, Covered, WillResume, Resume
  <2> QED  BY <2>1, <2>2, <2>3 DEF Attended, Plain
<1>9. CancelledByRemoval'
  BY <1>b, <1>c DEF RowShapes, Writes, CancelledByRemoval, RunsInOrder, Covered, Resume
<1>10. ShownHasWriter'
  <2>1. \A e \in Downloads : status'[e] = "downloading" =>
          e # d /\ status[e] = "downloading" /\ (WillResume(e) => WillResume(e)')
    BY <1>b DEF WillResume, Resume
  <2>2. \A s \in Runs : pc[s] = "working" /\ doing[s] # "over" =>
          of'[s] = of[s] /\ pc'[s] = "working" /\ doing'[s] # "over"
    BY <1>c DEF Resume
  <2>3. \A e \in Downloads : Covered(e) => Covered(e)'
    BY DEF Covered, Resume
  <2> QED  BY <2>1, <2>2, <2>3 DEF ShownHasWriter, Plain
<1>11. RedownloadIsKnown'
  BY <1>b, <1>c DEF RowShapes, Writes, Plain, RedownloadIsKnown, Active, Resume, Save, StartCopy
<1>12. OneActivePerRelease'
  BY <1>b, <1>c DEF Plain, OneActivePerRelease, ListHolds, Unfinished, Active, Resume
<1> QED  BY <1>1, <1>2, <1>3, <1>4, <1>5, <1>6, <1>7, <1>8, <1>9, <1>10, <1>11, <1>12

LEMMA FallBackKeeps ==
  ASSUME RowsInv, OneAtATime, NEW d \in Downloads, FallBack(d)
  PROVE  OneHolder' /\ Attended' /\ CancelledByRemoval' /\ ShownHasWriter' /\
         RedownloadIsKnown' /\ OneActivePerRelease'
<1> USE RowsAssumption, RunsAssumption DEF RowsInv, OneHolder
<1>1. OneWriter'
  BY DEF Writes, OneWriter, FallBack, vars, runVars
<1>2. WriterHolds'
  BY DEF RowShapes, Writes, Plain, WriterHolds, Unfinished, FallBack, Save, vars, runVars,
         bootVars
<1>3. TimerHolds'
  BY DEF RowShapes, Writes, Plain, TimerHolds, Unfinished, FallBack, Save, bootVars
<1>4. ListHolds'
  BY DEF RowShapes, Writes, Plain, ListHolds, Unfinished, FallBack, Save, bootVars
<1>5. RequestsAlone'
  BY DEF RequestsAlone, FallBack, bootVars
<1>6. RequestHolds'
  BY DEF RowShapes, Writes, Plain, RequestsAlone, RequestHolds, Active, FallBack, Save, vars,
         runVars
<1>7. NobodyAsleep'
  BY DEF Writes, NobodyAsleep, FallBack, vars, runVars, bootVars
<1>8. Attended'
  BY DEF RowShapes, Writes, Plain, Attended, OneWriter, WriterHolds, TimerHolds,
         CancelledByRemoval, RunsInOrder, WillSettle, WillResume, Covered, Unfinished, Active,
         NotListed, Statuses, FallBack, Save, vars, runVars, bootVars
<1>9. CancelledByRemoval'
  BY DEF RowShapes, Writes, CancelledByRemoval, Covered, FallBack, Save, vars, runVars
<1>10. ShownHasWriter'
  <2>1. \A e \in Downloads : status'[e] = "downloading" => status[e] = "downloading"
    BY DEF RowShapes, FallBack, Save
  <2>2. UNCHANGED <<of, pc, doing, removal, boot, listed>>
    BY DEF FallBack, vars, runVars, bootVars
  <2> QED  BY <2>1, <2>2 DEF ShownHasWriter, Covered, WillResume, Plain
<1>11. RedownloadIsKnown'
  BY DEF RowShapes, Writes, Plain, RedownloadIsKnown, WriterHolds, Active, FallBack, Save, vars,
         runVars, bootVars
<1>12. OneActivePerRelease'
  BY DEF RowShapes, Writes, Plain, OneActivePerRelease, WriterHolds, Active, FallBack, Save
<1> QED  BY <1>1, <1>2, <1>3, <1>4, <1>5, <1>6, <1>7, <1>8, <1>9, <1>10, <1>11, <1>12

LEMMA RemoveDownloadKeeps ==
  ASSUME RowsInv, OneAtATime, NEW x \in Removals, NEW d \in Downloads, RemoveDownload(x, d)
  PROVE  OneHolder' /\ Attended' /\ CancelledByRemoval' /\ ShownHasWriter' /\
         RedownloadIsKnown' /\ OneActivePerRelease'
<1> USE RowsAssumption, RunsAssumption DEF RowsInv, OneHolder
<1>a. \A e \in Downloads : Covered(e) => Covered(e)'
  BY DEF Covered, RemoveDownload
<1>b. /\ UNCHANGED <<storeVars, restarts, pc, of, doing, boot, listed>>
      /\ cancelled' = cancelled \/ (httpRuns[d] # NoRun /\ cancelled' = cancelled \cup {httpRuns[d]})
      /\ Covered(d)'
  BY DEF RemoveDownload, Cancel, Covered, RowShapes, vars, runVars, workVars, bootVars
<1>c. \A s \in Runs : s \in cancelled' \ cancelled => of[s] = d
  BY <1>b DEF RunsInOrder
<1>1. OneWriter'
  BY DEF Writes, OneWriter, RemoveDownload, Cancel, vars, runVars, workVars
<1>2. WriterHolds'
  BY DEF RowShapes, Writes, Plain, WriterHolds, Unfinished, RemoveDownload, Cancel, vars,
         runVars, storeVars, workVars, bootVars
<1>3. TimerHolds'
  BY DEF RowShapes, Writes, Plain, OneWriter, TimerHolds, Unfinished, RemoveDownload, storeVars,
         workVars, bootVars
<1>4. ListHolds'
  BY DEF RowShapes, Writes, Plain, WriterHolds, ListHolds, Unfinished, RemoveDownload,
         storeVars, bootVars
<1>5. RequestsAlone'
  BY DEF RequestsAlone, RemoveDownload, bootVars
<1>6. RequestHolds'
  BY DEF RowShapes, Writes, Plain, RequestsAlone, RequestHolds, WriterHolds, TimerHolds, Active,
         RemoveDownload, Cancel, vars, runVars, storeVars, workVars
<1>7. NobodyAsleep'
  BY DEF Writes, NobodyAsleep, RemoveDownload, Cancel, vars, runVars, workVars, bootVars
<1>8. Attended'
  <2>1. \A s \in Runs, e \in Downloads \ {d} : WillSettle(s, e) => WillSettle(s, e)'
    BY <1>b, <1>c DEF WillSettle
  <2> QED  BY <1>a, <1>b, <2>1 DEF Attended, Plain, Active, WillResume, storeVars
<1>9. CancelledByRemoval'
  <2>1. \A s \in Runs : Writes(s)' => Writes(s)
    BY <1>b DEF Writes
  <2> QED  BY <1>a, <1>b, <1>c, <2>1 DEF CancelledByRemoval, Plain, storeVars
<1>10. ShownHasWriter'
  <2>1. \A e \in Downloads : WillResume(e)' = WillResume(e)
    BY <1>b DEF WillResume, storeVars
  <2> QED  BY <1>a, <1>b, <2>1 DEF ShownHasWriter, Plain, storeVars
<1>11. RedownloadIsKnown'
  BY DEF RowShapes, Writes, Plain, RedownloadIsKnown, WriterHolds, TimerHolds, ListHolds,
         Active, RemoveDownload, Cancel, vars, runVars, storeVars, workVars, bootVars
<1>12. OneActivePerRelease'
  BY DEF RowShapes, Writes, Plain, OneActivePerRelease, WriterHolds, TimerHolds, ListHolds,
         Active, RemoveDownload, storeVars
<1> QED  BY <1>1, <1>2, <1>3, <1>4, <1>5, <1>6, <1>7, <1>8, <1>9, <1>10, <1>11, <1>12

LEMMA RunIsDoneKeeps ==
  ASSUME RowsInv, OneAtATime, NEW x \in Removals, RunIsDone(x)
  PROVE  OneHolder' /\ Attended' /\ CancelledByRemoval' /\ ShownHasWriter' /\
         RedownloadIsKnown' /\ OneActivePerRelease'
<1> USE RowsAssumption, RunsAssumption DEF RowsInv, OneHolder
<1>a. \A e \in Downloads : Covered(e) => Covered(e)'
  BY DEF Covered, RunIsDone
<1>1. OneWriter'
  BY DEF Writes, OneWriter, RunIsDone, vars, runVars, workVars
<1>2. WriterHolds'
  BY DEF RowShapes, Writes, WriterHolds, Unfinished, RunIsDone, vars, runVars, storeVars,
         workVars, bootVars
<1>3. TimerHolds'
  BY DEF RowShapes, Writes, Plain, TimerHolds, Unfinished, RunIsDone, storeVars, workVars,
         bootVars
<1>4. ListHolds'
  BY DEF RowShapes, Writes, Plain, ListHolds, Unfinished, RunIsDone, storeVars, bootVars
<1>5. RequestsAlone'
  BY DEF RequestsAlone, RunIsDone, bootVars
<1>6. RequestHolds'
  BY DEF RowShapes, Writes, Plain, RequestsAlone, RequestHolds, WriterHolds, Active, RunIsDone,
         vars, runVars, storeVars, workVars
<1>7. NobodyAsleep'
  BY DEF Writes, NobodyAsleep, RunIsDone, vars, runVars, workVars, bootVars
<1>8. Attended'
  BY DEF RowShapes, Writes, Plain, Attended, OneWriter, WriterHolds, TimerHolds,
         CancelledByRemoval, RunsInOrder, WillSettle, WillResume, Covered, Unfinished, Active,
         NotListed, RunIsDone, vars, slotVars, runVars, storeVars, workVars, bootVars
<1>9. CancelledByRemoval'
  BY DEF RowShapes, Writes, Plain, CancelledByRemoval, Covered, RunIsDone, vars, runVars,
         storeVars, workVars
<1>10. ShownHasWriter'
  BY <1>a
     DEF ShownHasWriter, Plain, WillResume, RunIsDone, vars, runVars, storeVars, workVars,
         bootVars
<1>11. RedownloadIsKnown'
  BY DEF RowShapes, Writes, Plain, RedownloadIsKnown, WriterHolds, TimerHolds, Active,
         RunIsDone, vars, runVars, storeVars, workVars, bootVars
<1>12. OneActivePerRelease'
  BY DEF RowShapes, Writes, Plain, OneActivePerRelease, WriterHolds, TimerHolds, Active,
         RunIsDone, storeVars
<1> QED  BY <1>1, <1>2, <1>3, <1>4, <1>5, <1>6, <1>7, <1>8, <1>9, <1>10, <1>11, <1>12

LEMMA RemoveFailsKeeps ==
  ASSUME RowsInv, OneAtATime, NEW x \in Removals, RemoveFails(x)
  PROVE  OneHolder' /\ Attended' /\ CancelledByRemoval' /\ ShownHasWriter' /\
         RedownloadIsKnown' /\ OneActivePerRelease'
<1> USE RowsAssumption, RunsAssumption DEF RowsInv, OneHolder
<1>1. OneWriter'
  BY DEF Writes, OneWriter, RemoveFails, vars, runVars, workVars
<1>2. WriterHolds'
  BY DEF RowShapes, Writes, WriterHolds, Unfinished, RemoveFails, vars, runVars, storeVars,
         workVars, bootVars
<1>3. TimerHolds'
  BY DEF RowShapes, Writes, Plain, TimerHolds, Unfinished, RemoveFails, storeVars, workVars,
         bootVars
<1>4. ListHolds'
  BY DEF RowShapes, Writes, Plain, ListHolds, Unfinished, RemoveFails, storeVars, bootVars
<1>5. RequestsAlone'
  BY DEF RequestsAlone, RemoveFails, bootVars
<1>6. RequestHolds'
  BY DEF RowShapes, Writes, Plain, RequestsAlone, RequestHolds, WriterHolds, Active,
         RemoveFails, vars, runVars, storeVars, workVars
<1>7. NobodyAsleep'
  BY DEF Writes, NobodyAsleep, RemoveFails, vars, runVars, workVars, bootVars
<1>8. Attended'
  BY DEF RowShapes, Writes, Plain, Attended, OneWriter, WriterHolds, TimerHolds,
         CancelledByRemoval, RunsInOrder, WillSettle, WillResume, Covered, Active, Statuses,
         RemoveFails, vars, slotVars, runVars, editVars, storeVars, workVars, bootVars
<1>9. CancelledByRemoval'
  BY DEF RowShapes, Writes, Plain, CancelledByRemoval, Covered, RemoveFails, vars, runVars,
         storeVars, workVars
<1>10. ShownHasWriter'
  BY DEF RowShapes, Writes, Plain, ShownHasWriter, CancelledByRemoval, WriterHolds, TimerHolds,
         Covered, WillResume, RemoveFails, vars, runVars, storeVars, workVars, bootVars
<1>11. RedownloadIsKnown'
  BY DEF RowShapes, Writes, Plain, RedownloadIsKnown, WriterHolds, TimerHolds, Active,
         RemoveFails, vars, runVars, storeVars, workVars, bootVars
<1>12. OneActivePerRelease'
  BY DEF RowShapes, Writes, Plain, OneActivePerRelease, WriterHolds, TimerHolds, Active,
         RemoveFails, storeVars
<1> QED  BY <1>1, <1>2, <1>3, <1>4, <1>5, <1>6, <1>7, <1>8, <1>9, <1>10, <1>11, <1>12

LEMMA DeleteRowsKeeps ==
  ASSUME RowsInv, OneAtATime, NEW x \in Removals, DeleteRows(x)
  PROVE  OneHolder' /\ Attended' /\ CancelledByRemoval' /\ ShownHasWriter' /\
         RedownloadIsKnown' /\ OneActivePerRelease'
<1> USE RowsAssumption, RunsAssumption DEF RowsInv, OneHolder
<1>1. OneWriter'
  BY DEF Writes, OneWriter, DeleteRows, vars, runVars, workVars
<1>2. WriterHolds'
  BY DEF RowShapes, Writes, WriterHolds, Unfinished, DeleteRows, vars, runVars, workVars,
         bootVars
<1>3. TimerHolds'
  BY DEF RowShapes, Writes, Plain, TimerHolds, Unfinished, DeleteRows, workVars, bootVars
<1>4. ListHolds'
  BY DEF RowShapes, Writes, Plain, ListHolds, Unfinished, DeleteRows, bootVars
<1>5. RequestsAlone'
  BY DEF RequestsAlone, DeleteRows, bootVars
<1>6. RequestHolds'
  BY DEF RowShapes, Writes, Plain, RequestsAlone, RequestHolds, WriterHolds, Active, DeleteRows,
         vars, runVars, workVars
<1>7. NobodyAsleep'
  BY DEF Writes, NobodyAsleep, DeleteRows, vars, runVars, workVars, bootVars
<1>8. Attended'
  BY DEF RowShapes, Writes, Plain, Attended, OneWriter, WriterHolds, TimerHolds,
         CancelledByRemoval, RunsInOrder, WillSettle, WillResume, Covered, Active, Siblings,
         DeleteRows, Exists, vars, slotVars, runVars, workVars, bootVars
<1>9. CancelledByRemoval'
  BY DEF RowShapes, Writes, Plain, CancelledByRemoval, WriterHolds, Covered, Unfinished,
         Siblings, DeleteRows, Exists, vars, slotVars, runVars, editVars, workVars, bootVars
<1>10. ShownHasWriter'
  BY DEF RowShapes, Writes, Plain, ShownHasWriter, CancelledByRemoval, WriterHolds, TimerHolds,
         RunsInOrder, Covered, WillResume, Siblings, NotListed, DeleteRows, Exists, vars,
         runVars, workVars, bootVars
<1>11. RedownloadIsKnown'
  BY DEF RowShapes, Writes, Plain, RedownloadIsKnown, WriterHolds, TimerHolds, Active,
         DeleteRows, Exists, vars, runVars, workVars, bootVars
<1>12. OneActivePerRelease'
  BY DEF RowShapes, Writes, Plain, OneActivePerRelease, WriterHolds, TimerHolds, Active,
         DeleteRows
<1> QED  BY <1>1, <1>2, <1>3, <1>4, <1>5, <1>6, <1>7, <1>8, <1>9, <1>10, <1>11, <1>12

LEMMA CrashKeeps ==
  ASSUME RowsInv, OneAtATime, Crash
  PROVE  OneHolder' /\ Attended' /\ CancelledByRemoval' /\ ShownHasWriter' /\
         RedownloadIsKnown' /\ OneActivePerRelease'
<1> USE RowsAssumption, RunsAssumption DEF RowsInv, OneHolder
<1>1. OneWriter'
  BY DEF Writes, OneWriter, Crash
<1>2. WriterHolds'
  BY DEF Writes, WriterHolds, Crash
<1>3. TimerHolds'
  BY DEF TimerHolds, Crash
<1>4. ListHolds'
  BY DEF Plain, ListHolds, Crash
<1>5. RequestsAlone'
  BY DEF RequestsAlone, Crash
<1>6. RequestHolds'
  BY DEF RowShapes, RequestHolds, Crash
<1>7. NobodyAsleep'
  BY DEF Writes, NobodyAsleep, Crash
<1>8. Attended'
  BY DEF RowShapes, Writes, Plain, Attended, OneWriter, WillResume, Crash
<1>9. CancelledByRemoval'
  BY DEF CancelledByRemoval, Crash
<1>10. ShownHasWriter'
  BY DEF RowShapes, Writes, ShownHasWriter, WillResume, Crash
<1>11. RedownloadIsKnown'
  BY DEF RowShapes, Writes, Plain, RedownloadIsKnown, Active, Crash, storeVars
<1>12. OneActivePerRelease'
  BY DEF RowShapes, OneActivePerRelease, Active, Crash, storeVars
<1> QED  BY <1>1, <1>2, <1>3, <1>4, <1>5, <1>6, <1>7, <1>8, <1>9, <1>10, <1>11, <1>12

LEMMA ListRowsKeeps ==
  ASSUME RowsInv, OneAtATime, ListRows
  PROVE  OneHolder' /\ Attended' /\ CancelledByRemoval' /\ ShownHasWriter' /\
         RedownloadIsKnown' /\ OneActivePerRelease'
<1> USE RowsAssumption, RunsAssumption DEF RowsInv, OneHolder
<1>a. UNCHANGED <<pc, of, doing, cancelled, restarts, request>> /\ boot = "sleeping"
  BY DEF ListRows, vars, runVars, workVars
<1>b. \A s \in Runs : ~Writes(s)'
  BY <1>a DEF NobodyAsleep, Writes
<1>c. restarts' = {} /\ \A q \in Requests : request'[q].step # "checked"
  BY <1>a DEF NobodyAsleep
<1>1. OneWriter'
  BY <1>b DEF OneWriter
<1>2. WriterHolds'
  BY <1>b DEF WriterHolds
<1>3. TimerHolds'
  BY <1>c DEF TimerHolds
<1>4. ListHolds'
  BY DEF RowShapes, Writes, Plain, WriterHolds, ListHolds, Unfinished, Active, ListRows,
         storeVars
<1>5. RequestsAlone'
  BY <1>c DEF RequestsAlone
<1>6. RequestHolds'
  BY <1>c DEF RequestHolds
<1>7. NobodyAsleep'
  BY DEF NobodyAsleep, ListRows
<1>8. Attended'
  BY DEF RowShapes, Writes, Plain, Attended, OneWriter, WriterHolds, TimerHolds,
         CancelledByRemoval, RunsInOrder, WillSettle, WillResume, Active, NotListed, ListRows,
         Listing, storeVars
<1>9. CancelledByRemoval'
  BY DEF RowShapes, Writes, Plain, CancelledByRemoval, Covered, ListRows, vars, runVars,
         storeVars, workVars
<1>10. ShownHasWriter'
  BY DEF RowShapes, Writes, Plain, ShownHasWriter, CancelledByRemoval, WriterHolds, TimerHolds,
         RunsInOrder, WillResume, Active, NotListed, ListRows, Listing, storeVars
<1>11. RedownloadIsKnown'
  BY DEF RowShapes, Writes, Plain, RedownloadIsKnown, WriterHolds, TimerHolds, Active,
         NotListed, Statuses, ListRows, Listing, vars, slotVars, runVars, editVars, storeVars,
         workVars
<1>12. OneActivePerRelease'
  BY DEF RowShapes, Writes, Plain, OneActivePerRelease, WriterHolds, TimerHolds, Active,
         ListRows, storeVars
<1> QED  BY <1>1, <1>2, <1>3, <1>4, <1>5, <1>6, <1>7, <1>8, <1>9, <1>10, <1>11, <1>12
-----------------------------------------------------------------------------
LEMMA RowsInitially == InitRows => RowsInv
<1> SUFFICES ASSUME InitRows  PROVE RowsInv
  OBVIOUS
<1>1. (CHOOSE d \in Downloads : TRUE) \in Downloads
  BY RowsAssumption
<1>2. RowShapes /\ RunsInOrder
  BY <1>1 DEF InitRows, Init, RowShapes, RunsInOrder, Statuses, Steps, Doings, NotListed
<1>3. \A r \in Runs : ~Writes(r)
  BY DEF InitRows, Init, Writes
<1>4. \A d \in Downloads : ~Active(d) /\ listed[d] = NotListed
  BY DEF InitRows, Active
<1>5. \A q \in Requests : request[q].step # "checked"
  BY DEF InitRows
<1>6. OneHolder
  BY <1>3, <1>4, <1>5
     DEF InitRows, OneHolder, OneWriter, WriterHolds, TimerHolds, ListHolds, RequestsAlone,
         RequestHolds,
     NobodyAsleep, Plain
<1>7. Attended /\ CancelledByRemoval /\ ShownHasWriter /\ RedownloadIsKnown /\ OneActivePerRelease
  BY <1>3, <1>4
     DEF InitRows, Attended, CancelledByRemoval, ShownHasWriter, RedownloadIsKnown,
         OneActivePerRelease, Plain
<1> QED  BY <1>2, <1>6, <1>7 DEF RowsInv

LEMMA RowsStep ==
  ASSUME RowsInv, [NextRows]_allVars, OneAtATime
  PROVE  RowsInv'
<1> DEFINE Parts == OneHolder /\ Attended /\ CancelledByRemoval /\ ShownHasWriter /\ RedownloadIsKnown
                     /\ OneActivePerRelease
<1>1. ASSUME NEW r \in Runs, RunStep(r)  PROVE Parts'
  <2>1. CASE Quiet
    BY <2>1, QuietKeeps
  <2>2. CASE Enter(r) /\ UNCHANGED rowVars
    BY <2>2, EnterKeeps
  <2>3. CASE Begin(r)
    BY <2>3, BeginKeeps
  <2>4. CASE Progress(r)
    BY <2>4, ProgressKeeps
  <2>5. CASE Abandon(r)
    BY <2>5, AbandonKeeps
  <2>6. CASE Settle(r)
    BY <2>6, SettleKeeps
  <2>7. CASE SettleUnsound(r)
    BY <2>7, SettleUnsoundKeeps
  <2> HIDE DEF Parts
  <2> QED  BY <1>1, <2>1, <2>2, <2>3, <2>4, <2>5, <2>6, <2>7, QuietSteps DEF RunStep, SlotStep
<1>2. ASSUME NEW q \in Requests, (\E d \in Downloads : Check(q, d)) \/ (\E r \in Runs : Submit(q, r))
      PROVE  Parts'
  BY <1>2, CheckKeeps, SubmitKeeps
<1>3. ASSUME NEW d \in Downloads, FallBack(d) \/ \E r \in Runs : Redownload(d, r) \/ Resume(d, r)
      PROVE  Parts'
  BY <1>3, FallBackKeeps, RedownloadKeeps, ResumeKeeps
<1>4. ASSUME NEW x \in Removals, (\E d \in Downloads : RemoveDownload(x, d)) \/ RunIsDone(x) \/ RemoveFails(x) \/ DeleteRows(x)
      PROVE  Parts'
  BY <1>4, RemoveDownloadKeeps, RunIsDoneKeeps, RemoveFailsKeeps, DeleteRowsKeeps
<1>5. Crash \/ ListRows => Parts'
  BY CrashKeeps, ListRowsKeeps
<1>6. UNCHANGED allVars => Parts'
  BY QuietSteps, QuietKeeps
<1>7. Parts'
  <2> HIDE DEF Parts
  <2> QED  BY <1>1, <1>2, <1>3, <1>4, <1>5, <1>6 DEF NextRows
<1> QED  BY <1>7, RowShapesStep, RunsInOrderStep DEF RowsInv

(* With requests that do not overlap, all that the invariant says of the   *)
(* rows holds throughout: who may still write to a row, and who will.      *)
THEOREM RowsInvariant == OneAtATime /\ SpecRows => []RowsInv
<1> SUFFICES ASSUME OneAtATime  PROVE SpecRows => []RowsInv
  OBVIOUS
<1>1. RowsInv /\ [NextRows]_allVars => RowsInv'
  BY RowsStep
<1> QED  BY <1>1, RowsInitially, PTL DEF SpecRows

(* No plain row is left queued or downloading with nobody to finish it but *)
(* by a removal that gave up, whoever cancels, removes, resumes or crashes.*)
THEOREM NoRowIsStranded == OneAtATime /\ SpecRows => []NoStrandedRow
<1>1. RowsInv => NoStrandedRow
  <2> SUFFICES ASSUME RowsInv, NEW d \in Plain, Active(d), Covered(d)
               PROVE  BeingRemoved(d) \/ GivenUpOn(d)
    BY DEF RowsInv, Attended, NoStrandedRow
  <2>1. d \in Siblings(d)
    BY DEF Siblings, Plain
  <2> QED  BY <2>1 DEF Covered, BeingRemoved, GivenUpOn
<1> QED  BY <1>1, RowsInvariant, PTL

(* A plain row is shown as downloading only while a run of it has a slot,  *)
(* or a removal or the restart is about to deal with it.                   *)
THEOREM ShownRowsHaveSlots == OneAtATime /\ SpecRows => []DownloadingHoldsSlot
<1>1. RowsInv => DownloadingHoldsSlot
  <2> SUFFICES ASSUME RowsInv, NEW d \in Plain, status[d] = "downloading", Covered(d)
               PROVE  BeingRemoved(d) \/ GivenUpOn(d)
    BY DEF RowsInv, ShownHasWriter, DownloadingHoldsSlot
  <2>1. d \in Siblings(d)
    BY DEF Siblings, Plain
  <2> QED  BY <2>1 DEF Covered, BeingRemoved, GivenUpOn
<1> QED  BY <1>1, RowsInvariant, PTL

(* Of the plain rows of a release one at most is queued or downloading.    *)
THEOREM ReleasesDownloadOnce == OneAtATime /\ SpecRows => []OneActivePerRelease
<1>1. RowsInv => OneActivePerRelease
  BY DEF RowsInv
<1> QED  BY <1>1, RowsInvariant, PTL

(* A plain row whose video fails its check is downloaded again once, even  *)
(* when the process crashes in between.                                    *)
THEOREM OneRedownload == OneAtATime /\ SpecRows => RedownloadedOnce
<1> DEFINE Once == \A d \in Plain \cap (restarts' \ restarts) : d \notin redone
<1>1. ASSUME RowsInv, NextRows  PROVE Once
  <2>1. ASSUME NEW r \in Runs, SettleUnsound(r)  PROVE Once
    <3>1. of[r] \in Downloads /\ Writes(r)
      BY <1>1, <2>1 DEF RowsInv, RowShapes, SettleUnsound, Writes
    <3>2. restarts' \subseteq restarts \cup {of[r]} /\ (r \in again => restarts' = restarts)
      BY <2>1 DEF SettleUnsound, NoteRedownload
    <3> QED  BY <1>1, <3>1, <3>2 DEF RowsInv, RedownloadIsKnown
  <2>2. \/ \E r \in Runs : SettleUnsound(r)
        \/ restarts' \subseteq restarts
    BY <1>1
       DEF NextRows, RunStep, SlotStep, Begin, Progress, Abandon, Settle, Decide, FinishRun,
           Check, Submit, Redownload, Resume, FallBack, RemoveDownload, RunIsDone, RemoveFails,
           DeleteRows, Crash, ListRows, StartCopy, rowVars, workVars
  <2> QED  BY <2>1, <2>2
<1>2. RowsInv /\ [NextRows]_allVars => [Once]_allVars
  BY <1>1
<1> HIDE DEF Once
<1>3. OneAtATime /\ SpecRows => [][Once]_allVars
  BY <1>2, RowsInvariant, PTL DEF SpecRows
<1> QED  BY <1>3 DEF RedownloadedOnce, Once

(* What has ended stays as it ended: a copy that is still saved somewhere  *)
(* (the progress, the last save, the resumption) never overwrites it. A    *)
(* completed row can only be removed, and a failed one is queued again     *)
(* only by a request that has just checked it.                             *)
THEOREM EndedRowsStay == OneAtATime /\ SpecRows => FinishedRowsStay
<1> DEFINE Stays(d) ==
      /\ status[d] = "completed" => status'[d] \in {"completed", "removed"}
      /\ status[d] = "failed" =>
           \/ status'[d] \in {"failed", "removed"}
           \/ \E q \in Requests : /\ request[q].step = "checked" /\ request[q].of = d
                                 /\ request'[q].step = "done"
<1>1. ASSUME RowsInv, NextRows, NEW d \in Plain  PROVE Stays(d)
  <2>0. RowShapes /\ d \in Downloads /\ d \notin FallsBack
    BY <1>1 DEF RowsInv, Plain
  <2>1. ASSUME NEW e \in Downloads, NEW new, NEW v \in BOOLEAN, Save(e, new, v), Unfinished(e) \/ e # d
        PROVE  Stays(d)
    BY <2>0, <2>1, SaveEffect DEF Unfinished
  <2>2. ASSUME UNCHANGED status  PROVE Stays(d)
    BY <2>2
  <2>3. ASSUME NEW r \in Runs, Writes(r)  PROVE of[r] \in Downloads /\ (Unfinished(of[r]) \/ of[r] # d)
    BY <1>1, <2>0, <2>3 DEF RowsInv, RowShapes, OneHolder, WriterHolds
  <2>4. ASSUME NEW r \in Runs, Begin(r) \/ Progress(r) \/ Settle(r) \/ SettleUnsound(r)
        PROVE  Stays(d)
    <3>1. Writes(r)
      BY <2>4 DEF Begin, Progress, Settle, SettleUnsound, Writes
    <3>2. CASE Begin(r) \/ Progress(r)
      <4>1. \/ UNCHANGED status
            \/ \E v \in BOOLEAN : Save(of[r], "downloading", v)
        <5>1. (r \in again) \in BOOLEAN
          OBVIOUS
        <5>2. UNCHANGED status \/ Save(of[r], "downloading", r \in again)
          BY <3>2 DEF Begin, Progress
        <5> HIDE DEF Save
        <5> QED  BY <5>1, <5>2, Zenon
      <4> HIDE DEF Stays
      <4> QED  BY <2>1, <2>2, <2>3, <3>1, <4>1
    <3>3. CASE Settle(r)
      <4>1. \/ UNCHANGED status
            \/ \E v \in BOOLEAN : Save(of[r], doing[r], v)
        <5>1. (r \in again) \in BOOLEAN
          OBVIOUS
        <5>2. UNCHANGED status \/ Save(of[r], doing[r], r \in again)
          BY <3>3 DEF Settle
        <5> HIDE DEF Save
        <5> QED  BY <5>1, <5>2, Zenon
      <4> HIDE DEF Stays
      <4> QED  BY <2>1, <2>2, <2>3, <3>1, <4>1
    <3>4. CASE SettleUnsound(r)
      <4>1. Save(of[r], "failed", FALSE) \/ Save(of[r], "queued", TRUE)
        BY <3>4 DEF SettleUnsound
      <4> HIDE DEF Stays
      <4> QED  BY <2>1, <2>3, <3>1, <4>1
    <3> HIDE DEF Stays
    <3> QED  BY <2>4, <3>2, <3>3, <3>4
  <2>5. ASSUME NEW q \in Requests, NEW r \in Runs, Submit(q, r)  PROVE Stays(d)
    <3>1. /\ request[q].step = "checked" /\ Save(request[q].of, "queued", FALSE)
          /\ request' = [request EXCEPT ![q].step = "done"] /\ request[q].of \in Downloads
      BY <2>0, <2>5 DEF Submit, RowShapes
    <3>2. CASE request[q].of # d
      <4> HIDE DEF Stays
      <4> QED  BY <2>1, <3>1, <3>2
    <3>3. CASE request[q].of = d
      <4>1. status[d] \in {"none", "failed", "removed"}
        BY <1>1, <3>1, <3>3 DEF RowsInv, OneHolder, RequestHolds
      <4>2. request[q].step = "checked" /\ request[q].of = d /\ request'[q].step = "done"
        BY <2>0, <3>1, <3>3 DEF RowShapes
      <4> QED  BY <4>1, <4>2
    <3> QED  BY <3>2, <3>3
  <2>6. ASSUME NEW e \in Downloads, FallBack(e)  PROVE Stays(d)
    <3>1. Save(e, "failed", FALSE) /\ e # d
      BY <2>0, <2>6 DEF FallBack, RowShapes
    <3> HIDE DEF Stays
    <3> QED  BY <2>1, <3>1
  <2>7. ASSUME NEW e \in Downloads, NEW r \in Runs, Resume(e, r)  PROVE Stays(d)
    <3>1. /\ Save(e, "queued", listed[e].retried) /\ listed[e].retried \in BOOLEAN
          /\ listed[e] # NotListed
      BY <2>0, <2>7 DEF Resume, RowShapes
    <3>2. e = d => Unfinished(e)
      BY <1>1, <3>1 DEF RowsInv, OneHolder, ListHolds
    <3> HIDE DEF Stays
    <3> QED  BY <2>1, <3>1, <3>2
  <2>8. ASSUME NEW x \in Removals, DeleteRows(x)  PROVE Stays(d)
    BY <2>0, <2>8 DEF DeleteRows
  <2>9. \/ UNCHANGED status
        \/ \E r \in Runs : Begin(r) \/ Progress(r) \/ Settle(r) \/ SettleUnsound(r)
        \/ \E q \in Requests, r \in Runs : Submit(q, r)
        \/ \E e \in Downloads : FallBack(e) \/ \E r \in Runs : Resume(e, r)
        \/ \E x \in Removals : DeleteRows(x)
    BY <1>1
       DEF NextRows, RunStep, SlotStep, Abandon, Decide, FinishRun, Check, Redownload,
           RemoveDownload, RunIsDone, RemoveFails, Crash, ListRows, rowVars, storeVars
  <2> HIDE DEF Stays
  <2> QED  BY <2>2, <2>4, <2>5, <2>6, <2>7, <2>8, <2>9
<1> DEFINE AllStay == \A d \in Plain : Stays(d)
<1>2. RowsInv /\ [NextRows]_allVars => [AllStay]_allVars
  <2> HIDE DEF Stays
  <2> QED  BY <1>1
<1> HIDE DEF AllStay
<1>3. OneAtATime /\ SpecRows => [][AllStay]_allVars
  BY <1>2, RowsInvariant, PTL DEF SpecRows
<1> QED  BY <1>3 DEF FinishedRowsStay, AllStay

(* The rows use the slots as HttpSlots says they are used, but for the     *)
(* crash, which empties them.                                              *)
LEMMA RowsStepOnSlots == RowShapes /\ [NextRows]_allVars => [Next]_vars \/ Crash
<1> SUFFICES ASSUME RowShapes, [NextRows]_allVars, ~Crash  PROVE [Next]_vars
  OBVIOUS
<1>1. ASSUME NEW r \in Runs, RunStep(r)  PROVE [Next]_vars
  <2>1. \/ UNCHANGED vars
        \/ Enter(r) \/ GoAhead(r) \/ GiveUp(r) \/ Return(r) \/ Release(r) \/ Leave(r)
        \/ FinishWork(r)
    BY <1>1
       DEF RunStep, SlotStep, Begin, Progress, Abandon, Settle, SettleUnsound, Decide, FinishRun
  <2> QED  BY <2>1 DEF Next, RunNext
<1>2. ASSUME NEW r \in Runs, NEW d \in Downloads, Start(r, d)  PROVE [Next]_vars
  BY <1>2 DEF Next, RunNext
<1>3. ASSUME NEW q \in Requests, NEW r \in Runs, Submit(q, r)  PROVE [Next]_vars
  <2>1. Start(r, request[q].of) /\ request[q].of \in Downloads
    BY <1>3 DEF Submit, StartCopy, RowShapes
  <2> QED  BY <1>2, <2>1
<1>4. ASSUME NEW d \in Downloads, NEW r \in Runs, Redownload(d, r) \/ Resume(d, r)
      PROVE  [Next]_vars
  BY <1>2, <1>4 DEF Redownload, Resume, StartCopy
<1>5. ASSUME NEW x \in Removals, NEW d \in Downloads, RemoveDownload(x, d)  PROVE [Next]_vars
  <2>1. Cancel(d) \/ UNCHANGED vars
    BY <1>5 DEF RemoveDownload
  <2> QED  BY <2>1 DEF Next
<1>6. ASSUME \/ \E q \in Requests, d \in Downloads : Check(q, d)
             \/ \E d \in Downloads : FallBack(d)
             \/ \E x \in Removals : RunIsDone(x) \/ RemoveFails(x) \/ DeleteRows(x)
             \/ ListRows \/ UNCHANGED allVars
      PROVE  UNCHANGED vars
  BY <1>6 DEF Check, FallBack, RunIsDone, RemoveFails, DeleteRows, ListRows, allVars
<1> QED  BY <1>1, <1>3, <1>4, <1>5, <1>6 DEF NextRows

LEMMA SlotsAfterCrash == SlotsInv /\ Crash => SlotsInv'
<1> SUFFICES ASSUME SlotsInv, Crash  PROVE SlotsInv'
  OBVIOUS
<1>1. /\ active' = 0 /\ waiters' = <<>> /\ granted' = {} /\ UNCHANGED <<setting, prio>>
      /\ pc' = [r \in Runs |-> IF pc[r] = "idle" THEN "idle" ELSE "done"]
      /\ read' = [r \in Runs |-> 1]
  BY DEF Crash, editVars
<1>2. waiters' \in Seq(Runs) /\ NoDuplicates(waiters') /\ ToSet(waiters') = {}
  BY <1>1 DEF NoDuplicates, ToSet
<1>3. SlotTypes'
  BY <1>1, <1>2 DEF SlotsInv, SlotTypes, Steps
<1>4. ActiveCountsHolders'
  <2>1. Holders' = {}
    BY <1>1 DEF Holders
  <2> QED  BY <1>1, <2>1, FS_EmptySet DEF ActiveCountsHolders
<1>5. WithinLimits'
  <2>1. PICK n \in Limits : n \in Nat
    BY LimitsInRange
  <2> QED  BY <1>1, <2>1 DEF WithinLimits, Limits
<1>6. GrantedOrWaiting' /\ ReadsALimit'
  BY <1>1, <1>2 DEF GrantedOrWaiting, ReadsALimit
<1> QED  BY <1>3, <1>4, <1>5, <1>6 DEF SlotsInv

LEMMA ShapesHold == SpecRows => []RowShapes
<1>1. InitRows => RowShapes
  BY RowsInitially DEF RowsInv
<1>2. RowShapes /\ [NextRows]_allVars => RowShapes'
  BY RowShapesStep
<1> QED  BY <1>1, <1>2, PTL DEF SpecRows

(* Seen from the slots the rows are HttpSlots with restarts, whatever the  *)
(* requests, the resumption and the removals do: each of their steps is one*)
(* of the slots, leaves these alone, or is the crash.                      *)
THEOREM RowsImplementSlots == SpecRows => Init /\ [][Next \/ Crash]_vars
<1>1. InitRows => Init
  BY DEF InitRows
<1>2. RowShapes /\ [NextRows]_allVars => [Next \/ Crash]_vars
  BY RowsStepOnSlots
<1> QED  BY <1>1, <1>2, ShapesHold, PTL DEF SpecRows

(* With the stored rows, the requests, the removals and the crashes around *)
(* them the slots keep what they promise: the limit is kept and used.      *)
THEOREM RowsUseTheSlots == SpecRows => []LimitIsUsed
<1>1. SlotsInv => LimitIsUsed
  BY DEF SlotsInv, ActiveCountsHolders, WithinLimits, LimitIsUsed
<1>2. InitRows => SlotsInv
  BY SlotsInit DEF InitRows
<1>3. SlotsInv /\ RowShapes /\ [NextRows]_allVars => SlotsInv'
  BY SlotsNext, SlotsAfterCrash, RowsStepOnSlots
<1> QED  BY <1>1, <1>2, <1>3, ShapesHold, PTL DEF SpecRows

(* A download has one run at most that is wanted, though requests, timers  *)
(* of a re-download and the resumption after a restart all start runs.     *)
THEOREM RowsHaveOneRun == SpecRows => []OneLiveRun
<1>1. LiveRunsAreKnown => OneLiveRun
  BY DEF LiveRunsAreKnown, OneLiveRun
<1>2. InitRows => LiveRunsAreKnown
  BY LiveRunsInit, RowsAssumption DEF InitRows
<1>3. LiveRunsAreKnown /\ Crash => LiveRunsAreKnown'
  BY DEF LiveRunsAreKnown, Live, Crash, Steps
<1>4. LiveRunsAreKnown /\ RowShapes /\ [NextRows]_allVars => LiveRunsAreKnown'
  BY <1>3, LiveRunsStep, RowsStepOnSlots
<1> QED  BY <1>1, <1>2, <1>4, ShapesHold, PTL DEF SpecRows

(* ... and nobody is served out of turn.                                   *)
THEOREM RowsGoByPosition == SpecRows => ServedByPosition
<1>1. SlotsInv /\ RowShapes /\ [NextRows]_allVars => SlotsInv' /\ [InTurn]_vars
  <2>1. SlotsInv /\ Crash => InTurn
    BY DEF Crash, InTurn
  <2> QED  BY <2>1, SlotsNext, SlotsAfterCrash, RowsStepOnSlots, StepInTurn
<1>2. InitRows => SlotsInv
  BY SlotsInit DEF InitRows
<1>3. SpecRows => [][InTurn]_vars
  BY <1>1, <1>2, ShapesHold, PTL DEF SpecRows
<1> QED  BY <1>3 DEF ServedByPosition, InTurn

-----------------------------------------------------------------------------
(***************************************************************************)
(* The queue of searches (SearchQueue): a row that is pending belongs to   *)
(* somebody who will end it, for any calls, edits, failures and restarts.  *)
(*                                                                         *)
(* An item is made from a row that was saved (RowsWereSaved), the worker   *)
(* has one item at a time (WorkerHasOne), and each pending row is in the   *)
(* queue, with the worker, with the handler that saved it, or on the list  *)
(* that the restart goes through (Owned).                                  *)
(***************************************************************************)

(* The Search + Download queue.                                            *)

TaskRow == [status : {"none", "deleted", "failed"} \cup Pending, force : BOOLEAN, prio : Int]
WorkerState == [pc : {"off", "pick", "begin", "search", "finish", "fail"},
                item : SUBSET Items, row : SUBSET Int]
ResumeState == [pc : {"waiting", "listed", "dropped", "over"},
                items : Seq(Items), drop : SUBSET SearchCalls]

QueueTypes ==
  /\ task \in [SearchCalls -> TaskRow]
  /\ call \in [SearchCalls -> {"idle", "listed", "saved", "done"}]
  /\ retry \in [SearchCalls -> {"no", "listed", "saved"}]
  /\ edit \in SUBSET [task : SearchCalls, prio : EditedTo]
  /\ queue \in Seq(Items) /\ running \in BOOLEAN
  /\ worker \in WorkerState /\ resume \in ResumeState

(* The items on their way.                                                 *)
AllItems == ToSet(queue) \cup worker.item \cup ToSet(resume.items)

(* What is on its way for a task, or about to be, has its row, or had it;  *)
(* so a task that was deleted is not created by its call any more.         *)
RowsWereSaved ==
  /\ \A c \in SearchCalls :
       /\ call[c] \in {"idle", "listed"} => task[c].status = "none"
       /\ call[c] = "saved" \/ retry[c] # "no" => task[c].status # "none"
  /\ \A i \in AllItems : task[i.task].status # "none"
  /\ \A c \in resume.drop : task[c].status # "none"

(* The worker is there while anything is queued; it has one item while it  *)
(* searches, and none between two.                                         *)
WorkerHasOne ==
  /\ running <=> worker.pc # "off"
  /\ queue # <<>> => running
  /\ worker.pc \in {"off", "pick"} => worker.item = {}
  /\ worker.pc \notin {"off", "pick"} => \E i \in Items : worker.item = {i}

(* A search goes on without its row only if that was deleted.              *)
WithoutRow ==
  worker.pc \in {"search", "finish", "fail"} /\ worker.row = {} =>
    \A i \in worker.item : task[i.task].status = "deleted"

HasItem(c) == \E i \in AllItems : i.task = c

(* PendingTaskIsOwned, in terms of the items on their way.                 *)
Owned ==
  \A c \in SearchCalls : task[c].status \in Pending =>
    \/ HasItem(c) \/ call[c] = "saved" \/ retry[c] = "saved"
    \/ resume.pc = "waiting" \/ c \in resume.drop

SearchInv == QueueTypes /\ RowsWereSaved /\ WorkerHasOne /\ WithoutRow /\ Owned

-----------------------------------------------------------------------------
LEMMA ItemFields ==
  /\ \A i \in Items : i.task \in SearchCalls /\ i.force \in BOOLEAN /\ i.prio \in Int
  /\ \A c \in SearchCalls, f \in BOOLEAN, p \in Int :
       Item(c, f, p) \in Items /\ Item(c, f, p).task = c
BY DEF Items, Item

LEMMA RowFields ==
  \A r \in TaskRow : /\ r.status \in {"none", "deleted", "failed", "search_queued", "searching"}
                     /\ r.force \in BOOLEAN /\ r.prio \in Int
BY DEF TaskRow, Pending

LEMMA ItemsAreTyped ==
  ASSUME SearchInv
  PROVE  \A i \in AllItems : i \in Items /\ i.task \in SearchCalls
<1>1. queue \in Seq(Items) /\ worker.item \subseteq Items /\ resume.items \in Seq(Items)
  BY DEF SearchInv, QueueTypes, WorkerState, ResumeState
<1>2. ToSet(queue) \subseteq Items /\ ToSet(resume.items) \subseteq Items
  BY <1>1, ElementOfSeq, LenProperties DEF ToSet
<1> QED  BY <1>1, <1>2, ItemFields DEF AllItems

(* bestBulkReleaseQueueIndex finds an item.                                *)
LEMMA BestIsThere ==
  ASSUME NEW q \in Seq(Items), q # <<>>
  PROVE  BestItem(q) \in 1 .. Len(q)
<1>1. Len(q) \in Nat /\ DOMAIN q = 1 .. Len(q) /\ 1 .. Len(q) # {}
  <2>1. Len(q) \in Nat /\ DOMAIN q = 1 .. Len(q) /\ Len(q) # 0
    BY EmptySeq, LenProperties
  <2>2. 1 \in 1 .. Len(q)
    BY <2>1
  <2> QED  BY <2>1, <2>2
<1>2. \A i \in 1 .. Len(q) : q[i] \in Items /\ q[i].prio \in Int
  BY ElementOfSeq, ItemFields
<1> DEFINE F == 1 .. Len(q)
           key == [i \in F |-> q[i].prio]
<1>3. key \in [F -> Int] /\ \A i \in F : key[i] = q[i].prio
  BY <1>2
<1>4. F \subseteq 1 .. Len(q) /\ F # {} /\ DOMAIN q = F
  BY <1>1
<1> HIDE DEF F, key
<1>5. \E i \in F : \A j \in F : key[i] < key[j] \/ (key[i] = key[j] /\ i <= j)
  BY <1>1, <1>3, <1>4, LeastByKey
<1>6. \E i \in DOMAIN q : \A j \in DOMAIN q :
        q[i].prio < q[j].prio \/ (q[i].prio = q[j].prio /\ i <= j)
  <2>1. \E i \in F : \A j \in F :
          q[i].prio < q[j].prio \/ (q[i].prio = q[j].prio /\ i <= j)
    BY <1>3, <1>5
  <2> QED  BY <1>4, <2>1
<1>7. BestItem(q) \in DOMAIN q
  BY <1>6 DEF BestItem
<1> QED  BY <1>1, <1>7

(* What is taken from a queue, and what is left.                           *)
LEMMA TakenAndLeft ==
  ASSUME NEW q \in Seq(Items), NEW n \in 1 .. Len(q)
  PROVE  /\ RemoveAt(q, n) \in Seq(Items) /\ q[n] \in Items
         /\ ToSet(RemoveAt(q, n)) \cup {q[n]} = ToSet(q)
<1> DEFINE r == RemoveAt(q, n)
<1>1. Len(q) \in Nat /\ DOMAIN q = 1 .. Len(q) /\ q[n] \in Items
  BY LenProperties, ElementOfSeq
<1>2. /\ r \in Seq(Items) /\ Len(r) = Len(q) - 1
      /\ \A i \in 1 .. n - 1 : r[i] = q[i]
      /\ \A i \in n .. Len(q) - 1 : r[i] = q[i + 1]
  BY RemoveAtElements
<1> HIDE DEF r
<1>3. DOMAIN r = 1 .. Len(q) - 1
  BY <1>2, LenProperties
<1>4. ASSUME NEW x \in ToSet(r)  PROVE x \in ToSet(q)
  <2>1. PICK i \in 1 .. Len(q) - 1 : x = r[i]
    BY <1>3, <1>4 DEF ToSet
  <2>2. CASE i < n
    <3>1. i \in 1 .. n - 1 /\ i \in 1 .. Len(q)
      BY <1>1, <2>1, <2>2
    <3> QED  BY <1>1, <1>2, <2>1, <3>1 DEF ToSet
  <2>3. CASE ~(i < n)
    <3>1. i \in n .. Len(q) - 1 /\ i + 1 \in 1 .. Len(q)
      BY <1>1, <2>1, <2>3
    <3> QED  BY <1>1, <1>2, <2>1, <3>1 DEF ToSet
  <2> QED  BY <2>2, <2>3
<1>5. ASSUME NEW x \in ToSet(q), x # q[n]  PROVE x \in ToSet(r)
  <2>1. PICK i \in 1 .. Len(q) : x = q[i]
    BY <1>1, <1>5 DEF ToSet
  <2>2. CASE i < n
    <3>1. i \in 1 .. n - 1 /\ i \in 1 .. Len(q) - 1
      BY <1>1, <2>1, <2>2
    <3> QED  BY <1>2, <1>3, <2>1, <3>1 DEF ToSet
  <2>3. CASE i > n
    <3>1. i - 1 \in n .. Len(q) - 1 /\ i - 1 \in 1 .. Len(q) - 1 /\ (i - 1) + 1 = i
      BY <1>1, <2>1, <2>3
    <3>2. r[i - 1] = q[i]
      BY <1>2, <3>1
    <3> QED  BY <1>3, <2>1, <3>1, <3>2 DEF ToSet
  <2>4. i # n
    BY <1>5, <2>1
  <2> QED  BY <1>1, <2>1, <2>2, <2>3, <2>4
<1>6. q[n] \in ToSet(q)
  BY <1>1 DEF ToSet
<1> QED  BY <1>1, <1>2, <1>4, <1>5, <1>6 DEF r

(* Items appended to a queue.                                              *)
LEMMA AppendedItems ==
  ASSUME NEW q \in Seq(Items), NEW t \in Seq(Items)
  PROVE  q \o t \in Seq(Items) /\ ToSet(q \o t) = ToSet(q) \cup ToSet(t)
<1>1. /\ Len(q) \in Nat /\ Len(t) \in Nat
      /\ DOMAIN q = 1 .. Len(q) /\ DOMAIN t = 1 .. Len(t)
  BY LenProperties
<1>2. /\ q \o t \in Seq(Items) /\ Len(q \o t) = Len(q) + Len(t)
      /\ \A i \in 1 .. Len(q) + Len(t) :
           (q \o t)[i] = IF i <= Len(q) THEN q[i] ELSE t[i - Len(q)]
  BY ConcatProperties
<1> DEFINE u == q \o t
<1>3. DOMAIN u = 1 .. Len(q) + Len(t)
  BY <1>2, LenProperties
<1> HIDE DEF u
<1>4. ASSUME NEW x \in ToSet(u)  PROVE x \in ToSet(q) \cup ToSet(t)
  <2>1. PICK i \in 1 .. Len(q) + Len(t) : x = u[i]
    BY <1>3, <1>4 DEF ToSet
  <2>2. CASE i <= Len(q)
    <3>1. i \in 1 .. Len(q) /\ u[i] = q[i]
      BY <1>1, <1>2, <2>1, <2>2 DEF u
    <3> QED  BY <1>1, <2>1, <3>1 DEF ToSet
  <2>3. CASE ~(i <= Len(q))
    <3>1. i - Len(q) \in 1 .. Len(t) /\ u[i] = t[i - Len(q)]
      BY <1>1, <1>2, <2>1, <2>3 DEF u
    <3> QED  BY <1>1, <2>1, <3>1 DEF ToSet
  <2> QED  BY <2>2, <2>3
<1>5. ASSUME NEW x \in ToSet(q)  PROVE x \in ToSet(u)
  <2>1. PICK i \in 1 .. Len(q) : x = q[i]
    BY <1>1, <1>5 DEF ToSet
  <2>2. i \in 1 .. Len(q) + Len(t) /\ u[i] = q[i]
    BY <1>1, <1>2, <2>1 DEF u
  <2> QED  BY <1>3, <2>1, <2>2 DEF ToSet
<1>6. ASSUME NEW x \in ToSet(t)  PROVE x \in ToSet(u)
  <2>1. PICK i \in 1 .. Len(t) : x = t[i]
    BY <1>1, <1>6 DEF ToSet
  <2> DEFINE k == Len(q) + i
  <2>2. k \in 1 .. Len(q) + Len(t) /\ ~(k <= Len(q)) /\ k - Len(q) = i
    BY <1>1, <2>1
  <2> HIDE DEF k
  <2>3. u[k] = t[i]
    BY <1>2, <2>2 DEF u
  <2> QED  BY <1>3, <2>1, <2>2, <2>3 DEF ToSet
<1> QED  BY <1>2, <1>4, <1>5, <1>6 DEF u

-----------------------------------------------------------------------------
(* enqueueBulkReleaseItems.                                                *)
LEMMA Enqueued ==
  ASSUME QueueTypes, WorkerHasOne, NEW items \in Seq(Items), Enqueue(items)
  PROVE  /\ queue' \in Seq(Items) /\ ToSet(queue') = ToSet(queue) \cup ToSet(items)
         /\ running' = TRUE /\ worker' \in WorkerState /\ worker'.item = worker.item
         /\ worker'.pc # "off"
         /\ worker'.pc \in {"search", "finish", "fail"} => worker' = worker
         /\ worker'.pc = "pick" => worker'.item = {}
         /\ worker'.pc \notin {"off", "pick"} => worker' = worker
<1>1. queue \in Seq(Items) /\ queue' = queue \o items /\ running' = TRUE
  BY DEF QueueTypes, Enqueue
<1> DEFINE start == [Off EXCEPT !.pc = "pick"]
<1>2. worker' = IF running THEN worker ELSE start
  BY DEF Enqueue
<1>3. worker \in WorkerState /\ running \in BOOLEAN
  BY DEF QueueTypes
<1>4. start \in WorkerState /\ start.pc = "pick" /\ start.item = {}
  BY DEF WorkerState, Off
<1> HIDE DEF start
<1>5. queue' \in Seq(Items) /\ ToSet(queue') = ToSet(queue) \cup ToSet(items)
  BY <1>1, AppendedItems
<1>6. CASE running
  <2>1. worker' = worker /\ worker.pc # "off"
    BY <1>2, <1>6 DEF WorkerHasOne
  <2> QED  BY <1>1, <1>3, <1>5, <2>1 DEF WorkerHasOne
<1>7. CASE ~running
  <2>1. worker' = start /\ worker.item = {}
    BY <1>2, <1>7 DEF WorkerHasOne
  <2> QED  BY <1>1, <1>4, <1>5, <2>1
<1> QED  BY <1>3, <1>6, <1>7

(* Queueing items of tasks that have, or had, their row.                   *)
LEMMA QueueingStep ==
  ASSUME SearchInv, NEW items \in Seq(Items), Enqueue(items), task' = task,
         call' \in [SearchCalls -> {"idle", "listed", "saved", "done"}],
         retry' \in [SearchCalls -> {"no", "listed", "saved"}],
         resume' \in ResumeState, edit' = edit,
         \A i \in ToSet(items) : task[i.task].status # "none",
         \A c \in SearchCalls :
           /\ call'[c] # call[c] => call[c] = "saved" /\ call'[c] = "done"
                                      /\ \E i \in ToSet(items) : i.task = c
           /\ retry'[c] # retry[c] => retry[c] = "saved" /\ retry'[c] = "no"
                                      /\ \E i \in ToSet(items) : i.task = c,
         \/ resume' = resume
         \/ /\ resume.pc # "waiting" /\ resume.drop = {} /\ resume'.drop = {}
            /\ ToSet(resume.items) \subseteq ToSet(items) /\ ToSet(resume'.items) = {}
  PROVE  SearchInv'
<1>1. QueueTypes /\ WorkerHasOne
  BY DEF SearchInv
<1>2. /\ queue' \in Seq(Items) /\ ToSet(queue') = ToSet(queue) \cup ToSet(items)
      /\ running' = TRUE /\ worker' \in WorkerState /\ worker'.item = worker.item
      /\ worker'.pc # "off"
      /\ worker'.pc \in {"search", "finish", "fail"} => worker' = worker
      /\ worker'.pc = "pick" => worker'.item = {}
      /\ worker'.pc \notin {"off", "pick"} => worker' = worker
  BY <1>1, Enqueued
<1>3. AllItems' \subseteq AllItems \cup ToSet(items) /\ AllItems \cup ToSet(items) \subseteq AllItems'
  BY <1>2 DEF AllItems
<1>4. QueueTypes'
  BY <1>1, <1>2 DEF QueueTypes
<1>5. RowsWereSaved'
  <2>1. ASSUME NEW c \in SearchCalls
        PROVE  /\ call'[c] \in {"idle", "listed"} => task'[c].status = "none"
               /\ call'[c] = "saved" \/ retry'[c] # "no" => task'[c].status # "none"
    BY DEF SearchInv, RowsWereSaved
  <2>2. \A i \in AllItems' : task'[i.task].status # "none"
    BY <1>3 DEF SearchInv, RowsWereSaved
  <2>3. \A c \in resume'.drop : task'[c].status # "none"
    BY DEF SearchInv, RowsWereSaved
  <2> QED  BY <2>1, <2>2, <2>3 DEF RowsWereSaved
<1>6. WorkerHasOne'
  BY <1>1, <1>2 DEF WorkerHasOne
<1>7. WithoutRow'
  BY <1>2 DEF SearchInv, WithoutRow
<1>8. Owned'
  <2>1. SUFFICES ASSUME NEW c \in SearchCalls, task[c].status \in Pending
                 PROVE  \/ HasItem(c)' \/ call'[c] = "saved" \/ retry'[c] = "saved"
                        \/ resume'.pc = "waiting" \/ c \in resume'.drop
    BY DEF Owned
  <2>2. \/ HasItem(c) \/ call[c] = "saved" \/ retry[c] = "saved"
        \/ resume.pc = "waiting" \/ c \in resume.drop
    BY <2>1 DEF SearchInv, Owned
  <2>3. HasItem(c) => HasItem(c)'
    BY <1>3 DEF HasItem
  <2>4. (\E i \in ToSet(items) : i.task = c) => HasItem(c)'
    BY <1>3 DEF HasItem
  <2> QED  BY <2>2, <2>3, <2>4
<1> QED  BY <1>4, <1>5, <1>6, <1>7, <1>8 DEF SearchInv

(* A single item.                                                          *)
LEMMA OneItem ==
  ASSUME NEW i \in Items
  PROVE  <<i>> \in Seq(Items) /\ ToSet(<<i>>) = {i}
BY DEF ToSet

LEMMA HandlersQueue ==
  ASSUME SearchInv, NEW c \in SearchCalls,
         EnqueueTask(c) \/ (RetryTask(c) /\ retry[c] = "saved")
  PROVE  SearchInv'
<1>1. /\ call \in [SearchCalls -> {"idle", "listed", "saved", "done"}]
      /\ retry \in [SearchCalls -> {"no", "listed", "saved"}]
      /\ resume \in ResumeState /\ task \in [SearchCalls -> TaskRow]
      /\ CallPriority[c] \in Int
  BY SearchQueueAssumption DEF SearchInv, QueueTypes
<1>2. CASE EnqueueTask(c)
  <2> DEFINE i == Item(c, c \in Forced, CallPriority[c])
  <2>1. i \in Items /\ i.task = c
    <3>1. (c \in Forced) \in BOOLEAN
      OBVIOUS
    <3> QED  BY <1>1, <3>1, ItemFields
  <2>2. /\ call[c] = "saved" /\ Enqueue(<<i>>) /\ call' = [call EXCEPT ![c] = "done"]
        /\ task' = task /\ retry' = retry /\ edit' = edit /\ resume' = resume
    BY <1>2 DEF EnqueueTask, taskVars
  <2> HIDE DEF i
  <2>3. <<i>> \in Seq(Items) /\ ToSet(<<i>>) = {i}
    BY <2>1, OneItem
  <2>4. task[c].status # "none"
    BY <2>2 DEF SearchInv, RowsWereSaved
  <2>5. /\ call' \in [SearchCalls -> {"idle", "listed", "saved", "done"}]
        /\ \A d \in SearchCalls : call'[d] # call[d] => d = c /\ call'[d] = "done"
    BY <1>1, <2>2
  <2> QED  BY <1>1, <2>1, <2>2, <2>3, <2>4, <2>5, QueueingStep
<1>3. CASE RetryTask(c) /\ retry[c] = "saved"
  <2> DEFINE i == Item(c, FALSE, task[c].prio)
  <2>1. i \in Items /\ i.task = c
    BY <1>1, ItemFields, RowFields
  <2>2. /\ Enqueue(<<i>>) /\ retry' = [retry EXCEPT ![c] = "no"]
        /\ task' = task /\ call' = call /\ edit' = edit /\ resume' = resume
    BY <1>3 DEF RetryTask
  <2> HIDE DEF i
  <2>3. <<i>> \in Seq(Items) /\ ToSet(<<i>>) = {i}
    BY <2>1, OneItem
  <2>4. task[c].status # "none"
    BY <1>3 DEF SearchInv, RowsWereSaved
  <2>5. /\ retry' \in [SearchCalls -> {"no", "listed", "saved"}]
        /\ \A d \in SearchCalls : retry'[d] # retry[d] => d = c /\ retry'[d] = "no"
    BY <1>1, <2>2
  <2> QED  BY <1>1, <1>3, <2>1, <2>2, <2>3, <2>4, <2>5, QueueingStep
<1> QED  BY <1>2, <1>3

(* A step that only writes one task's row, or where its handler is.        *)
LEMMA RowStep ==
  ASSUME SearchInv, NEW c \in SearchCalls,
         UNCHANGED <<queueVars, worker, resume>>,
         task' \in [SearchCalls -> TaskRow], edit' \in SUBSET [task : SearchCalls, prio : EditedTo],
         call' \in [SearchCalls -> {"idle", "listed", "saved", "done"}],
         retry' \in [SearchCalls -> {"no", "listed", "saved"}],
         \A d \in SearchCalls : d # c => task'[d] = task[d] /\ call'[d] = call[d] /\ retry'[d] = retry[d],
         task[c].status # "none" => task'[c].status # "none",
         task[c].status = "deleted" => task'[c].status = "deleted",
         call'[c] \in {"idle", "listed"} => call[c] \in {"idle", "listed"} /\ task'[c] = task[c],
         call'[c] = "saved" => task'[c].status # "none",
         retry'[c] # "no" => task'[c].status # "none",
         \/ task'[c].status \notin Pending
         \/ call'[c] = "saved" \/ retry'[c] = "saved"
         \/ /\ task[c].status \in Pending /\ call[c] # "saved" /\ retry[c] # "saved"
  PROVE  SearchInv'
<1> USE DEF queueVars
<1>1. AllItems' = AllItems
  BY DEF AllItems
<1>2. QueueTypes'
  BY DEF SearchInv, QueueTypes
<1>3. RowsWereSaved'
  <2>1. ASSUME NEW d \in SearchCalls
        PROVE  /\ call'[d] \in {"idle", "listed"} => task'[d].status = "none"
               /\ call'[d] = "saved" \/ retry'[d] # "no" => task'[d].status # "none"
    BY DEF SearchInv, RowsWereSaved
  <2>2. ASSUME NEW i \in AllItems  PROVE task'[i.task].status # "none"
    <3>1. task[i.task].status # "none" /\ i.task \in SearchCalls
      BY ItemsAreTyped DEF SearchInv, RowsWereSaved
    <3> QED  BY <3>1
  <2>3. \A d \in resume.drop : task'[d].status # "none"
    <3>1. resume.drop \subseteq SearchCalls
      BY DEF SearchInv, QueueTypes, ResumeState
    <3> QED  BY <3>1 DEF SearchInv, RowsWereSaved
  <2> QED  BY <1>1, <2>1, <2>2, <2>3 DEF RowsWereSaved
<1>4. WorkerHasOne'
  BY DEF SearchInv, WorkerHasOne
<1>5. WithoutRow'
  <2>1. \A i \in worker.item : i.task \in SearchCalls
    BY ItemFields DEF SearchInv, QueueTypes, WorkerState
  <2> QED  BY <2>1 DEF SearchInv, WithoutRow
<1>6. Owned'
  <2>1. SUFFICES ASSUME NEW d \in SearchCalls, task'[d].status \in Pending
                 PROVE  \/ HasItem(d)' \/ call'[d] = "saved" \/ retry'[d] = "saved"
                        \/ resume'.pc = "waiting" \/ d \in resume'.drop
    BY DEF Owned
  <2>2. HasItem(d)' <=> HasItem(d)
    BY <1>1 DEF HasItem
  <2>3. \/ call'[d] = "saved" \/ retry'[d] = "saved"
        \/ /\ task[d].status \in Pending
           /\ call[d] = "saved" => call'[d] = "saved"
           /\ retry[d] = "saved" => retry'[d] = "saved"
    BY <2>1
  <2> QED  BY <2>2, <2>3 DEF SearchInv, Owned
<1> QED  BY <1>2, <1>3, <1>4, <1>5, <1>6 DEF SearchInv

LEMMA HandlersWrite ==
  ASSUME SearchInv, NEW c \in SearchCalls,
         \/ ListTaskRows(c) \/ CreateTask(c) \/ RemoveTask(c)
         \/ (RetryTask(c) /\ retry[c] # "saved")
         \/ (EditTaskPriority(c) /\ queue' = queue)
  PROVE  SearchInv'
<1> USE DEF taskVars
<1>1. /\ call \in [SearchCalls -> {"idle", "listed", "saved", "done"}]
      /\ retry \in [SearchCalls -> {"no", "listed", "saved"}]
      /\ task \in [SearchCalls -> TaskRow] /\ task[c] \in TaskRow
      /\ edit \in SUBSET [task : SearchCalls, prio : EditedTo]
  BY DEF SearchInv, QueueTypes
<1>2. /\ task[c].status \in {"none", "deleted", "failed", "search_queued", "searching"}
      /\ task[c].force \in BOOLEAN /\ task[c].prio \in Int
      /\ task[c] = [status |-> task[c].status, force |-> task[c].force, prio |-> task[c].prio]
  BY <1>1, RowFields DEF TaskRow
<1>3. /\ call[c] \in {"idle", "listed"} => task[c].status = "none"
      /\ call[c] = "saved" \/ retry[c] # "no" => task[c].status # "none"
  BY DEF SearchInv, RowsWereSaved
<1>4. CASE ListTaskRows(c)
  <2>1. /\ call[c] = "idle" /\ \E s \in {"done", "listed"} : call' = [call EXCEPT ![c] = s]
        /\ task' = task /\ retry' = retry /\ edit' = edit
        /\ UNCHANGED <<queueVars, worker, resume>>
    BY <1>4 DEF ListTaskRows
  <2>2. /\ call' \in [SearchCalls -> {"idle", "listed", "saved", "done"}]
        /\ call'[c] \in {"done", "listed"}
        /\ \A d \in SearchCalls : d # c => call'[d] = call[d]
    BY <1>1, <2>1
  <2>3. task[c].status = "none"
    BY <1>3, <2>1
  <2> QED  BY <1>1, <1>3, <2>1, <2>2, <2>3, RowStep DEF Pending
<1>5. CASE CreateTask(c)
  <2> DEFINE row == [status |-> "search_queued", force |-> c \in Forced, prio |-> CallPriority[c]]
  <2>1. row \in TaskRow
    BY SearchQueueAssumption DEF TaskRow, Pending
  <2>2. /\ call[c] = "listed" /\ call' = [call EXCEPT ![c] = "saved"]
        /\ task' = [task EXCEPT ![c] = row]
        /\ retry' = retry /\ edit' = edit /\ UNCHANGED <<queueVars, worker, resume>>
    BY <1>5 DEF CreateTask
  <2>3. row.status = "search_queued"
    OBVIOUS
  <2> HIDE DEF row
  <2>4. /\ call' \in [SearchCalls -> {"idle", "listed", "saved", "done"}] /\ call'[c] = "saved"
        /\ \A d \in SearchCalls : d # c => call'[d] = call[d] /\ task'[d] = task[d]
        /\ task' \in [SearchCalls -> TaskRow] /\ task'[c] = row
    BY <1>1, <2>1, <2>2
  <2>5. task[c].status = "none"
    BY <1>3, <2>2
  <2> QED  BY <1>1, <2>2, <2>3, <2>4, <2>5, RowStep
<1>6. CASE RemoveTask(c)
  <2> DEFINE row == [task[c] EXCEPT !.status = "deleted"]
  <2>1. row \in TaskRow /\ row.status = "deleted"
    BY <1>1, <1>2 DEF TaskRow
  <2>2. /\ task[c].status \in Pending \cup {"failed"} /\ task' = [task EXCEPT ![c] = row]
        /\ call' = call /\ retry' = retry /\ edit' = edit /\ UNCHANGED <<queueVars, worker, resume>>
    BY <1>6 DEF RemoveTask
  <2> HIDE DEF row
  <2>3. /\ task' \in [SearchCalls -> TaskRow] /\ task'[c] = row
        /\ \A d \in SearchCalls : d # c => task'[d] = task[d]
    BY <1>1, <2>1, <2>2
  <2>4. task[c].status # "none" /\ call[c] \notin {"idle", "listed"}
    BY <1>3, <2>2 DEF Pending
  <2>5. task'[c].status \notin Pending
    BY <2>1, <2>3 DEF Pending
  <2> QED  BY <1>1, <1>3, <2>1, <2>2, <2>3, <2>4, <2>5, RowStep
<1>7. CASE RetryTask(c) /\ retry[c] = "no"
  <2>1. /\ task[c].status = "failed" /\ retry' = [retry EXCEPT ![c] = "listed"]
        /\ task' = task /\ call' = call /\ edit' = edit /\ UNCHANGED <<queueVars, worker, resume>>
    BY <1>7 DEF RetryTask
  <2>2. /\ retry' \in [SearchCalls -> {"no", "listed", "saved"}]
        /\ \A d \in SearchCalls : d # c => retry'[d] = retry[d]
    BY <1>1, <2>1
  <2>3. task[c].status \notin Pending /\ call[c] \notin {"idle", "listed"}
    BY <1>3, <2>1 DEF Pending
  <2> QED  BY <1>1, <2>1, <2>2, <2>3, RowStep
<1>8. CASE RetryTask(c) /\ retry[c] = "listed"
  <2> DEFINE row == IF task[c].status = "deleted" THEN task[c]
                    ELSE [task[c] EXCEPT !.status = "search_queued"]
  <2>1. row \in TaskRow /\ row.status # "none" /\ (task[c].status = "deleted" => row.status = "deleted")
    BY <1>1, <1>2, <1>3, <1>8 DEF TaskRow, Pending
  <2>2. /\ retry' = [retry EXCEPT ![c] = "saved"]
        /\ task' = IF task[c].status = "deleted" THEN task
                   ELSE [task EXCEPT ![c].status = "search_queued"]
        /\ call' = call /\ edit' = edit /\ UNCHANGED <<queueVars, worker, resume>>
    BY <1>8 DEF RetryTask
  <2>3. /\ task' \in [SearchCalls -> TaskRow] /\ task'[c] = row
        /\ \A d \in SearchCalls : d # c => task'[d] = task[d]
    BY <1>1, <2>1, <2>2
  <2> HIDE DEF row
  <2>4. /\ retry' \in [SearchCalls -> {"no", "listed", "saved"}] /\ retry'[c] = "saved"
        /\ \A d \in SearchCalls : d # c => retry'[d] = retry[d]
    BY <1>1, <2>2
  <2>5. call[c] \notin {"idle", "listed"}
    BY <1>3, <1>8
  <2> QED  BY <1>1, <2>1, <2>2, <2>3, <2>4, <2>5, RowStep
<1>9. CASE EditTaskPriority(c) /\ queue' = queue
  <2>1. \/ \E p \in EditedTo :
             /\ task[c].status \in Pending \cup {"failed"}
             /\ edit' = {[task |-> c, prio |-> p]} /\ task' = [task EXCEPT ![c].prio = p]
        \/ edit' = {} /\ task' = task
    BY <1>9 DEF EditTaskPriority
  <2>2. call' = call /\ retry' = retry /\ UNCHANGED <<queueVars, worker, resume>>
    BY <1>9 DEF EditTaskPriority, queueVars
  <2>3. /\ task' \in [SearchCalls -> TaskRow] /\ task'[c].status = task[c].status
        /\ \A d \in SearchCalls : d # c => task'[d] = task[d]
        /\ edit' \in SUBSET [task : SearchCalls, prio : EditedTo]
        /\ task' = task \/ task[c].status # "none"
    <3>1. CASE edit' = {} /\ task' = task
      BY <1>1, <3>1
    <3>2. CASE \E p \in EditedTo :
             /\ task[c].status \in Pending \cup {"failed"}
             /\ edit' = {[task |-> c, prio |-> p]} /\ task' = [task EXCEPT ![c].prio = p]
      <4>1. PICK p \in EditedTo :
             /\ task[c].status \in Pending \cup {"failed"}
             /\ edit' = {[task |-> c, prio |-> p]} /\ task' = [task EXCEPT ![c].prio = p]
        BY <3>2
      <4>2. p \in Int
        BY SearchQueueAssumption
      <4> DEFINE row == [task[c] EXCEPT !.prio = p]
      <4>3. row \in TaskRow /\ row.status = task[c].status
        BY <1>1, <1>2, <4>2 DEF TaskRow
      <4>4. task' = [task EXCEPT ![c] = row]
        BY <4>1
      <4> HIDE DEF row
      <4> QED  BY <1>1, <4>1, <4>3, <4>4 DEF Pending
    <3> QED  BY <2>1, <3>1, <3>2
  <2>4. \/ task'[c].status \notin Pending
        \/ call'[c] = "saved" \/ retry'[c] = "saved"
        \/ /\ task[c].status \in Pending /\ call[c] # "saved" /\ retry[c] # "saved"
    BY <2>2, <2>3
  <2>5. call'[c] \in {"idle", "listed"} => task'[c] = task[c]
    BY <1>3, <2>2, <2>3
  <2> QED  BY <1>1, <1>3, <2>2, <2>3, <2>4, <2>5, RowStep
<1> QED  BY <1>1, <1>4, <1>5, <1>6, <1>7, <1>8, <1>9

-----------------------------------------------------------------------------
(* The worker, the resumption, the restart.                                *)

(* The second half of a priority edit changes no item's task.              *)
LEMMA EditInQueue ==
  ASSUME SearchInv, NEW c \in SearchCalls, EditTaskPriority(c), queue' # queue
  PROVE  SearchInv'
<1>1. PICK e \in edit :
        /\ e.task = c /\ edit' = {} /\ task' = task
        /\ queue' = [i \in DOMAIN queue |->
             IF queue[i].task = c THEN [queue[i] EXCEPT !.prio = e.prio] ELSE queue[i]]
  BY DEF EditTaskPriority
<1>2. UNCHANGED <<call, retry, running, worker, resume>>
  BY DEF EditTaskPriority
<1>3. /\ queue \in Seq(Items) /\ Len(queue) \in Nat /\ DOMAIN queue = 1 .. Len(queue)
      /\ \A i \in 1 .. Len(queue) : queue[i] \in Items
  <2>1. queue \in Seq(Items)
    BY DEF SearchInv, QueueTypes
  <2> QED  BY <2>1, ElementOfSeq, LenProperties
<1>4. e.prio \in Int
  BY SearchQueueAssumption DEF SearchInv, QueueTypes
<1> DEFINE new(i) == IF queue[i].task = c THEN [queue[i] EXCEPT !.prio = e.prio] ELSE queue[i]
<1>5. \A i \in 1 .. Len(queue) : new(i) \in Items /\ new(i).task = queue[i].task
  BY <1>3, <1>4 DEF Items
<1>6. queue' = [i \in 1 .. Len(queue) |-> new(i)]
  BY <1>1, <1>3
<1> HIDE DEF new
<1>7. /\ queue' \in Seq(Items) /\ DOMAIN queue' = 1 .. Len(queue)
      /\ \A i \in 1 .. Len(queue) : queue'[i].task = queue[i].task
  BY <1>3, <1>5, <1>6
<1>8. /\ \A x \in ToSet(queue') : \E y \in ToSet(queue) : y.task = x.task
      /\ \A x \in ToSet(queue) : \E y \in ToSet(queue') : y.task = x.task
  BY <1>3, <1>7 DEF ToSet
<1>9. /\ \A x \in AllItems' : \E y \in AllItems : y.task = x.task
      /\ \A x \in AllItems : \E y \in AllItems' : y.task = x.task
  BY <1>2, <1>8 DEF AllItems
<1>10. QueueTypes'
  BY <1>1, <1>2, <1>7 DEF SearchInv, QueueTypes
<1>11. RowsWereSaved'
  <2>1. \A x \in AllItems' : task'[x.task].status # "none"
    BY <1>1, <1>9 DEF SearchInv, RowsWereSaved
  <2> QED  BY <1>1, <1>2, <2>1 DEF SearchInv, RowsWereSaved
<1>12. WorkerHasOne' /\ WithoutRow'
  <2>1. queue' # <<>> => queue # <<>>
    BY <1>1
  <2> QED  BY <1>1, <1>2, <2>1 DEF SearchInv, WorkerHasOne, WithoutRow
<1>13. Owned'
  <2>1. \A d : HasItem(d)' <=> HasItem(d)
    BY <1>9 DEF HasItem
  <2> QED  BY <1>1, <1>2, <2>1 DEF SearchInv, Owned
<1> QED  BY <1>10, <1>11, <1>12, <1>13 DEF SearchInv

(* A step of the worker that hands no item on and writes no row.           *)
LEMMA WorkerMoves ==
  ASSUME SearchInv, UNCHANGED <<task, call, retry, edit, resume>>,
         queue' \in Seq(Items), running' \in BOOLEAN, worker' \in WorkerState,
         AllItems' = AllItems, WorkerHasOne', WithoutRow'
  PROVE  SearchInv'
<1>1. QueueTypes'
  BY DEF SearchInv, QueueTypes
<1>2. RowsWereSaved'
  BY DEF SearchInv, RowsWereSaved
<1>3. Owned'
  BY DEF SearchInv, Owned, HasItem
<1> QED  BY <1>1, <1>2, <1>3 DEF SearchInv

LEMMA Picking ==
  ASSUME SearchInv, Pick
  PROVE  SearchInv'
<1>1. /\ queue \in Seq(Items) /\ running \in BOOLEAN /\ worker \in WorkerState
      /\ worker.pc = "pick" /\ worker.item = {}
  BY DEF SearchInv, QueueTypes, WorkerHasOne, Pick
<1>2. UNCHANGED <<task, call, retry, edit, resume>>
  BY DEF Pick, taskVars
<1>3. CASE queue = <<>>
  <2>1. running' = FALSE /\ worker' = Off /\ queue' = queue
    BY <1>3 DEF Pick
  <2>2. Off \in WorkerState /\ Off.pc = "off" /\ Off.item = {}
    BY DEF Off, WorkerState
  <2>3. AllItems' = AllItems
    BY <1>1, <1>2, <2>1, <2>2 DEF AllItems
  <2>4. WorkerHasOne' /\ WithoutRow'
    BY <1>3, <2>1, <2>2 DEF WorkerHasOne, WithoutRow
  <2> QED  BY <1>1, <1>2, <2>1, <2>2, <2>3, <2>4, WorkerMoves
<1>4. CASE queue # <<>>
  <2> DEFINE n == BestItem(queue)
             w == [pc |-> "begin", item |-> {queue[n]}, row |-> {}]
  <2>1. queue' = RemoveAt(queue, n) /\ worker' = w /\ running' = running
    BY <1>4 DEF Pick
  <2>2. n \in 1 .. Len(queue)
    BY <1>1, <1>4, BestIsThere
  <2> HIDE DEF n
  <2>3. /\ RemoveAt(queue, n) \in Seq(Items) /\ queue[n] \in Items
        /\ ToSet(RemoveAt(queue, n)) \cup {queue[n]} = ToSet(queue)
    BY <1>1, <2>2, TakenAndLeft
  <2>4. w \in WorkerState /\ w.pc = "begin" /\ w.item = {queue[n]}
    BY <2>3 DEF WorkerState
  <2> HIDE DEF w
  <2>5. AllItems' = AllItems
    BY <1>1, <1>2, <2>1, <2>3, <2>4 DEF AllItems
  <2>6. running
    BY <1>1 DEF SearchInv, WorkerHasOne
  <2>7. WorkerHasOne' /\ WithoutRow'
    BY <2>1, <2>3, <2>4, <2>6 DEF WorkerHasOne, WithoutRow
  <2> QED  BY <1>1, <1>2, <2>1, <2>3, <2>4, <2>5, <2>7, WorkerMoves
<1> QED  BY <1>3, <1>4

LEMMA Searching ==
  ASSUME SearchInv, Search
  PROVE  SearchInv'
<1>1. /\ queue \in Seq(Items) /\ running \in BOOLEAN /\ worker \in WorkerState
      /\ worker.pc = "search"
  BY DEF SearchInv, QueueTypes, Search
<1>2. UNCHANGED <<task, call, retry, edit, queue, running, resume>>
  BY DEF Search, queueVars
<1>3. PICK step \in {"finish", "fail"} : worker' = [worker EXCEPT !.pc = step]
  BY DEF Search
<1>4. /\ worker' \in WorkerState /\ worker'.pc = step
      /\ worker'.item = worker.item /\ worker'.row = worker.row
  BY <1>1, <1>3 DEF WorkerState
<1>5. AllItems' = AllItems
  BY <1>2, <1>4 DEF AllItems
<1>6. WorkerHasOne'
  BY <1>1, <1>2, <1>4 DEF SearchInv, WorkerHasOne
<1>7. WithoutRow'
  BY <1>1, <1>2, <1>4 DEF SearchInv, WithoutRow
<1> QED  BY <1>1, <1>2, <1>4, <1>5, <1>6, <1>7, WorkerMoves

(* The item the worker has.                                                *)
LEMMA WorkersItem ==
  ASSUME SearchInv, worker.pc \notin {"off", "pick"}
  PROVE  \E i \in Items : /\ worker.item = {i} /\ i \in AllItems /\ i.task \in SearchCalls
                          /\ task[i.task] \in TaskRow /\ task[i.task].status # "none"
                          /\ call[i.task] \notin {"idle", "listed"}
<1>1. PICK i \in Items : worker.item = {i}
  BY DEF SearchInv, WorkerHasOne
<1>2. i \in AllItems /\ i.task \in SearchCalls
  BY <1>1, ItemFields DEF AllItems
<1>3. task[i.task] \in TaskRow /\ task[i.task].status # "none"
  BY <1>2 DEF SearchInv, QueueTypes, RowsWereSaved
<1>4. call[i.task] \notin {"idle", "listed"}
  BY <1>2, <1>3 DEF SearchInv, RowsWereSaved
<1> QED  BY <1>1, <1>2, <1>3, <1>4

(* The row of the worker's task is marked.                                 *)
LEMMA Beginning ==
  ASSUME SearchInv, BeginSearch
  PROVE  SearchInv'
<1>1. /\ worker \in WorkerState /\ worker.pc = "begin" /\ task \in [SearchCalls -> TaskRow]
  BY DEF SearchInv, QueueTypes, BeginSearch
<1>2. PICK i \in Items : /\ worker.item = {i} /\ i \in AllItems /\ i.task \in SearchCalls
                         /\ task[i.task] \in TaskRow /\ task[i.task].status # "none"
                         /\ call[i.task] \notin {"idle", "listed"}
  BY <1>1, WorkersItem
<1> DEFINE c == i.task
           there == task[c].status # "deleted"
           k == [i EXCEPT !.force = @ \/ (there /\ task[c].force)]
           rows == IF there THEN {task[c].prio} ELSE {}
           w == [worker EXCEPT !.pc = "search", !.row = rows, !.item = {k}]
<1>3. /\ worker' = w
      /\ task' = IF there THEN [task EXCEPT ![c].status = "searching"] ELSE task
  BY <1>2 DEF BeginSearch
<1>4. UNCHANGED <<call, retry, edit, queue, running, resume>>
  BY DEF BeginSearch, queueVars
<1>5. k \in Items /\ k.task = c
  BY <1>2 DEF Items
<1>6. rows \subseteq Int /\ (rows = {} => ~there)
  BY <1>2, RowFields
<1>7. \E row \in TaskRow :
        /\ task' = [task EXCEPT ![c] = row]
        /\ row.status = IF there THEN "searching" ELSE "deleted"
  <2>1. CASE there
    <3> DEFINE row == [task[c] EXCEPT !.status = "searching"]
    <3>1. row \in TaskRow /\ row.status = "searching"
      BY <1>2 DEF TaskRow, Pending
    <3>2. task' = [task EXCEPT ![c] = row]
      BY <1>3, <2>1
    <3> HIDE DEF row
    <3> QED  BY <2>1, <3>1, <3>2
  <2>2. CASE ~there
    <3>1. task' = [task EXCEPT ![c] = task[c]]
      BY <1>1, <1>3, <2>2
    <3> QED  BY <1>2, <2>2, <3>1
  <2> QED  BY <2>1, <2>2
<1> HIDE DEF k, rows
<1>8. w \in WorkerState /\ w.pc = "search" /\ w.row = rows /\ w.item = {k}
  BY <1>1, <1>5, <1>6 DEF WorkerState
<1> HIDE DEF w
<1>9. /\ task' \in [SearchCalls -> TaskRow]
      /\ task'[c].status = IF there THEN "searching" ELSE "deleted"
      /\ \A d \in SearchCalls : d # c => task'[d] = task[d]
  BY <1>1, <1>2, <1>7
<1>10. /\ \A x \in AllItems' : x \in AllItems \/ x.task = c
       /\ \A x \in AllItems : \E y \in AllItems' : y.task = x.task
  BY <1>2, <1>3, <1>4, <1>5, <1>8 DEF AllItems
<1>11. \A x \in AllItems : x.task \in SearchCalls
  BY ItemsAreTyped
<1>12. QueueTypes'
  BY <1>3, <1>4, <1>8, <1>9 DEF SearchInv, QueueTypes
<1>13. RowsWereSaved'
  <2>1. \A d \in SearchCalls : task[d].status # "none" <=> task'[d].status # "none"
    BY <1>2, <1>9
  <2>2. task'[c].status # "none"
    BY <1>9
  <2>3. \A x \in AllItems' : task'[x.task].status # "none"
    BY <1>10, <1>11, <2>1, <2>2 DEF SearchInv, RowsWereSaved
  <2>4. resume.drop \subseteq SearchCalls
    BY DEF SearchInv, QueueTypes, ResumeState
  <2> QED  BY <1>4, <2>1, <2>3, <2>4 DEF SearchInv, RowsWereSaved
<1>14. WorkerHasOne'
  BY <1>1, <1>3, <1>4, <1>5, <1>8 DEF SearchInv, WorkerHasOne
<1>15. WithoutRow'
  BY <1>3, <1>5, <1>6, <1>8, <1>9 DEF WithoutRow
<1>16. Owned'
  <2>1. \A d : HasItem(d) => HasItem(d)'
    BY <1>10 DEF HasItem
  <2>2. HasItem(c)'
    BY <1>2, <1>10 DEF HasItem
  <2> QED  BY <1>4, <1>9, <2>1, <2>2 DEF SearchInv, Owned
<1> QED  BY <1>12, <1>13, <1>14, <1>15, <1>16 DEF SearchInv

(* finishTask: the row is gone, or says that the task failed.              *)
LEMMA Finishing ==
  ASSUME SearchInv, FinishTask
  PROVE  SearchInv'
<1>1. /\ worker \in WorkerState /\ worker.pc \in {"finish", "fail"}
      /\ task \in [SearchCalls -> TaskRow]
  BY DEF SearchInv, QueueTypes, FinishTask
<1>2. PICK i \in Items : /\ worker.item = {i} /\ i \in AllItems /\ i.task \in SearchCalls
                         /\ task[i.task] \in TaskRow /\ task[i.task].status # "none"
                         /\ call[i.task] \notin {"idle", "listed"}
  BY <1>1, WorkersItem
<1> DEFINE c == i.task
           w == [Off EXCEPT !.pc = "pick"]
<1>3. worker' = w /\ UNCHANGED <<call, retry, edit, queue, running, resume>>
  BY DEF FinishTask, queueVars
<1>4. w \in WorkerState /\ w.pc = "pick" /\ w.item = {}
  BY DEF WorkerState, Off
<1> HIDE DEF w
<1>5. \E row \in TaskRow : /\ task' = [task EXCEPT ![c] = row]
                           /\ row.status \in {"deleted", "failed"}
  <2>1. CASE worker.row = {} \/ task[c].status = "deleted"
    <3>1. task' = task
      BY <1>2, <2>1 DEF FinishTask
    <3>2. task[c].status = "deleted"
      BY <1>1, <1>2, <2>1 DEF SearchInv, WithoutRow
    <3>3. task' = [task EXCEPT ![c] = task[c]]
      BY <1>1, <3>1
    <3> QED  BY <1>2, <3>2, <3>3
  <2>2. CASE ~(worker.row = {} \/ task[c].status = "deleted") /\ worker.pc = "finish"
    <3> DEFINE row == [task[c] EXCEPT !.status = "deleted"]
    <3>1. row \in TaskRow /\ row.status = "deleted"
      BY <1>2 DEF TaskRow
    <3>2. task' = [task EXCEPT ![c] = row]
      BY <1>2, <2>2 DEF FinishTask
    <3> HIDE DEF row
    <3> QED  BY <3>1, <3>2
  <2>3. CASE ~(worker.row = {} \/ task[c].status = "deleted") /\ worker.pc = "fail"
    <3>1. PICK p \in worker.row : task' = [task EXCEPT ![c].status = "failed", ![c].prio = p]
      BY <1>2, <2>3 DEF FinishTask
    <3>2. p \in Int
      BY <1>1 DEF WorkerState
    <3> DEFINE row == [task[c] EXCEPT !.status = "failed", !.prio = p]
    <3>3. row \in TaskRow /\ row.status = "failed"
      BY <1>2, <3>2 DEF TaskRow
    <3>4. task' = [task EXCEPT ![c] = row]
      BY <1>1, <1>2, <3>1
    <3> HIDE DEF row
    <3> QED  BY <3>3, <3>4
  <2> QED  BY <1>1, <2>1, <2>2, <2>3
<1>6. /\ task' \in [SearchCalls -> TaskRow] /\ task'[c].status \in {"deleted", "failed"}
      /\ \A d \in SearchCalls : d # c => task'[d] = task[d]
  BY <1>1, <1>2, <1>5
<1>7. AllItems' \subseteq AllItems /\ \A x \in AllItems : x = i \/ x \in AllItems'
  BY <1>2, <1>3, <1>4 DEF AllItems
<1>8. QueueTypes'
  BY <1>3, <1>4, <1>6 DEF SearchInv, QueueTypes
<1>9. RowsWereSaved'
  <2>1. \A d \in SearchCalls : task[d].status # "none" <=> task'[d].status # "none"
    BY <1>2, <1>6
  <2>2. \A x \in AllItems' : task'[x.task].status # "none"
    BY <1>7, <2>1, ItemsAreTyped DEF SearchInv, RowsWereSaved
  <2>3. resume.drop \subseteq SearchCalls
    BY DEF SearchInv, QueueTypes, ResumeState
  <2> QED  BY <1>3, <2>1, <2>2, <2>3 DEF SearchInv, RowsWereSaved
<1>10. WorkerHasOne' /\ WithoutRow'
  BY <1>1, <1>3, <1>4 DEF SearchInv, WorkerHasOne, WithoutRow
<1>11. Owned'
  <2>1. \A d : d # c /\ HasItem(d) => HasItem(d)'
    BY <1>7 DEF HasItem
  <2>2. task'[c].status \notin Pending
    BY <1>6 DEF Pending
  <2> QED  BY <1>3, <1>6, <2>1, <2>2 DEF SearchInv, Owned
<1> QED  BY <1>8, <1>9, <1>10, <1>11 DEF SearchInv

(* What the resumption lists has a pending row.                            *)
LEMMA ResumptionLists ==
  ASSUME SearchInv, ResumeList
  PROVE  SearchInv'
<1> DEFINE drop == {c \in ToResume : mat[CallRelease[c]] # "none"}
           S == ToResume \ drop
<1>1. PICK items \in InOrder(S) :
        resume' = [pc |-> "listed", items |-> items, drop |-> drop]
  BY DEF ResumeList
<1>2. UNCHANGED <<task, call, retry, edit, queue, running, worker>> /\ resume.pc = "waiting"
  BY DEF ResumeList, taskVars, queueVars
<1>3. /\ task \in [SearchCalls -> TaskRow] /\ S \subseteq SearchCalls /\ drop \subseteq SearchCalls
      /\ \A c \in S \cup drop : task[c].status \in Pending /\ task[c].status # "none"
  BY DEF SearchInv, QueueTypes, ToResume, Pending
<1>4. \A c \in SearchCalls : task[c].status \in Pending => c \in S \cup drop
  BY DEF ToResume
<1> HIDE DEF drop, S
<1>5. PICK s \in Ascending(S) :
        items = [i \in DOMAIN s |-> Item(s[i], task[s[i]].force, task[s[i]].prio)]
  BY <1>1 DEF InOrder
<1>6. /\ DOMAIN s = 1 .. Cardinality(S) /\ \A i \in DOMAIN s : s[i] \in S
      /\ ToSet(s) = S /\ Cardinality(S) \in Nat
  <2>1. IsFiniteSet(S)
    BY <1>3, SearchQueueAssumption, FS_Subset
  <2> QED  BY <2>1, FS_CardinalityType DEF Ascending
<1>7. \A i \in DOMAIN s : /\ items[i] \in Items /\ items[i].task = s[i]
  <2>1. SUFFICES ASSUME NEW i \in DOMAIN s
                 PROVE  items[i] \in Items /\ items[i].task = s[i]
    OBVIOUS
  <2>2. s[i] \in SearchCalls /\ task[s[i]].force \in BOOLEAN /\ task[s[i]].prio \in Int
    BY <1>3, <1>6, RowFields
  <2> QED  BY <1>5, <2>2, ItemFields
<1>8. items \in Seq(Items) /\ DOMAIN items = DOMAIN s
  BY <1>5, <1>6, <1>7
<1>9. /\ \A x \in ToSet(items) : x.task \in S
      /\ \A c \in S : \E x \in ToSet(items) : x.task = c
  BY <1>6, <1>7, <1>8 DEF ToSet
<1>10. resume' \in ResumeState /\ resume'.items = items /\ resume'.drop = drop
  BY <1>1, <1>3, <1>8 DEF ResumeState
<1>11. /\ \A x \in AllItems' : x \in AllItems \/ x.task \in S
       /\ ToSet(items) \subseteq AllItems'
  BY <1>2, <1>9, <1>10 DEF AllItems
<1>12. QueueTypes'
  BY <1>2, <1>10 DEF SearchInv, QueueTypes
<1>13. RowsWereSaved'
  BY <1>2, <1>3, <1>10, <1>11 DEF SearchInv, RowsWereSaved
<1>14. WorkerHasOne' /\ WithoutRow'
  BY <1>2 DEF SearchInv, WorkerHasOne, WithoutRow
<1>15. Owned'
  <2>1. \A c \in S : HasItem(c)'
    BY <1>9, <1>11 DEF HasItem
  <2> QED  BY <1>2, <1>4, <1>10, <2>1 DEF Owned
<1> QED  BY <1>12, <1>13, <1>14, <1>15 DEF SearchInv

LEMMA Dropping ==
  ASSUME SearchInv, ResumeDrop
  PROVE  SearchInv'
<1>1. /\ task' = [c \in SearchCalls |-> IF c \in resume.drop
                                        THEN [task[c] EXCEPT !.status = "deleted"] ELSE task[c]]
      /\ resume' = [resume EXCEPT !.pc = "dropped", !.drop = {}]
      /\ UNCHANGED <<call, retry, edit, queue, running, worker>>
      /\ resume.pc = "listed"
  BY DEF ResumeDrop, queueVars
<1>2. /\ task \in [SearchCalls -> TaskRow] /\ resume \in ResumeState
  BY DEF SearchInv, QueueTypes
<1>3. /\ resume' \in ResumeState /\ resume'.items = resume.items /\ resume'.drop = {}
      /\ resume'.pc = "dropped"
  BY <1>1, <1>2 DEF ResumeState
<1>4. \A c \in SearchCalls : [task[c] EXCEPT !.status = "deleted"] \in TaskRow
  BY <1>2 DEF TaskRow
<1>5. /\ task' \in [SearchCalls -> TaskRow]
      /\ \A c \in SearchCalls : IF c \in resume.drop THEN task'[c].status = "deleted"
                                                     ELSE task'[c] = task[c]
  <2>1. \A c \in SearchCalls : [task[c] EXCEPT !.status = "deleted"].status = "deleted"
    BY <1>2 DEF TaskRow
  <2> QED  BY <1>1, <1>2, <1>4, <2>1
<1>6. AllItems' = AllItems
  BY <1>1, <1>3 DEF AllItems
<1>7. QueueTypes'
  BY <1>1, <1>3, <1>5 DEF SearchInv, QueueTypes
<1>8. RowsWereSaved'
  <2>1. \A c \in SearchCalls : task'[c].status = "none" <=> task[c].status = "none"
    BY <1>5 DEF SearchInv, RowsWereSaved
  <2>2. \A x \in AllItems' : task'[x.task].status # "none"
    BY <1>6, <2>1, ItemsAreTyped DEF SearchInv, RowsWereSaved
  <2> QED  BY <1>1, <1>3, <2>1, <2>2 DEF SearchInv, RowsWereSaved
<1>9. WorkerHasOne'
  BY <1>1 DEF SearchInv, WorkerHasOne
<1>10. WithoutRow'
  <2>1. \A i \in worker.item : i.task \in SearchCalls
    BY ItemFields DEF SearchInv, QueueTypes, WorkerState
  <2> QED  BY <1>1, <1>5, <2>1 DEF SearchInv, WithoutRow
<1>11. Owned'
  <2>1. \A d : HasItem(d)' <=> HasItem(d)
    BY <1>6 DEF HasItem
  <2>2. "deleted" \notin Pending
    BY DEF Pending
  <2> QED  BY <1>1, <1>3, <1>5, <2>1, <2>2 DEF SearchInv, Owned
<1> QED  BY <1>7, <1>8, <1>9, <1>10, <1>11 DEF SearchInv

LEMMA NothingListed ==
  /\ Waiting.pc = "waiting" /\ Waiting.drop = {} /\ ToSet(Waiting.items) = {} /\ Waiting \in ResumeState
  /\ [Waiting EXCEPT !.pc = "over"].pc = "over" /\ [Waiting EXCEPT !.pc = "over"].drop = {}
  /\ ToSet([Waiting EXCEPT !.pc = "over"].items) = {} /\ [Waiting EXCEPT !.pc = "over"] \in ResumeState
<1>1. <<>> \in Seq(Items) /\ ToSet(<<>>) = {}
  BY DEF ToSet
<1>2. /\ Waiting.pc = "waiting" /\ Waiting.drop = {} /\ Waiting.items = <<>>
      /\ [Waiting EXCEPT !.pc = "over"].pc = "over"
      /\ [Waiting EXCEPT !.pc = "over"].drop = {} /\ [Waiting EXCEPT !.pc = "over"].items = <<>>
  BY DEF Waiting
<1>3. Waiting \in ResumeState /\ [Waiting EXCEPT !.pc = "over"] \in ResumeState
  BY <1>1 DEF Waiting, ResumeState
<1> QED  BY <1>1, <1>2, <1>3

(* What was listed is queued.                                              *)
LEMMA Resuming ==
  ASSUME SearchInv, ResumeEnqueue, resume.pc = "dropped" => resume.drop = {}
  PROVE  SearchInv'
<1>1. /\ resume.pc = "dropped" /\ resume.drop = {}
      /\ resume' = [Waiting EXCEPT !.pc = "over"]
      /\ UNCHANGED <<task, call, retry, edit>>
  BY DEF ResumeEnqueue, taskVars
<1>2. /\ call \in [SearchCalls -> {"idle", "listed", "saved", "done"}]
      /\ retry \in [SearchCalls -> {"no", "listed", "saved"}]
      /\ resume \in ResumeState /\ resume.items \in Seq(Items)
      /\ queue \in Seq(Items) /\ running \in BOOLEAN /\ worker \in WorkerState
  BY DEF SearchInv, QueueTypes, ResumeState
<1>3. /\ resume'.pc = "over" /\ resume'.drop = {} /\ ToSet(resume'.items) = {}
      /\ resume' \in ResumeState
  BY <1>1, NothingListed
<1>4. CASE resume.items # <<>>
  <2>1. Enqueue(resume.items)
    BY <1>4 DEF ResumeEnqueue
  <2>2. \A i \in ToSet(resume.items) : task[i.task].status # "none"
    BY DEF SearchInv, RowsWereSaved, AllItems
  <2> QED  BY <1>1, <1>2, <1>3, <2>1, <2>2, QueueingStep
<1>5. CASE resume.items = <<>>
  <2>1. UNCHANGED <<queue, running, worker>>
    BY <1>5 DEF ResumeEnqueue, queueVars
  <2>2. ToSet(resume.items) = {}
    BY <1>5 DEF ToSet
  <2>3. AllItems' = AllItems
    BY <1>3, <2>1, <2>2 DEF AllItems
  <2>4. QueueTypes'
    BY <1>1, <1>3, <2>1 DEF SearchInv, QueueTypes
  <2>5. RowsWereSaved'
    BY <1>1, <1>3, <2>3 DEF SearchInv, RowsWereSaved
  <2>6. WorkerHasOne' /\ WithoutRow'
    BY <1>1, <2>1 DEF SearchInv, WorkerHasOne, WithoutRow
  <2>7. \A d : HasItem(d)' <=> HasItem(d)
    BY <2>3 DEF HasItem
  <2>8. Owned'
    BY <1>1, <2>7 DEF SearchInv, Owned
  <2> QED  BY <2>4, <2>5, <2>6, <2>8 DEF SearchInv
<1> QED  BY <1>4, <1>5

(* The server is killed: the resumption of the next one will list.         *)
LEMMA Restarting ==
  ASSUME SearchInv, ServerRestart
  PROVE  SearchInv'
<1>1. /\ call' = [c \in SearchCalls |-> IF call[c] = "idle" THEN "idle" ELSE "done"]
      /\ retry' = [c \in SearchCalls |-> "no"]
      /\ edit' = {} /\ queue' = <<>> /\ running' = FALSE
      /\ worker' = Off /\ resume' = Waiting /\ task' = task
  BY DEF ServerRestart, taskVars
<1>2. Off \in WorkerState /\ Off.pc = "off" /\ Off.item = {}
  BY DEF Off, WorkerState
<1>3. AllItems' = {}
  <2>1. ToSet(<<>>) = {}
    BY DEF ToSet
  <2> QED  BY <1>1, <1>2, <2>1, NothingListed DEF AllItems
<1>4. QueueTypes'
  <2>1. queue' \in Seq(Items)
    BY <1>1
  <2> QED  BY <1>1, <1>2, <2>1, NothingListed DEF SearchInv, QueueTypes
<1>5. RowsWereSaved'
  <2>1. \A c \in SearchCalls : call'[c] # "saved" /\ retry'[c] = "no"
    BY <1>1
  <2>2. \A c \in SearchCalls : call'[c] \in {"idle", "listed"} => call[c] = "idle"
    BY <1>1
  <2> QED  BY <1>1, <1>3, <2>1, <2>2, NothingListed DEF SearchInv, RowsWereSaved
<1>6. WorkerHasOne' /\ WithoutRow'
  BY <1>1, <1>2 DEF WorkerHasOne, WithoutRow
<1>7. Owned'
  BY <1>1, NothingListed DEF Owned
<1> QED  BY <1>4, <1>5, <1>6, <1>7 DEF SearchInv

(* Nothing that the invariant is about changes.                            *)
LEMMA QueueRests ==
  ASSUME SearchInv, UNCHANGED <<task, call, retry, edit, queueVars, worker, resume>>
  PROVE  SearchInv'
<1> USE DEF queueVars
<1>1. AllItems' = AllItems
  BY DEF AllItems
<1>2. QueueTypes' /\ WorkerHasOne' /\ WithoutRow'
  BY DEF SearchInv, QueueTypes, WorkerHasOne, WithoutRow
<1>3. RowsWereSaved'
  BY <1>1 DEF SearchInv, RowsWereSaved
<1>4. Owned'
  BY <1>1 DEF SearchInv, Owned, HasItem
<1> QED  BY <1>2, <1>3, <1>4 DEF SearchInv

(* Once the resumption has dropped tasks there are none left to drop.      *)
DroppedOnce == resume.pc \in {"waiting", "dropped", "over"} => resume.drop = {}

LEMMA DroppedStep ==
  ASSUME SearchInv, DroppedOnce, [SearchNext]_searchVars
  PROVE  DroppedOnce'
<1>1. CASE resume' = resume
  BY <1>1 DEF DroppedOnce
<1>2. CASE ResumeList
  <2>1. resume'.pc = "listed"
    BY <1>2 DEF ResumeList
  <2> QED  BY <2>1 DEF DroppedOnce
<1>3. CASE ResumeDrop
  <2>1. resume \in ResumeState
    BY DEF SearchInv, QueueTypes
  <2>2. resume'.drop = {}
    BY <1>3, <2>1 DEF ResumeDrop, ResumeState
  <2> QED  BY <2>2 DEF DroppedOnce
<1>4. CASE ResumeEnqueue \/ ServerRestart
  <2>1. resume' = [Waiting EXCEPT !.pc = "over"] \/ resume' = Waiting
    BY <1>4 DEF ResumeEnqueue, ServerRestart
  <2>2. resume'.drop = {}
    BY <2>1, NothingListed
  <2> QED  BY <2>2 DEF DroppedOnce
<1>5. \/ resume' = resume \/ ResumeList \/ ResumeDrop \/ ResumeEnqueue \/ ServerRestart
  BY DEF SearchNext, WorkerStep, ResumeStep, CallStep, Pick, BeginSearch, Search, FinishTask,
         ListTaskRows, CreateTask, EnqueueTask, RetryTask, EditTaskPriority, RemoveTask,
         DownloadEnds, searchVars
<1> QED  BY <1>1, <1>2, <1>3, <1>4, <1>5

LEMMA SearchQueueStart ==
  ASSUME SearchInit  PROVE SearchInv /\ DroppedOnce
<1>1. AllItems = {}
  <2>1. ToSet(<<>>) = {}
    BY DEF ToSet
  <2> QED  BY <2>1, NothingListed DEF SearchInit, AllItems, Off
<1>2. NoTask \in TaskRow /\ NoTask.status = "none"
  BY DEF NoTask, TaskRow
<1>3. Off \in WorkerState /\ Off.pc = "off" /\ Off.item = {}
  BY DEF Off, WorkerState
<1>4. QueueTypes
  <2>1. queue \in Seq(Items)
    BY DEF SearchInit
  <2> QED  BY <1>2, <1>3, <2>1, NothingListed DEF SearchInit, QueueTypes
<1>5. RowsWereSaved
  BY <1>1, <1>2, NothingListed DEF SearchInit, RowsWereSaved
<1>6. WorkerHasOne /\ WithoutRow
  BY <1>3 DEF SearchInit, WorkerHasOne, WithoutRow
<1>7. Owned
  BY NothingListed DEF SearchInit, Owned
<1>8. DroppedOnce
  BY NothingListed DEF SearchInit, DroppedOnce
<1> QED  BY <1>4, <1>5, <1>6, <1>7, <1>8 DEF SearchInv

LEMMA SearchQueueStep ==
  ASSUME SearchInv, DroppedOnce, [SearchNext]_searchVars
  PROVE  SearchInv'
<1>1. ASSUME NEW c \in SearchCalls, EditTaskPriority(c)  PROVE SearchInv'
  BY <1>1, EditInQueue, HandlersWrite
<1>2. ASSUME NEW c \in SearchCalls, RetryTask(c)  PROVE SearchInv'
  BY <1>2, HandlersQueue, HandlersWrite
<1>3. ASSUME NEW c \in SearchCalls, ListTaskRows(c) \/ CallStep(c) \/ RemoveTask(c)
      PROVE SearchInv'
  BY <1>3, HandlersQueue, HandlersWrite DEF CallStep
<1>4. CASE WorkerStep
  BY <1>4, Picking, Beginning, Searching, Finishing DEF WorkerStep
<1>5. CASE ResumeStep
  BY <1>5, ResumptionLists, Dropping, Resuming DEF ResumeStep, DroppedOnce
<1>6. CASE ServerRestart
  BY <1>6, Restarting
<1>7. CASE (\E rel \in Releases : DownloadEnds(rel)) \/ UNCHANGED searchVars
  BY <1>7, QueueRests DEF DownloadEnds, searchVars, taskVars
<1> QED  BY <1>1, <1>2, <1>3, <1>4, <1>5, <1>6, <1>7 DEF SearchNext

(* A task whose row is pending is queued, or with the worker, or a handler *)
(* is about to queue it, or the resumption after a restart will; and a     *)
(* queue that is not empty has a worker (enqueueBulkReleaseItems,          *)
(* runBulkReleaseJobs, resumeSearchDownloadTasks).                         *)
THEOREM PendingTasksAreOwned == SearchSpec => []PendingTaskIsOwned
<1>1. SearchInit => SearchInv /\ DroppedOnce
  BY SearchQueueStart
<1>2. SearchInv /\ DroppedOnce /\ [SearchNext]_searchVars => SearchInv' /\ DroppedOnce'
  BY SearchQueueStep, DroppedStep
<1>3. SearchInv => PendingTaskIsOwned
  <2>1. SUFFICES ASSUME SearchInv  PROVE PendingTaskIsOwned
    OBVIOUS
  <2>2. ASSUME NEW c \in SearchCalls, HasItem(c)
        PROVE  QueuedTasks(c) \/ Working(c) \/ \E i \in DOMAIN resume.items : resume.items[i].task = c
    BY <2>2 DEF HasItem, AllItems, ToSet, QueuedTasks, Working
  <2>3. queue # <<>> => worker.pc # "off"
    BY <2>1 DEF SearchInv, WorkerHasOne
  <2>4. \A c \in SearchCalls : task[c].status \in Pending =>
       QueuedTasks(c) \/ Working(c) \/ call[c] = "saved" \/ retry[c] = "saved" \/ Resumed(c)
    BY <2>1, <2>2 DEF SearchInv, Owned, Resumed
  <2> QED  BY <2>3, <2>4 DEF PendingTaskIsOwned
<1> QED  BY <1>1, <1>2, <1>3, PTL DEF SearchSpec

-----------------------------------------------------------------------------
(***************************************************************************)
(* The drive (AccountDrive), for any copies and rows, any number of        *)
(* attempts and of runs.                                                   *)
(***************************************************************************)

USE DriveAssumption

(* The state of rows and of the run, as DriveTypeOK has them.              *)
HttpRow == [file : Copies \cup {NoCopy}, owned : BOOLEAN,
            state : {"absent", "active", "failed", "completed", "deleted"}]
Places == {"none", "resolve", "account", "restore", "reconcile", "poll", "details",
           "transfer", "cleanup"}
RunState ==
  [row : HttpRows \cup {0}, pc : Places, tries : 0 .. ResolveAttempts, before : SUBSET Copies,
   submits : 0 .. RestoreAttempts, file : Copies \cup {NoCopy}, newly : BOOLEAN,
   cleanups : SUBSET Copies, held : HttpRow, again : BOOLEAN]

-----------------------------------------------------------------------------
(* Types, and that a copy whose details are asked for is one.              *)

LEMMA BlankTypes == BlankRow \in HttpRow /\ NotRunning \in RunState
BY DEF BlankRow, NotRunning, HttpRow, RunState, Places

Typed == /\ drive \in [Copies -> {"absent", "coming", "shown", "trashed", "deleted"}]
         /\ users \subseteq Copies /\ cleanupSet \in BOOLEAN /\ starts \in 0 .. MaxStarts
         /\ account \in [HttpRows -> HttpRow] /\ run \in RunState
         /\ run.pc = "details" => run.file \in Copies

LEMMA TypesUnfold == Typed => DriveTypeOK
BY DEF DriveTypeOK, Typed, HttpRow, RunState, Places

LEMMA SaveRowTypes ==
  ASSUME account \in [HttpRows -> HttpRow], NEW row \in HttpRow, SaveRow(row)
  PROVE  account' \in [HttpRows -> HttpRow]
BY DEF SaveRow

LEMMA FailRunTypes ==
  ASSUME account \in [HttpRows -> HttpRow], run \in RunState, FailRun
  PROVE  account' \in [HttpRows -> HttpRow] /\ run' \in RunState /\ run'.pc # "details"
<1>1. [run.held EXCEPT !.state = "failed"] \in HttpRow
  BY DEF RunState, HttpRow
<1> QED  BY <1>1, SaveRowTypes, BlankTypes DEF FailRun, NotRunning

LEMMA AttemptFailsTypes ==
  ASSUME account \in [HttpRows -> HttpRow], run \in RunState, AttemptFails
  PROVE  account' \in [HttpRows -> HttpRow] /\ run' \in RunState /\ run'.pc # "details"
<1>0. ResolveAttempts \in Nat /\ run.tries \in 0 .. ResolveAttempts
  BY DriveAssumption DEF RunState
<1>1. CASE run.tries < ResolveAttempts /\ UNCHANGED account
           /\ run' = [run EXCEPT !.pc = "resolve", !.tries = @ + 1]
  <2>1. run.tries + 1 \in 0 .. ResolveAttempts
    BY <1>0, <1>1
  <2> QED  BY <1>1, <2>1 DEF RunState, Places
<1>2. CASE FailRun
  BY <1>2, FailRunTypes
<1> QED  BY <1>1, <1>2 DEF AttemptFails

LEMMA FindRestoredTypes ==
  ASSUME run \in RunState, FindRestored
  PROVE  run' \in RunState /\ run'.file \in Copies
BY DEF FindRestored, IsNew, Visible, RunState, Places

LEMMA DeleteTypes ==
  ASSUME drive \in [Copies -> {"absent", "coming", "shown", "trashed", "deleted"}], NEW S, DeleteCopies(S)
  PROVE  drive' \in [Copies -> {"absent", "coming", "shown", "trashed", "deleted"}]
BY DEF DeleteCopies

LEMMA ResolvedTypes ==
  ASSUME Typed, Resolved
  PROVE  account' \in [HttpRows -> HttpRow] /\ run' \in RunState /\ run'.pc # "details"
<1> DEFINE row == [run.held EXCEPT !.file = run.file, !.owned = @ \/ run.newly]
<1>1. run.held \in HttpRow /\ run.file \in Copies \cup {NoCopy} /\ run.newly \in BOOLEAN
  BY DEF Typed, RunState
<1>2. row \in HttpRow
  BY <1>1 DEF HttpRow
<1>3. run' = [run EXCEPT !.pc = "transfer", !.held = row,
                         !.cleanups = IF CleansUp THEN @ \cup {run.file} ELSE @]
      /\ IF run.again THEN UNCHANGED account ELSE SaveRow(row)
  BY DEF Resolved
<1>4. run.file \in Copies
  BY DEF Resolved, Typed
<1>5. run' \in RunState /\ run'.pc # "details"
  BY <1>2, <1>3, <1>4 DEF Typed, RunState, Places
<1>6. account' \in [HttpRows -> HttpRow]
  BY <1>2, <1>3, SaveRowTypes DEF Typed
<1> QED  BY <1>5, <1>6

LEMMA CleanUpTypes ==
  ASSUME Typed, CleanUp
  PROVE  Typed'
<1>1. PICK failing \in SUBSET run.cleanups :
        /\ DeleteCopies(run.cleanups \ failing)
        /\ SaveRow([run.held EXCEPT !.owned = @ /\ ~(run.cleanups # {} /\ failing = {}), !.state = "completed"])
  BY DEF CleanUp
<1>2. [run.held EXCEPT !.owned = @ /\ ~(run.cleanups # {} /\ failing = {}), !.state = "completed"] \in HttpRow
  BY DEF Typed, RunState, HttpRow
<1> QED  BY <1>1, <1>2, SaveRowTypes, DeleteTypes, BlankTypes
            DEF Typed, CleanUp, RunUnchanged, NotRunning

LEMMA TypesStep == Typed /\ [AccountNext]_driveVars => Typed'
<1> SUFFICES ASSUME Typed, [AccountNext]_driveVars  PROVE Typed'
  OBVIOUS
<1> USE DEF Typed
<1>1. ASSUME NEW c \in Copies, CopyAppears(c)  PROVE Typed'
  BY <1>1 DEF CopyAppears, RunUnchanged
<1>2. ASSUME NEW c \in Copies, UserDeletesCopy(c)  PROVE Typed'
  BY <1>2 DEF UserDeletesCopy, RunUnchanged
<1>3. ASSUME NEW r \in HttpRows, StartRow(r)  PROVE Typed'
  <2>1. account' \in [HttpRows -> HttpRow] /\ account'[r] \in HttpRow
    BY <1>3 DEF StartRow, HttpRow
  <2>2. 1 \in 0 .. ResolveAttempts
    BY DriveAssumption
  <2>3. run' \in RunState /\ run'.pc # "details"
    BY <1>3, <2>1, <2>2, BlankTypes DEF StartRow, RunState, Places, NotRunning
  <2>4. starts' \in 0 .. MaxStarts
    BY <1>3, DriveAssumption DEF StartRow
  <2> QED  BY <1>3, <2>1, <2>3, <2>4 DEF StartRow
<1>4. ASSUME NEW r \in HttpRows, RemoveRows(r)  PROVE Typed'
  BY <1>4, BlankTypes, DeleteTypes DEF NotRunning, RemoveRows, RunUnchanged, HttpRow, BlankRow
<1>5. ASSUME NEW r \in HttpRows, RemovalFails(r)  PROVE Typed'
  BY <1>5, BlankTypes, DeleteTypes DEF NotRunning, RemovalFails, RunUnchanged
<1>6. ASSUME InspectShare  PROVE Typed'
  BY <1>6 DEF InspectShare, Go, RunState, Places, RunUnchanged
<1>7. ASSUME ShareFails  PROVE Typed'
  BY <1>7, AttemptFailsTypes DEF ShareFails, RunUnchanged
<1>8. ASSUME SignInFails  PROVE Typed'
  BY <1>8, AttemptFailsTypes DEF SignInFails, RunUnchanged
<1>9. ASSUME Inventory  PROVE Typed'
  <2>1. CASE \E c \in Visible : UseExisting(c)
    <3>1. PICK c \in Visible : run' = [run EXCEPT !.pc = "details", !.file = c, !.newly = FALSE]
      BY <2>1 DEF UseExisting
    <3>2. c \in Copies
      BY DEF Visible
    <3>3. run' \in RunState /\ (run'.pc = "details" => run'.file \in Copies)
      BY <3>1, <3>2 DEF RunState, Places
    <3> QED  BY <1>9, <3>3 DEF Inventory, RunUnchanged
  <2>2. CASE run' = [run EXCEPT !.pc = "restore", !.before = Visible, !.submits = 1]
    <3>1. 1 \in 0 .. RestoreAttempts /\ Visible \in SUBSET Copies
      BY DriveAssumption DEF Visible
    <3>2. run' \in RunState /\ run'.pc # "details"
      BY <2>2, <3>1 DEF RunState, Places
    <3> QED  BY <1>9, <3>2 DEF Inventory, RunUnchanged
  <2> QED  BY <1>9, <2>1, <2>2 DEF Inventory
<1>10. ASSUME SubmitRestore  PROVE Typed'
  BY <1>10, AttemptFailsTypes DEF SubmitRestore, Go, Missing, RunState, Places, RunUnchanged
<1>11. ASSUME Reconcile  PROVE Typed'
  <2>1. CASE FindRestored /\ UNCHANGED account
    BY <1>11, <2>1, FindRestoredTypes DEF Reconcile, RunUnchanged
  <2>2. CASE /\ run.submits < RestoreAttempts /\ UNCHANGED account
             /\ run' = [run EXCEPT !.pc = "restore", !.submits = @ + 1]
    <3>1. RestoreAttempts \in Nat /\ run.submits \in 0 .. RestoreAttempts
      BY DriveAssumption DEF RunState
    <3>2. run.submits + 1 \in 0 .. RestoreAttempts
      BY <2>2, <3>1
    <3>3. run' \in RunState /\ run'.pc # "details"
      BY <2>2, <3>2 DEF RunState, Places
    <3> QED  BY <1>11, <2>2, <3>3 DEF Reconcile, RunUnchanged
  <2>3. CASE AttemptFails
    BY <1>11, <2>3, AttemptFailsTypes DEF Reconcile, RunUnchanged
  <2> QED  BY <1>11, <2>1, <2>2, <2>3 DEF Reconcile
<1>12. ASSUME PollRestore  PROVE Typed'
  BY <1>12, AttemptFailsTypes, FindRestoredTypes DEF PollRestore, RunUnchanged
<1>13. ASSUME Resolved  PROVE Typed'
  BY <1>13, ResolvedTypes DEF Resolved, RunUnchanged
<1>14. ASSUME DetailsFail  PROVE Typed'
  BY <1>14, AttemptFailsTypes DEF DetailsFail, RunUnchanged
<1>15. ASSUME SaveProgress  PROVE Typed'
  BY <1>15, SaveRowTypes DEF SaveProgress, RunUnchanged, RunState
<1>16. ASSUME ResolveAgain  PROVE Typed'
  <2>1. 1 \in 0 .. ResolveAttempts
    BY DriveAssumption
  <2> QED  BY <1>16, <2>1 DEF ResolveAgain, RunState, Places, RunUnchanged
<1>17. ASSUME TransferFails  PROVE Typed'
  BY <1>17, FailRunTypes DEF TransferFails, RunUnchanged
<1>18. ASSUME TransferSucceeds  PROVE Typed'
  BY <1>18 DEF TransferSucceeds, Go, RunState, Places, RunUnchanged
<1>19. ASSUME CleanUp  PROVE Typed'
  BY <1>19, CleanUpTypes DEF CleanUp, RunUnchanged
<1>20. ASSUME DriveCrash  PROVE Typed'
  BY <1>20, BlankTypes DEF NotRunning, DriveCrash, RunUnchanged
<1>21. ASSUME UNCHANGED driveVars  PROVE Typed'
  BY <1>21 DEF driveVars
<1> QED  BY <1>1, <1>2, <1>3, <1>4, <1>5, <1>6, <1>7, <1>8, <1>9, <1>10, <1>11, <1>12, <1>13,
            <1>14, <1>15, <1>16, <1>17, <1>18, <1>19, <1>20, <1>21
            DEF AccountNext

-----------------------------------------------------------------------------
(* A copy of the user's is where it was, or where the user has put it.     *)
TheirsAreLeft == \A c \in users : drive[c] \in {"shown", "trashed"}

(* What gives a download something to delete: a copy it restored, or is    *)
(* about to find restored.                                                 *)
Ours == \/ \E r \in HttpRows : account[r].owned
        \/ run.held.owned \/ run.cleanups # {} \/ run.newly
        \/ run.pc \in {"restore", "reconcile", "poll"}

(* It restores nothing while a copy of the user's is shown, and such a     *)
(* copy does not come back: one of the two is never there.                 *)
OursOrTheirs == Ours => users \cap Visible = {}

DriveInv == Typed /\ TheirsAreLeft /\ OursOrTheirs

(***************************************************************************)
(* UserFilesStay.                                                          *)
(***************************************************************************)

(* What a step leaves alone keeps the two sides apart.                     *)
LEMMA NothingReturns ==
  ASSUME Typed, Typed', TheirsAreLeft, UNCHANGED users,
         \A c \in users : drive'[c] \in {drive[c], "trashed"}
  PROVE  TheirsAreLeft' /\ (users \cap Visible = {} => (users \cap Visible = {})')
BY DEF TheirsAreLeft, Visible, Typed

(* Deleting what is ours deletes nothing of theirs.                        *)
LEMMA DeletesOurs ==
  ASSUME Typed, TheirsAreLeft, NEW S, S # {} => users \cap Visible = {}, DeleteCopies(S)
  PROVE  \A c \in users : drive'[c] = drive[c]
BY DEF Typed, Visible, DeleteCopies

LEMMA AttemptFailsOurs ==
  ASSUME Typed, AttemptFails, Ours'
  PROVE  Ours
<1>1. CASE run.tries < ResolveAttempts /\ UNCHANGED account
           /\ run' = [run EXCEPT !.pc = "resolve", !.tries = @ + 1]
  BY <1>1 DEF Ours, Typed, RunState
<1>2. CASE FailRun
  BY <1>2 DEF FailRun, SaveRow, Ours, Typed, RunState, HttpRow, NotRunning, BlankRow
<1> QED  BY <1>1, <1>2 DEF AttemptFails

LEMMA FindRestoredOurs ==
  ASSUME Typed, FindRestored, UNCHANGED account, run.pc \in {"reconcile", "poll"}
  PROVE  Ours
BY DEF Ours

LEMMA DriveInvInit == DriveInit => DriveInv
<1> SUFFICES ASSUME DriveInit  PROVE DriveInv
  OBVIOUS
<1>1. users \subseteq Copies
  BY DEF DriveInit
<1>2. Typed
  BY <1>1, BlankTypes DEF DriveInit, Typed, NotRunning
<1>3. TheirsAreLeft
  BY <1>1 DEF DriveInit, TheirsAreLeft
<1>4. ~Ours
  BY DEF DriveInit, Ours, BlankRow, NotRunning
<1> QED  BY <1>2, <1>3, <1>4 DEF DriveInv, OursOrTheirs

LEMMA DriveInvStep == DriveInv /\ [AccountNext]_driveVars => DriveInv'
<1> SUFFICES ASSUME DriveInv, [AccountNext]_driveVars  PROVE DriveInv'
  OBVIOUS
<1>1. Typed /\ Typed' /\ TheirsAreLeft /\ OursOrTheirs
  BY TypesStep DEF DriveInv
<1> USE <1>1
<1> SUFFICES TheirsAreLeft' /\ OursOrTheirs'
  BY DEF DriveInv
<1> DEFINE Kept == /\ UNCHANGED users /\ \A c \in users : drive'[c] \in {drive[c], "trashed"}
<1>2. ASSUME Kept, Ours' => Ours  PROVE TheirsAreLeft' /\ OursOrTheirs'
  BY <1>2, NothingReturns DEF OursOrTheirs
<1> HIDE DEF Kept
<1>3. ASSUME NEW c \in Copies, CopyAppears(c)  PROVE TheirsAreLeft' /\ OursOrTheirs'
  <2>1. Kept
    BY <1>3 DEF Kept, CopyAppears, RunUnchanged, TheirsAreLeft, Typed
  <2> QED  BY <1>2, <1>3, <2>1 DEF CopyAppears, Ours
<1>4. ASSUME NEW c \in Copies, UserDeletesCopy(c)  PROVE TheirsAreLeft' /\ OursOrTheirs'
  <2>1. Kept
    BY <1>4 DEF Kept, UserDeletesCopy, RunUnchanged, Typed
  <2> QED  BY <1>2, <1>4, <2>1 DEF UserDeletesCopy, Ours
<1>5. ASSUME NEW r \in HttpRows, StartRow(r)  PROVE TheirsAreLeft' /\ OursOrTheirs'
  <2>1. Kept
    BY <1>5 DEF Kept, StartRow
  <2>2. Ours' => Ours
    BY <1>5 DEF StartRow, NotRunning, BlankRow, Ours, Typed, RunState, HttpRow
  <2> QED  BY <1>2, <2>1, <2>2
<1>6. ASSUME NEW r \in HttpRows, RemoveRows(r)  PROVE TheirsAreLeft' /\ OursOrTheirs'
  <2>1. OwnedCopies # {} => users \cap Visible = {}
    BY DEF OwnedCopies, OursOrTheirs, Ours
  <2>2. Kept
    BY <1>6, <2>1, DeletesOurs DEF Kept, RemoveRows, RunUnchanged
  <2>3. Ours' => Ours
    BY <1>6 DEF RemoveRows, BlankRow, NotRunning, Ours, Typed, RunState, HttpRow
  <2> QED  BY <1>2, <2>2, <2>3
<1>7. ASSUME NEW r \in HttpRows, RemovalFails(r)  PROVE TheirsAreLeft' /\ OursOrTheirs'
  <2>1. OwnedCopies # {} => users \cap Visible = {}
    BY DEF OwnedCopies, OursOrTheirs, Ours
  <2>2. Kept
    BY <1>7, <2>1, DeletesOurs DEF Kept, RemovalFails, RunUnchanged
  <2>3. Ours' => Ours
    BY <1>7 DEF RemovalFails, BlankRow, NotRunning, Ours, Typed, RunState, HttpRow
  <2> QED  BY <1>2, <2>2, <2>3
<1>8. ASSUME InspectShare  PROVE TheirsAreLeft' /\ OursOrTheirs'
  <2>1. Kept
    BY <1>8 DEF Kept, InspectShare, RunUnchanged
  <2>2. Ours' => Ours
    BY <1>8 DEF InspectShare, Go, Ours, Typed, RunState, HttpRow
  <2> QED  BY <1>2, <2>1, <2>2
<1>9. ASSUME ShareFails  PROVE TheirsAreLeft' /\ OursOrTheirs'
  <2>1. Kept
    BY <1>9 DEF Kept, ShareFails, RunUnchanged
  <2> QED  BY <1>2, <1>9, <2>1, AttemptFailsOurs DEF ShareFails
<1>10. ASSUME SignInFails  PROVE TheirsAreLeft' /\ OursOrTheirs'
  <2>1. Kept
    BY <1>10 DEF Kept, SignInFails, RunUnchanged
  <2> QED  BY <1>2, <1>10, <2>1, AttemptFailsOurs DEF SignInFails
<1>11. ASSUME Inventory  PROVE TheirsAreLeft' /\ OursOrTheirs'
  <2>1. Kept
    BY <1>11 DEF Kept, Inventory, RunUnchanged
  <2>2. CASE Visible # {}
    <3>1. Ours' => Ours
      <4>1. run.pc = "account" /\ UNCHANGED account /\ \E c \in Visible : UseExisting(c)
        BY <1>11, <2>2 DEF Inventory
      <4>2. run \in [row : HttpRows \cup {0}, pc : Places, tries : 0..ResolveAttempts,
                     before : SUBSET Copies, submits : 0..RestoreAttempts,
                     file : Copies \cup {NoCopy}, newly : BOOLEAN,
                     cleanups : SUBSET Copies, held : HttpRow, again : BOOLEAN]
        BY DEF Typed, RunState
      <4>3. /\ run'.pc = "details" /\ ~run'.newly
            /\ run'.held = run.held /\ run'.cleanups = run.cleanups
        BY <4>1, <4>2 DEF UseExisting
      <4> QED  BY <4>1, <4>3 DEF Ours
    <3> QED  BY <1>2, <2>1, <3>1
  <2>3. CASE Visible = {}
    <3>1. TheirsAreLeft' /\ (users \cap Visible = {})'
      BY <2>1, <2>3, NothingReturns DEF Kept
    <3> QED  BY <3>1 DEF OursOrTheirs
  <2> QED  BY <2>2, <2>3
<1>12. ASSUME SubmitRestore  PROVE TheirsAreLeft' /\ OursOrTheirs'
  <2>1. Kept
    BY <1>12 DEF Kept, SubmitRestore, RunUnchanged, Missing, TheirsAreLeft, Typed
  <2>2. Ours
    BY <1>12 DEF SubmitRestore, Ours
  <2> QED  BY <1>2, <2>1, <2>2
<1>13. ASSUME Reconcile  PROVE TheirsAreLeft' /\ OursOrTheirs'
  <2>1. Kept
    BY <1>13 DEF Kept, Reconcile, RunUnchanged
  <2>2. Ours
    BY <1>13 DEF Reconcile, Ours
  <2> QED  BY <1>2, <2>1, <2>2
<1>14. ASSUME PollRestore  PROVE TheirsAreLeft' /\ OursOrTheirs'
  <2>1. Kept
    BY <1>14 DEF Kept, PollRestore, RunUnchanged
  <2>2. Ours
    BY <1>14 DEF PollRestore, Ours
  <2> QED  BY <1>2, <2>1, <2>2
<1>15. ASSUME Resolved  PROVE TheirsAreLeft' /\ OursOrTheirs'
  <2>1. Kept
    BY <1>15 DEF Kept, Resolved, RunUnchanged
  <2>2. Ours' => Ours
    <3> SUFFICES ASSUME ~Ours  PROVE ~Ours'
      OBVIOUS
    <3> DEFINE row == [run.held EXCEPT !.file = run.file, !.owned = @ \/ run.newly]
    <3>1. run.held \in HttpRow /\ ~run.held.owned /\ ~run.newly /\ run.cleanups = {}
          /\ \A r \in HttpRows : ~account[r].owned
      BY DEF Ours, Typed, RunState
    <3>2. ~row.owned
      BY <3>1 DEF HttpRow
    <3>3. /\ run' = [run EXCEPT !.pc = "transfer", !.held = row, !.cleanups = run.cleanups]
          /\ UNCHANGED account \/ SaveRow(row)
      BY <1>15, <3>1 DEF Resolved, CleansUp
    <3> HIDE DEF row
    <3>4. \A r \in HttpRows : ~account'[r].owned
      BY <3>1, <3>2, <3>3 DEF SaveRow, Typed
    <3>5. ~run'.held.owned /\ run'.cleanups = {} /\ ~run'.newly /\ run'.pc = "transfer"
      BY <3>1, <3>2, <3>3 DEF Typed, RunState
    <3> QED  BY <3>4, <3>5 DEF Ours
  <2> QED  BY <1>2, <2>1, <2>2
<1>16. ASSUME DetailsFail  PROVE TheirsAreLeft' /\ OursOrTheirs'
  <2>1. Kept
    BY <1>16 DEF Kept, DetailsFail, RunUnchanged
  <2> QED  BY <1>2, <1>16, <2>1, AttemptFailsOurs DEF DetailsFail
<1>17. ASSUME SaveProgress  PROVE TheirsAreLeft' /\ OursOrTheirs'
  <2>1. Kept
    BY <1>17 DEF Kept, SaveProgress, RunUnchanged
  <2>2. Ours' => Ours
    BY <1>17 DEF SaveProgress, SaveRow, Ours, Typed, RunState, HttpRow
  <2> QED  BY <1>2, <2>1, <2>2
<1>18. ASSUME ResolveAgain  PROVE TheirsAreLeft' /\ OursOrTheirs'
  <2>1. Kept
    BY <1>18 DEF Kept, ResolveAgain, RunUnchanged
  <2>2. Ours' => Ours
    BY <1>18 DEF ResolveAgain, Ours, Typed, RunState, HttpRow
  <2> QED  BY <1>2, <2>1, <2>2
<1>19. ASSUME TransferFails  PROVE TheirsAreLeft' /\ OursOrTheirs'
  <2>1. Kept
    BY <1>19 DEF Kept, TransferFails, RunUnchanged
  <2>2. Ours' => Ours
    BY <1>19
       DEF TransferFails, FailRun, SaveRow, NotRunning, BlankRow, Ours, Typed, RunState, HttpRow
  <2> QED  BY <1>2, <2>1, <2>2
<1>20. ASSUME TransferSucceeds  PROVE TheirsAreLeft' /\ OursOrTheirs'
  <2>1. Kept
    BY <1>20 DEF Kept, TransferSucceeds, RunUnchanged
  <2>2. Ours' => Ours
    BY <1>20 DEF TransferSucceeds, Go, Ours, Typed, RunState, HttpRow
  <2> QED  BY <1>2, <2>1, <2>2
<1>21. ASSUME CleanUp  PROVE TheirsAreLeft' /\ OursOrTheirs'
  <2>1. PICK failing \in SUBSET run.cleanups :
          /\ DeleteCopies(run.cleanups \ failing)
          /\ SaveRow([run.held EXCEPT !.owned = @ /\ ~(run.cleanups # {} /\ failing = {}),
                                       !.state = "completed"])
    BY <1>21 DEF CleanUp
  <2>2. run.cleanups # {} => users \cap Visible = {}
    BY DEF OursOrTheirs, Ours
  <2>3. \A c \in users : drive'[c] = drive[c]
    BY <2>1, <2>2, DeletesOurs
  <2>4. Kept
    BY <1>21, <2>3 DEF Kept, CleanUp, RunUnchanged
  <2>5. Ours' => Ours
    BY <1>21, <2>1 DEF CleanUp, SaveRow, NotRunning, BlankRow, Ours, Typed, RunState, HttpRow
  <2> QED  BY <1>2, <2>4, <2>5
<1>22. ASSUME DriveCrash  PROVE TheirsAreLeft' /\ OursOrTheirs'
  <2>1. Kept
    BY <1>22 DEF Kept, DriveCrash, RunUnchanged
  <2>2. Ours' => Ours
    BY <1>22 DEF DriveCrash, NotRunning, BlankRow, Ours, Typed, RunState, HttpRow
  <2> QED  BY <1>2, <2>1, <2>2
<1>23. ASSUME UNCHANGED driveVars  PROVE TheirsAreLeft' /\ OursOrTheirs'
  <2>1. Kept
    BY <1>23 DEF Kept, driveVars
  <2> QED  BY <1>2, <1>23, <2>1 DEF driveVars, Ours
<1> QED  BY <1>3, <1>4, <1>5, <1>6, <1>7, <1>8, <1>9, <1>10, <1>11, <1>12, <1>13, <1>14, <1>15,
            <1>16, <1>17, <1>18, <1>19, <1>20, <1>21, <1>22, <1>23
            DEF AccountNext

(* A copy the user put into the drive is deleted by nobody but the user    *)
(* (removeOwnedRestoredPikPakFile, and resolved.Cleanup of                 *)
(* runHTTPDownload).                                                       *)
THEOREM UserFilesAreKept == AccountSpec => []UserFilesStay
<1>1. DriveInv => UserFilesStay
  BY DEF DriveInv, TheirsAreLeft, UserFilesStay
<1> QED  BY <1>1, DriveInvInit, DriveInvStep, PTL DEF AccountSpec

(* The rows, the run and the drive keep their types.                       *)
THEOREM DriveTyping == AccountSpec => []DriveTypeOK
<1>1. DriveInv => DriveTypeOK
  BY TypesUnfold DEF DriveInv
<1> QED  BY <1>1, DriveInvInit, DriveInvStep, PTL DEF AccountSpec
=============================================================================
