----------------------- MODULE PriorityQueueTheorems -----------------------
(***************************************************************************)
(* What the operations on the ordered wait list return and preserve,       *)
(* stated once for the solver pool, the scan queue and the download slots. *)
(***************************************************************************)
EXTENDS PriorityQueue, SequenceTheorems, FiniteSetTheorems, FunctionTheorems,
        WellFoundedInduction, TLAPS

(***************************************************************************)
(* Numbers.                                                                *)
(***************************************************************************)

(* Every set of naturals that has an element has a least one.  Applied to  *)
(* the set of counterexamples of a claim it is an induction over Nat.      *)
LEMMA LeastNatural ==
  ASSUME NEW T, T \subseteq Nat, T # {}
  PROVE  \E m \in T : \A k \in T : m <= k
<1>1. PICK m \in T : \A k \in T : <<k, m>> \notin OpToRel(<, Nat)
  BY NatLessThanWellFounded, WFMin
<1>2. \A k \in T : ~(k < m)
  BY <1>1, Zenon DEF OpToRel
<1> QED  BY <1>2

(* Min is the least element of a set of positions.                         *)
LEMMA MinIsLeast ==
  ASSUME NEW T, T \subseteq Nat, T # {}
  PROVE  Min(T) \in T /\ \A k \in T : Min(T) <= k
BY LeastNatural DEF Min

(* Of finitely many numbered things one has the least key, the lower       *)
(* number deciding among equal keys.                                       *)
LEMMA LeastByKey ==
  ASSUME NEW n \in Nat, NEW F, F \subseteq 1 .. n, F # {}, NEW key \in [F -> Int]
  PROVE  \E i \in F : \A j \in F : key[i] < key[j] \/ (key[i] = key[j] /\ i <= j)
<1> DEFINE Before(i, j) == key[i] < key[j] \/ (key[i] = key[j] /\ i <= j)
           HasUpto(k) == \E i \in F : i <= k
           BestUpto(i, k) == i <= k /\ \A j \in F : j <= k => Before(i, j)
           Bad == {k \in 0 .. n : HasUpto(k) /\ ~\E i \in F : BestUpto(i, k)}
<1>1. \A i \in F : i \in 1 .. n /\ i \in Int /\ key[i] \in Int
  OBVIOUS
<1>2. \A i, j, k \in F : Before(i, j) /\ Before(j, k) => Before(i, k)
  BY <1>1
<1>3. \A i, j \in F : Before(i, j) \/ Before(j, i)
  BY <1>1
<1> HIDE DEF Before
<1>4. Bad = {}
  <2> SUFFICES ASSUME Bad # {}  PROVE FALSE
    OBVIOUS
  <2>1. PICK m \in Bad : \A k \in Bad : m <= k
    <3>1. Bad \subseteq Nat
      OBVIOUS
    <3> HIDE DEF Bad
    <3> QED  BY <3>1, LeastNatural
  <2>2. m \in 0 .. n /\ HasUpto(m) /\ ~\E i \in F : BestUpto(i, m)
    BY <2>1
  <2>3. m \in 1 .. n /\ m - 1 \in 0 .. n /\ \A i \in F : i <= m <=> i <= m - 1 \/ i = m
    BY <1>1, <2>2
  <2>4. m - 1 \notin Bad
    <3>1. m - 1 \in Bad => m <= m - 1
      <4> HIDE DEF Bad
      <4> QED  BY <2>1
    <3>2. ~(m <= m - 1)
      BY <2>3
    <3> QED  BY <3>1, <3>2
  <2>5. HasUpto(m - 1) => \E i \in F : BestUpto(i, m - 1)
    BY <2>3, <2>4
  <2>6. CASE m \notin F
    BY <2>2, <2>3, <2>5, <2>6
  <2>7. CASE m \in F
    <3>1. Before(m, m)
      BY <1>3, <2>7
    <3>2. CASE ~HasUpto(m - 1)
      BY <2>2, <2>3, <2>7, <3>1, <3>2
    <3>3. ASSUME NEW i \in F, BestUpto(i, m - 1)  PROVE FALSE
      <4>1. i <= m /\ m <= m /\ \A j \in F : j <= m => j = m \/ Before(i, j)
        BY <2>3, <3>3
      <4>2. CASE Before(i, m)
        BY <2>2, <4>1, <4>2
      <4>3. CASE Before(m, i)
        <5>1. \A j \in F : j <= m => Before(m, j)
          BY <1>2, <2>7, <3>1, <4>1, <4>3
        <5> QED  BY <2>2, <2>7, <4>1, <5>1
      <4> QED  BY <1>3, <2>7, <4>2, <4>3
    <3> QED  BY <2>5, <3>2, <3>3
  <2> QED  BY <2>6, <2>7
<1>5. HasUpto(n) /\ n \in 0 .. n
  <2>1. PICK i \in F : TRUE
    OBVIOUS
  <2>2. i <= n
    BY <1>1, <2>1
  <2> QED  BY <2>2
<1>6. PICK i \in F : BestUpto(i, n)
  BY <1>4, <1>5
<1>7. \A j \in F : Before(i, j)
  BY <1>1, <1>6
<1> QED  BY <1>7 DEF Before

(* The greatest number of a finite set.                                    *)
LEMMA MaxIsGreatest ==
  ASSUME NEW S, IsFiniteSet(S), S \subseteq Nat, S # {}
  PROVE  Max(S) \in S /\ \A k \in S : k <= Max(S)
<1>1. PICK n \in Nat : ExistsSurjection(1..n, S)
  BY FS_NatSurjection
<1>2. PICK f \in Surjection(1..n, S) : TRUE
  BY <1>1 DEF ExistsSurjection
<1>3. f \in [1..n -> S] /\ \A x \in S : \E i \in 1..n : f[i] = x
  BY <1>2 DEF Surjection
<1> DEFINE key == [i \in 1..n |-> 0 - f[i]]
<1>4. key \in [1..n -> Int] /\ 1..n # {}
  <2>0. \A x \in Nat : 0 - x \in Int
    OBVIOUS
  <2>a. \A i \in 1..n : f[i] \in Nat
    BY <1>3
  <2>1. \A i \in 1..n : 0 - f[i] \in Int
    BY <2>0, <2>a
  <2>2. key \in [1..n -> Int]
    BY <2>1
  <2>3. \E i : i \in 1..n
    BY <1>3
  <2> QED  BY <2>2, <2>3
<1>5. PICK i \in 1..n : \A j \in 1..n : key[i] < key[j] \/ (key[i] = key[j] /\ i <= j)
  <2> HIDE DEF key
  <2> QED  BY <1>4, LeastByKey
<1>6. \A j \in 1..n : f[j] <= f[i]
  <2> TAKE j \in 1..n
  <2>1. key[i] <= key[j]
    BY <1>4, <1>5
  <2>2. key[i] = 0 - f[i] /\ key[j] = 0 - f[j] /\ f[i] \in Nat /\ f[j] \in Nat
    BY <1>3
  <2> QED  BY <2>1, <2>2
<1>7. f[i] \in S /\ \A k \in S : f[i] >= k
  BY <1>3, <1>6
<1> QED  BY <1>7 DEF Max

(***************************************************************************)
(* Sequences.                                                              *)
(***************************************************************************)

(* InsertAt, elementwise.                                                  *)
LEMMA InsertAtElements ==
  ASSUME NEW S, NEW q \in Seq(S), NEW e \in S, NEW n \in 1 .. Len(q) + 1
  PROVE  /\ InsertAt(q, n, e) \in Seq(S)
         /\ Len(InsertAt(q, n, e)) = Len(q) + 1
         /\ \A i \in 1 .. n - 1 : InsertAt(q, n, e)[i] = q[i]
         /\ InsertAt(q, n, e)[n] = e
         /\ \A i \in n + 1 .. Len(q) + 1 : InsertAt(q, n, e)[i] = q[i - 1]
<1> DEFINE a == SubSeq(q, 1, n - 1)  b == <<e>>  c == SubSeq(q, n, Len(q))
<1>1. /\ a \in Seq(S) /\ Len(a) = n - 1
      /\ \A i \in 1 .. n - 1 : a[i] = q[i]
  BY SubSeqProperties, ElementOfSeq
<1>2. /\ c \in Seq(S) /\ Len(c) = Len(q) + 1 - n
      /\ \A i \in 1 .. Len(q) + 1 - n : c[i] = q[n + i - 1]
  BY SubSeqProperties, ElementOfSeq
<1>3. b \in Seq(S) /\ Len(b) = 1 /\ b[1] = e
  OBVIOUS
<1> HIDE DEF a, b, c
<1> DEFINE ab == a \o b
<1>4. /\ ab \in Seq(S) /\ Len(ab) = n
      /\ \A i \in 1 .. n - 1 : ab[i] = q[i]
      /\ ab[n] = e
  <2>1. /\ ab \in Seq(S) /\ Len(ab) = Len(a) + Len(b)
        /\ \A i \in 1 .. Len(a) + Len(b) :
             ab[i] = IF i <= Len(a) THEN a[i] ELSE b[i - Len(a)]
    BY <1>1, <1>3, ConcatProperties
  <2> QED  BY <1>1, <1>3, <2>1
<1> HIDE DEF ab
<1> DEFINE r == ab \o c
<1>5. /\ r \in Seq(S) /\ Len(r) = Len(q) + 1
      /\ \A i \in 1 .. n : r[i] = ab[i]
      /\ \A i \in n + 1 .. Len(q) + 1 : r[i] = c[i - n]
  <2>1. /\ r \in Seq(S) /\ Len(r) = Len(ab) + Len(c)
        /\ \A i \in 1 .. Len(ab) + Len(c) :
             r[i] = IF i <= Len(ab) THEN ab[i] ELSE c[i - Len(ab)]
    BY <1>2, <1>4, ConcatProperties
  <2> HIDE DEF r
  <2> QED  BY <1>2, <1>4, <2>1
<1>6. InsertAt(q, n, e) = r
  BY DEF InsertAt, a, b, ab, c
<1> HIDE DEF r
<1>7. ASSUME NEW i \in n + 1 .. Len(q) + 1  PROVE r[i] = q[i - 1]
  <2>1. i - n \in 1 .. Len(q) + 1 - n /\ n + (i - n) - 1 = i - 1
    OBVIOUS
  <2> QED  BY <1>2, <1>5, <2>1
<1> QED  BY <1>4, <1>5, <1>6, <1>7

(* RemoveAt, elementwise.                                                  *)
LEMMA RemoveAtElements ==
  ASSUME NEW S, NEW q \in Seq(S), NEW n \in 1 .. Len(q)
  PROVE  /\ RemoveAt(q, n) \in Seq(S)
         /\ Len(RemoveAt(q, n)) = Len(q) - 1
         /\ \A i \in 1 .. n - 1 : RemoveAt(q, n)[i] = q[i]
         /\ \A i \in n .. Len(q) - 1 : RemoveAt(q, n)[i] = q[i + 1]
<1> DEFINE a == SubSeq(q, 1, n - 1)  c == SubSeq(q, n + 1, Len(q))
<1>1. /\ a \in Seq(S) /\ Len(a) = n - 1
      /\ \A i \in 1 .. n - 1 : a[i] = q[i]
  BY SubSeqProperties, ElementOfSeq
<1>2. /\ c \in Seq(S) /\ Len(c) = Len(q) - n
      /\ \A i \in 1 .. Len(q) - n : c[i] = q[n + i]
  BY SubSeqProperties, ElementOfSeq
<1> HIDE DEF a, c
<1>3. /\ a \o c \in Seq(S) /\ Len(a \o c) = Len(q) - 1
      /\ \A i \in 1 .. Len(q) - 1 :
           (a \o c)[i] = IF i <= n - 1 THEN a[i] ELSE c[i - (n - 1)]
  BY <1>1, <1>2, ConcatProperties
<1>4. RemoveAt(q, n) = a \o c
  BY DEF RemoveAt, a, c
<1>5. ASSUME NEW i \in 1 .. n - 1  PROVE (a \o c)[i] = q[i]
  BY <1>1, <1>3
<1>6. ASSUME NEW i \in n .. Len(q) - 1  PROVE (a \o c)[i] = q[i + 1]
  <2>1. (a \o c)[i] = c[i - (n - 1)]
    BY <1>3
  <2>2. i - (n - 1) \in 1 .. Len(q) - n /\ n + (i - (n - 1)) = i + 1
    OBVIOUS
  <2> QED  BY <1>2, <2>1, <2>2
<1> QED  BY <1>3, <1>4, <1>5, <1>6

(***************************************************************************)
(* The wait list.                                                          *)
(***************************************************************************)

(* The insertion loop stops within the list or right behind it, behind     *)
(* every entry of a lower or equal number that it has walked over.         *)
LEMMA InsertPositionBounds ==
  ASSUME NEW S, NEW q \in Seq(S), NEW key \in [S -> Int], NEW p \in Int
  PROVE  /\ InsertPosition(q, key, p) \in 1 .. Len(q) + 1
         /\ \A i \in 1 .. Len(q) :
              i < InsertPosition(q, key, p) => key[q[i]] <= p
         /\ InsertPosition(q, key, p) <= Len(q)
              => p < key[q[InsertPosition(q, key, p)]]
<1> DEFINE O == Outranked(q, key, p)
<1>1. O \subseteq 1 .. Len(q) /\ \A i \in 1 .. Len(q) : i \in O <=> p < key[q[i]]
  BY LenProperties DEF Outranked
<1>2. \A i \in 1 .. Len(q) : key[q[i]] \in Int
  BY ElementOfSeq
<1>3. CASE O = {}
  BY <1>1, <1>2, <1>3, LenProperties DEF InsertPosition
<1>4. CASE O # {}
  <2>1. O \subseteq Nat
    BY <1>1
  <2>2. Min(O) \in O /\ \A k \in O : Min(O) <= k
    BY <1>4, <2>1, MinIsLeast
  <2>3. InsertPosition(q, key, p) = Min(O)
    BY <1>4 DEF InsertPosition
  <2> QED  BY <1>1, <1>2, <2>1, <2>2, <2>3
<1> QED  BY <1>3, <1>4

(* Inserting adds the newcomer, and adds it once.                          *)
LEMMA InsertAddsOne ==
  ASSUME NEW S, NEW q \in Seq(S), NEW key \in [S -> Int], NEW e \in S
  PROVE  /\ InsertByPriority(q, key, e) \in Seq(S)
         /\ InsertByPriority(q, key, e) # <<>>
         /\ ToSet(InsertByPriority(q, key, e)) = ToSet(q) \cup {e}
         /\ NoDuplicates(q) /\ e \notin ToSet(q)
              => NoDuplicates(InsertByPriority(q, key, e))
<1> DEFINE n == InsertPosition(q, key, key[e])
           r == InsertByPriority(q, key, e)
<1>1. n \in 1 .. Len(q) + 1
  BY InsertPositionBounds
<1> HIDE DEF n
<1>2. /\ r \in Seq(S) /\ Len(r) = Len(q) + 1
      /\ \A i \in 1 .. n - 1 : r[i] = q[i]
      /\ r[n] = e
      /\ \A i \in n + 1 .. Len(q) + 1 : r[i] = q[i - 1]
  <2>1. /\ InsertAt(q, n, e) \in Seq(S)
        /\ Len(InsertAt(q, n, e)) = Len(q) + 1
        /\ \A i \in 1 .. n - 1 : InsertAt(q, n, e)[i] = q[i]
        /\ InsertAt(q, n, e)[n] = e
        /\ \A i \in n + 1 .. Len(q) + 1 : InsertAt(q, n, e)[i] = q[i - 1]
    BY <1>1, InsertAtElements
  <2>2. r = InsertAt(q, n, e)
    BY DEF InsertByPriority, n
  <2> HIDE DEF r
  <2> QED  BY <2>1, <2>2
<1> HIDE DEF r
<1>3. DOMAIN q = 1 .. Len(q) /\ Len(q) \in Nat /\ DOMAIN r = 1 .. Len(q) + 1
  BY <1>2, LenProperties
<1>4. r # <<>>
  BY <1>2, <1>3
<1>5. ToSet(r) = ToSet(q) \cup {e}
  <2>1. ASSUME NEW i \in DOMAIN r  PROVE r[i] \in ToSet(q) \cup {e}
    <3>1. CASE i < n
      BY <1>1, <1>2, <1>3, <3>1 DEF ToSet
    <3>2. CASE i = n
      BY <1>2, <3>2
    <3>3. CASE i > n
      <4>1. r[i] = q[i - 1] /\ i - 1 \in DOMAIN q
        BY <1>1, <1>2, <1>3, <3>3
      <4> QED  BY <4>1 DEF ToSet
    <3> QED  BY <1>1, <1>3, <3>1, <3>2, <3>3
  <2>2. e \in ToSet(r)
    BY <1>1, <1>2, <1>3 DEF ToSet
  <2>3. ASSUME NEW i \in DOMAIN q  PROVE q[i] \in ToSet(r)
    <3>1. CASE i < n
      BY <1>1, <1>2, <1>3, <3>1 DEF ToSet
    <3>2. CASE i >= n
      <4>1. i + 1 \in n + 1 .. Len(q) + 1 /\ i + 1 \in DOMAIN r /\ (i + 1) - 1 = i
        BY <1>1, <1>3, <3>2
      <4>2. r[i + 1] = q[i]
        BY <1>2, <4>1
      <4> QED  BY <4>1, <4>2 DEF ToSet
    <3> QED  BY <1>1, <1>3, <3>1, <3>2
  <2> QED  BY <2>1, <2>2, <2>3 DEF ToSet
<1>6. ASSUME NoDuplicates(q), e \notin ToSet(q)  PROVE NoDuplicates(r)
  <2>1. \A i \in DOMAIN q : q[i] # e
    BY <1>6 DEF ToSet
  <2> SUFFICES ASSUME NEW i \in DOMAIN r, NEW j \in DOMAIN r, r[i] = r[j]
               PROVE  i = j
    BY DEF NoDuplicates
  <2>2. ASSUME NEW k \in DOMAIN r
        PROVE  /\ k = n => r[k] = e
               /\ k < n => k \in DOMAIN q /\ r[k] = q[k]
               /\ k > n => k - 1 \in DOMAIN q /\ r[k] = q[k - 1]
    <3>0. k \in 1 .. Len(q) + 1 /\ n \in 1 .. Len(q) + 1 /\ Len(q) \in Nat
      BY <1>1, <1>3
    <3>1. ASSUME k < n  PROVE k \in DOMAIN q /\ r[k] = q[k]
      <4>1. k \in 1 .. n - 1 /\ k \in 1 .. Len(q)
        BY <3>0, <3>1
      <4> QED  BY <1>2, <1>3, <4>1
    <3>2. ASSUME k > n  PROVE k - 1 \in DOMAIN q /\ r[k] = q[k - 1]
      <4>1. k \in n + 1 .. Len(q) + 1 /\ k - 1 \in 1 .. Len(q)
        BY <3>0, <3>2
      <4> QED  BY <1>2, <1>3, <4>1
    <3> QED  BY <1>2, <3>1, <3>2
  <2>3. \A k, l \in DOMAIN q : q[k] = q[l] => k = l
    BY <1>6 DEF NoDuplicates
  <2>4. i \in Int /\ j \in Int /\ n \in Int
    BY <1>1, <1>3
  <2> QED  BY <2>1, <2>2, <2>3, <2>4
<1> QED  BY <1>2, <1>4, <1>5, <1>6 DEF r

(* Inserting keeps the list in the order of the priorities.                *)
LEMMA InsertKeepsOrder ==
  ASSUME NEW S, NEW q \in Seq(S), NEW key \in [S -> Int], NEW e \in S,
         SortedByPriority(q, key)
  PROVE  SortedByPriority(InsertByPriority(q, key, e), key)
<1> DEFINE n == InsertPosition(q, key, key[e])
           r == InsertByPriority(q, key, e)
<1>1. /\ n \in 1 .. Len(q) + 1
      /\ \A i \in 1 .. Len(q) : i < n => key[q[i]] <= key[e]
      /\ n <= Len(q) => key[e] < key[q[n]]
  BY InsertPositionBounds
<1> HIDE DEF n
<1>2. /\ r \in Seq(S) /\ Len(r) = Len(q) + 1
      /\ \A i \in 1 .. n - 1 : r[i] = q[i]
      /\ r[n] = e
      /\ \A i \in n + 1 .. Len(q) + 1 : r[i] = q[i - 1]
  <2>1. /\ InsertAt(q, n, e) \in Seq(S)
        /\ Len(InsertAt(q, n, e)) = Len(q) + 1
        /\ \A i \in 1 .. n - 1 : InsertAt(q, n, e)[i] = q[i]
        /\ InsertAt(q, n, e)[n] = e
        /\ \A i \in n + 1 .. Len(q) + 1 : InsertAt(q, n, e)[i] = q[i - 1]
    BY <1>1, InsertAtElements
  <2>2. r = InsertAt(q, n, e)
    BY DEF InsertByPriority, n
  <2> HIDE DEF r
  <2> QED  BY <2>1, <2>2
<1> HIDE DEF r
<1>3. DOMAIN q = 1 .. Len(q) /\ Len(q) \in Nat /\ DOMAIN r = 1 .. Len(q) + 1
  BY <1>2, LenProperties
<1>4. \A i \in 1 .. Len(q) : key[q[i]] \in Int
  BY ElementOfSeq
<1>5. \A i, j \in 1 .. Len(q) : i <= j => key[q[i]] <= key[q[j]]
  BY <1>3, <1>4 DEF SortedByPriority
<1>6. \A i \in 1 .. Len(q) : n <= i => key[e] < key[q[i]]
  BY <1>1, <1>3, <1>4, <1>5
<1>7. SUFFICES ASSUME NEW i \in 1 .. Len(q) + 1, NEW j \in 1 .. Len(q) + 1, i < j
               PROVE  key[r[i]] <= key[r[j]]
  BY <1>3 DEF SortedByPriority, r
<1>8. CASE j < n
  BY <1>1, <1>2, <1>3, <1>5, <1>7, <1>8
<1>9. CASE j = n
  BY <1>1, <1>2, <1>3, <1>7, <1>9
<1>10. CASE j > n
  <2>1. r[j] = q[j - 1] /\ j - 1 \in 1 .. Len(q) /\ n <= j - 1
    BY <1>1, <1>2, <1>3, <1>10
  <2>2. CASE i < n
    <3>1. r[i] = q[i] /\ i \in 1 .. Len(q) /\ i <= j - 1
      BY <1>1, <1>2, <1>3, <2>1, <2>2
    <3> QED  BY <1>5, <2>1, <3>1
  <2>3. CASE i = n
    <3>1. key[e] < key[q[j - 1]]
      BY <1>6, <2>1
    <3>2. key[e] \in Int /\ key[q[j - 1]] \in Int
      BY <1>4, <2>1
    <3>3. r[i] = e /\ r[j] = q[j - 1]
      BY <1>2, <2>1, <2>3
    <3> QED  BY <3>1, <3>2, <3>3
  <2>4. CASE i > n
    <3>1. r[i] = q[i - 1] /\ i - 1 \in 1 .. Len(q) /\ i - 1 <= j - 1
      BY <1>1, <1>2, <1>3, <1>7, <2>1, <2>4
    <3> QED  BY <1>5, <2>1, <3>1
  <2> QED  BY <1>1, <2>2, <2>3, <2>4
<1> QED  BY <1>1, <1>3, <1>8, <1>9, <1>10

(* Popping the first entry takes just that one away.                       *)
LEMMA TailDropsHead ==
  ASSUME NEW S, NEW q \in Seq(S), q # <<>>
  PROVE  /\ Head(q) \in ToSet(q) /\ Head(q) \in S /\ Tail(q) \in Seq(S)
         /\ NoDuplicates(q) => /\ NoDuplicates(Tail(q))
                               /\ ToSet(Tail(q)) = ToSet(q) \ {Head(q)}
<1> DEFINE t == Tail(q)
<1>1. /\ Len(q) \in Nat \ {0} /\ DOMAIN q = 1 .. Len(q) /\ q[1] = Head(q)
      /\ t \in Seq(S) /\ DOMAIN t = 1 .. Len(q) - 1
      /\ \A i \in 1 .. Len(q) - 1 : t[i] = q[i + 1]
  BY EmptySeq, LenProperties, HeadTailProperties
<1>2. Head(q) \in S
  BY HeadTailProperties
<1>3. Head(q) \in ToSet(q)
  BY <1>1 DEF ToSet
<1> HIDE DEF t
<1>4. ASSUME NoDuplicates(q)
      PROVE  NoDuplicates(t) /\ ToSet(t) = ToSet(q) \ {q[1]}
  <2>1. \A i, j \in 1 .. Len(q) : q[i] = q[j] => i = j
    BY <1>1, <1>4 DEF NoDuplicates
  <2>2. NoDuplicates(t)
    BY <1>1, <2>1 DEF NoDuplicates
  <2>3. ASSUME NEW i \in DOMAIN t  PROVE t[i] \in ToSet(q) \ {q[1]}
    <3>1. t[i] = q[i + 1] /\ i + 1 \in 1 .. Len(q) /\ 1 \in 1 .. Len(q) /\ i + 1 # 1
      BY <1>1
    <3>2. q[i + 1] # q[1]
      BY <2>1, <3>1
    <3> QED  BY <1>1, <3>1, <3>2 DEF ToSet
  <2>4. ASSUME NEW i \in 1 .. Len(q), q[i] # q[1]  PROVE q[i] \in ToSet(t)
    <3>1. i - 1 \in 1 .. Len(q) - 1 /\ t[i - 1] = q[i]
      BY <1>1, <2>4
    <3> QED  BY <1>1, <3>1 DEF ToSet
  <2> QED  BY <1>1, <2>2, <2>3, <2>4 DEF ToSet
<1> QED  BY <1>1, <1>2, <1>3, <1>4 DEF t

(* Withdrawing removes at the first occurrence, if there is one.           *)
LEMMA RemoveFirstPosition ==
  ASSUME NEW S, NEW q \in Seq(S), NEW e
  PROVE  \/ RemoveFirst(q, e) = q /\ e \notin ToSet(q)
         \/ \E n \in 1 .. Len(q) : q[n] = e /\ RemoveFirst(q, e) = RemoveAt(q, n)
<1> DEFINE I == {i \in 1 .. Len(q) : q[i] = e}
           n == SelectInSeq(q, LAMBDA v : v = e)
<1>1. DOMAIN q = 1 .. Len(q)
  BY LenProperties
<1>2. CASE I = {}
  <2>1. RemoveFirst(q, e) = q
    BY <1>2 DEF RemoveFirst
  <2> QED  BY <1>1, <1>2, <2>1 DEF ToSet
<1>3. CASE I # {}
  <2>1. n = Min(I)
    BY <1>3 DEF SelectInSeq
  <2>2. I \subseteq Nat
    OBVIOUS
  <2>3. Min(I) \in I
    BY <1>3, <2>2, MinIsLeast
  <2>4. RemoveFirst(q, e) = RemoveAt(q, n)
    BY <1>3 DEF RemoveFirst
  <2> QED  BY <2>1, <2>3, <2>4
<1> QED  BY <1>2, <1>3

(* Withdrawing leaves a list of the same calls.                            *)
LEMMA RemoveFirstIsSeq ==
  ASSUME NEW S, NEW q \in Seq(S), NEW e
  PROVE  RemoveFirst(q, e) \in Seq(S)
BY RemoveFirstPosition, RemoveAtElements

(* Withdrawing an entry takes just that one away, and does nothing to a    *)
(* list that it has already left.                                          *)
LEMMA RemoveFirstDropsOne ==
  ASSUME NEW S, NEW q \in Seq(S), NEW e, NoDuplicates(q)
  PROVE  /\ NoDuplicates(RemoveFirst(q, e))
         /\ ToSet(RemoveFirst(q, e)) = ToSet(q) \ {e}
<1> DEFINE r == RemoveFirst(q, e)
<1>1. Len(q) \in Nat /\ DOMAIN q = 1 .. Len(q)
  BY LenProperties
<1>2. CASE r = q /\ e \notin ToSet(q)
  BY <1>2
<1>3. ASSUME NEW n \in 1 .. Len(q), q[n] = e, r = RemoveAt(q, n)
      PROVE  NoDuplicates(r) /\ ToSet(r) = ToSet(q) \ {e}
  <2> HIDE DEF r
  <2>1. /\ r \in Seq(S) /\ Len(r) = Len(q) - 1
        /\ \A i \in 1 .. n - 1 : r[i] = q[i]
        /\ \A i \in n .. Len(q) - 1 : r[i] = q[i + 1]
    BY <1>3, RemoveAtElements
  <2>2. DOMAIN r = 1 .. Len(q) - 1
    BY <2>1, LenProperties
  <2>3. \A i, j \in 1 .. Len(q) : q[i] = q[j] => i = j
    BY <1>1 DEF NoDuplicates
  <2>4. NoDuplicates(r)
    BY <1>1, <1>3, <2>1, <2>2, <2>3 DEF NoDuplicates
  <2>5. ToSet(r) \subseteq ToSet(q) \ {e}
    BY <1>1, <1>3, <2>1, <2>2, <2>3 DEF ToSet
  <2>6. ASSUME NEW i \in 1 .. Len(q), q[i] # e  PROVE q[i] \in ToSet(r)
    <3>1. CASE i < n
      <4>1. i \in 1 .. Len(q) - 1 /\ r[i] = q[i]
        BY <1>1, <1>3, <2>1, <3>1
      <4> QED  BY <2>2, <4>1 DEF ToSet
    <3>2. CASE i > n
      <4>1. i - 1 \in 1 .. Len(q) - 1 /\ r[i - 1] = q[i]
        BY <1>1, <1>3, <2>1, <3>2
      <4> QED  BY <2>2, <4>1 DEF ToSet
    <3> QED  BY <1>1, <1>3, <2>6, <3>1, <3>2
  <2>7. ToSet(r) = ToSet(q) \ {e}
    BY <1>1, <2>5, <2>6 DEF ToSet
  <2> QED  BY <2>4, <2>7
<1> QED  BY <1>2, <1>3, RemoveFirstPosition

(* Popping the first waiter leaves the others in order.                    *)
LEMMA TailKeepsOrder ==
  ASSUME NEW S, NEW q \in Seq(S), q # <<>>, NEW key, SortedByPriority(q, key)
  PROVE  SortedByPriority(Tail(q), key)
<1> DEFINE t == Tail(q)
<1>1. /\ Len(q) \in Nat \ {0} /\ DOMAIN q = 1 .. Len(q)
      /\ DOMAIN t = 1 .. Len(q) - 1 /\ \A i \in 1 .. Len(q) - 1 : t[i] = q[i + 1]
  BY EmptySeq, LenProperties, HeadTailProperties
<1> HIDE DEF t
<1>2. ASSUME NEW i \in DOMAIN t, NEW j \in DOMAIN t, i < j
      PROVE  key[t[i]] <= key[t[j]]
  <2>1. i + 1 \in DOMAIN q /\ j + 1 \in DOMAIN q /\ i + 1 < j + 1
    BY <1>1, <1>2
  <2> QED  BY <1>1, <2>1 DEF SortedByPriority
<1> QED  BY <1>2 DEF SortedByPriority, t

(* Neither does the withdrawal of a cancelled call disturb their order.    *)
LEMMA RemoveFirstKeepsOrder ==
  ASSUME NEW S, NEW q \in Seq(S), NEW e, NEW key, SortedByPriority(q, key)
  PROVE  SortedByPriority(RemoveFirst(q, e), key)
<1> DEFINE r == RemoveFirst(q, e)
<1>1. Len(q) \in Nat /\ DOMAIN q = 1 .. Len(q)
  BY LenProperties
<1>2. ASSUME NEW n \in 1 .. Len(q), r = RemoveAt(q, n)
      PROVE  SortedByPriority(r, key)
  <2> HIDE DEF r
  <2>1. /\ r \in Seq(S) /\ Len(r) = Len(q) - 1
        /\ \A i \in 1 .. n - 1 : r[i] = q[i]
        /\ \A i \in n .. Len(q) - 1 : r[i] = q[i + 1]
    BY <1>2, RemoveAtElements
  <2>2. DOMAIN r = 1 .. Len(q) - 1
    BY <2>1, LenProperties
  <2>3. ASSUME NEW i \in DOMAIN r, NEW j \in DOMAIN r, i < j
        PROVE  key[r[i]] <= key[r[j]]
    <3>1. PICK k \in DOMAIN q : r[i] = q[k] /\ k = IF i < n THEN i ELSE i + 1
      BY <1>1, <2>1, <2>2
    <3>2. PICK l \in DOMAIN q : r[j] = q[l] /\ l = IF j < n THEN j ELSE j + 1
      BY <1>1, <2>1, <2>2
    <3>3. k < l
      BY <1>1, <2>2, <2>3, <3>1, <3>2
    <3> QED  BY <3>1, <3>2, <3>3 DEF SortedByPriority
  <2> QED  BY <2>3 DEF SortedByPriority
<1> QED  BY <1>2, RemoveFirstPosition

(* The waiter wakeWaiters pops has the least number of all.                *)
LEMMA HeadIsLeast ==
  ASSUME NEW S, NEW q \in Seq(S), q # <<>>, NEW key \in [S -> Int],
         SortedByPriority(q, key), NEW e \in ToSet(q)
  PROVE  key[Head(q)] <= key[e]
<1>1. Len(q) \in Nat \ {0} /\ DOMAIN q = 1 .. Len(q) /\ Head(q) = q[1]
  BY EmptySeq, LenProperties
<1>2. PICK i \in DOMAIN q : e = q[i]
  BY DEF ToSet
<1>3. key[q[1]] \in Int
  BY <1>1, ElementOfSeq
<1> QED  BY <1>1, <1>2, <1>3 DEF SortedByPriority

(* Inserting leaves everybody's place among the others as it was, and puts *)
(* the newcomer behind all those of its own or of a better priority.       *)
LEMMA InsertKeepsPlaces ==
  ASSUME NEW S, NEW q \in Seq(S), NEW key \in [S -> Int], NEW e \in S,
         SortedByPriority(q, key)
  PROVE  /\ \A a, b : Precedes(q, a, b) => Precedes(InsertByPriority(q, key, e), a, b)
         /\ \A a \in ToSet(q) :
              key[a] <= key[e] => Precedes(InsertByPriority(q, key, e), a, e)
<1> DEFINE n == InsertPosition(q, key, key[e])
           r == InsertByPriority(q, key, e)
<1>1. /\ n \in 1 .. Len(q) + 1
      /\ n <= Len(q) => key[e] < key[q[n]]
  BY InsertPositionBounds
<1> HIDE DEF n
<1>2. /\ r \in Seq(S) /\ Len(r) = Len(q) + 1
      /\ \A i \in 1 .. n - 1 : r[i] = q[i]
      /\ r[n] = e
      /\ \A i \in n + 1 .. Len(q) + 1 : r[i] = q[i - 1]
  <2>1. /\ InsertAt(q, n, e) \in Seq(S)
        /\ Len(InsertAt(q, n, e)) = Len(q) + 1
        /\ \A i \in 1 .. n - 1 : InsertAt(q, n, e)[i] = q[i]
        /\ InsertAt(q, n, e)[n] = e
        /\ \A i \in n + 1 .. Len(q) + 1 : InsertAt(q, n, e)[i] = q[i - 1]
    BY <1>1, InsertAtElements
  <2>2. r = InsertAt(q, n, e)
    BY DEF InsertByPriority, n
  <2> HIDE DEF r
  <2> QED  BY <2>1, <2>2
<1> HIDE DEF r
<1>3. DOMAIN q = 1 .. Len(q) /\ Len(q) \in Nat /\ DOMAIN r = 1 .. Len(q) + 1
  BY <1>2, LenProperties
<1>4. \A i \in DOMAIN q : key[q[i]] \in Int
  BY <1>3, ElementOfSeq
<1>5. ASSUME NEW i \in DOMAIN q
      PROVE  \E k \in DOMAIN r : r[k] = q[i] /\ k = IF i < n THEN i ELSE i + 1
  <2>1. CASE i < n
    <3>1. i \in 1 .. n - 1 /\ i \in DOMAIN r
      BY <1>1, <1>3, <2>1
    <3> QED  BY <1>2, <2>1, <3>1
  <2>2. CASE ~(i < n)
    <3>1. i + 1 \in n + 1 .. Len(q) + 1 /\ i + 1 \in DOMAIN r /\ (i + 1) - 1 = i
      BY <1>1, <1>3, <2>2
    <3> QED  BY <1>2, <2>2, <3>1
  <2> QED  BY <2>1, <2>2
<1>6. ASSUME NEW a, NEW b, Precedes(q, a, b)  PROVE Precedes(r, a, b)
  <2>1. PICK i, j \in DOMAIN q : i < j /\ q[i] = a /\ q[j] = b
    BY <1>6 DEF Precedes
  <2>2. PICK k \in DOMAIN r : r[k] = a /\ k = IF i < n THEN i ELSE i + 1
    BY <1>5, <2>1
  <2>3. PICK l \in DOMAIN r : r[l] = b /\ l = IF j < n THEN j ELSE j + 1
    BY <1>5, <2>1
  <2>4. k < l
    BY <1>1, <1>3, <2>1, <2>2, <2>3
  <2> QED  BY <2>2, <2>3, <2>4 DEF Precedes
<1>7. ASSUME NEW a \in ToSet(q), key[a] <= key[e]  PROVE Precedes(r, a, e)
  <2>1. PICK i \in DOMAIN q : q[i] = a
    BY DEF ToSet
  <2>2. i < n
    <3>1. ASSUME n <= i  PROVE FALSE
      <4>1. n \in DOMAIN q /\ n <= Len(q)
        BY <1>1, <1>3, <3>1
      <4>2. key[q[n]] <= key[q[i]]
        BY <1>1, <1>3, <1>4, <2>1, <3>1, <4>1 DEF SortedByPriority
      <4> QED  BY <1>1, <1>4, <1>7, <2>1, <4>1, <4>2
    <3> QED  BY <1>1, <1>3, <2>1, <3>1
  <2>3. i \in 1 .. n - 1 /\ i \in DOMAIN r /\ n \in DOMAIN r
    BY <1>1, <1>3, <2>1, <2>2
  <2> QED  BY <1>2, <2>1, <2>2, <2>3 DEF Precedes
<1> QED  BY <1>6, <1>7 DEF r

(* Popping the first entry leaves the places of the others as they were.   *)
LEMMA TailKeepsPlaces ==
  ASSUME NEW S, NEW q \in Seq(S), q # <<>>,
         NEW a, NEW b, a # Head(q), b # Head(q), Precedes(q, a, b)
  PROVE  Precedes(Tail(q), a, b)
<1> DEFINE t == Tail(q)
<1>1. /\ Len(q) \in Nat \ {0} /\ DOMAIN q = 1 .. Len(q) /\ q[1] = Head(q)
      /\ DOMAIN t = 1 .. Len(q) - 1 /\ \A i \in 1 .. Len(q) - 1 : t[i] = q[i + 1]
  BY EmptySeq, LenProperties, HeadTailProperties
<1> HIDE DEF t
<1>2. PICK i, j \in DOMAIN q : i < j /\ q[i] = a /\ q[j] = b
  BY DEF Precedes
<1>3. i - 1 \in DOMAIN t /\ j - 1 \in DOMAIN t /\ i - 1 < j - 1
  BY <1>1, <1>2
<1>4. t[i - 1] = a /\ t[j - 1] = b
  BY <1>1, <1>2, <1>3
<1> QED  BY <1>3, <1>4 DEF Precedes, t

(* Neither does the withdrawal of one call change the places of two others.*)
LEMMA RemoveFirstKeepsPlaces ==
  ASSUME NEW S, NEW q \in Seq(S), NEW e, NEW a, NEW b,
         a # e, b # e, Precedes(q, a, b)
  PROVE  Precedes(RemoveFirst(q, e), a, b)
<1> DEFINE r == RemoveFirst(q, e)
<1>1. Len(q) \in Nat /\ DOMAIN q = 1 .. Len(q)
  BY LenProperties
<1>2. PICK i, j \in DOMAIN q : i < j /\ q[i] = a /\ q[j] = b
  BY DEF Precedes
<1>3. ASSUME NEW n \in 1 .. Len(q), q[n] = e, r = RemoveAt(q, n)
      PROVE  Precedes(r, a, b)
  <2> HIDE DEF r
  <2>1. /\ r \in Seq(S) /\ Len(r) = Len(q) - 1
        /\ \A k \in 1 .. n - 1 : r[k] = q[k]
        /\ \A k \in n .. Len(q) - 1 : r[k] = q[k + 1]
    BY <1>3, RemoveAtElements
  <2>2. DOMAIN r = 1 .. Len(q) - 1
    BY <1>1, <2>1, LenProperties
  <2>3. ASSUME NEW k \in DOMAIN q, k # n
        PROVE  \E l \in DOMAIN r : r[l] = q[k] /\ l = IF k < n THEN k ELSE k - 1
    <3>1. CASE k < n
      <4>1. k \in 1 .. n - 1 /\ k \in DOMAIN r
        BY <1>1, <2>2, <3>1
      <4> QED  BY <2>1, <3>1, <4>1
    <3>2. CASE k > n
      <4>1. k - 1 \in n .. Len(q) - 1 /\ k - 1 \in DOMAIN r /\ (k - 1) + 1 = k
        BY <1>1, <2>2, <3>2
      <4> QED  BY <2>1, <3>2, <4>1
    <3> QED  BY <1>1, <2>3, <3>1, <3>2
  <2>4. PICK k \in DOMAIN r : r[k] = a /\ k = IF i < n THEN i ELSE i - 1
    BY <1>2, <1>3, <2>3
  <2>5. PICK l \in DOMAIN r : r[l] = b /\ l = IF j < n THEN j ELSE j - 1
    BY <1>2, <1>3, <2>3
  <2>6. k < l
    <3>1. i # n /\ j # n /\ i \in Int /\ j \in Int /\ n \in Int
      BY <1>1, <1>2, <1>3
    <3> QED  BY <1>2, <2>4, <2>5, <3>1
  <2> QED  BY <2>4, <2>5, <2>6 DEF Precedes
<1> QED  BY <1>3, RemoveFirstPosition

(* A newcomer at the end of a queue that does not hold it.                 *)
LEMMA AppendNewElement ==
  ASSUME NEW S, NEW q \in Seq(S), NEW e \in S, NoDuplicates(q), e \notin ToSet(q)
  PROVE  /\ Append(q, e) \in Seq(S) /\ Append(q, e) # <<>>
         /\ NoDuplicates(Append(q, e)) /\ ToSet(Append(q, e)) = ToSet(q) \cup {e}
<1> DEFINE r == Append(q, e)
<1>1. /\ r \in Seq(S) /\ r # <<>> /\ Len(r) = Len(q) + 1 /\ Len(q) \in Nat
      /\ DOMAIN q = 1 .. Len(q) /\ DOMAIN r = 1 .. Len(q) + 1
      /\ r[Len(q) + 1] = e /\ \A i \in 1 .. Len(q) : r[i] = q[i]
  OBVIOUS
<1>2. \A i \in DOMAIN q : q[i] # e
  BY DEF ToSet
<1> HIDE DEF r
<1>3. NoDuplicates(r)
  <2> SUFFICES ASSUME NEW i \in DOMAIN r, NEW j \in DOMAIN r, r[i] = r[j]  PROVE i = j
    BY DEF NoDuplicates
  <2>1. \A k \in DOMAIN r : k = Len(q) + 1 \/ k \in DOMAIN q
    BY <1>1
  <2> QED  BY <1>1, <1>2, <2>1 DEF NoDuplicates
<1>4. ToSet(r) = ToSet(q) \cup {e}
  <2>1. \A k \in DOMAIN r : r[k] = e \/ (k \in DOMAIN q /\ r[k] = q[k])
    BY <1>1
  <2>2. Len(q) + 1 \in DOMAIN r /\ \A k \in DOMAIN q : k \in DOMAIN r /\ r[k] = q[k]
    BY <1>1
  <2> QED  BY <1>1, <2>1, <2>2 DEF ToSet
<1> QED  BY <1>1, <1>3, <1>4 DEF r
=============================================================================
