------------------------- MODULE CatalogReadersProofs -------------------------
(***************************************************************************)
(* Proofs about CatalogReaders, for any finite sets of writers and skus,   *)
(* any record lists and any page limit: a walk is stable, the loader gets  *)
(* nothing twice, and beside writers that take turns it misses nothing.    *)
(***************************************************************************)
EXTENDS CatalogReaders, CatalogStoreProofs, FunctionTheorems, FiniteSetTheorems

(* A nonempty set of numbers has a smallest member.                        *)
LEMMA SmallestExists ==
  ASSUME NEW S, S \subseteq Nat, S # {}
  PROVE  \E n \in S : \A m \in S : n <= m
<1>1. IsWellFoundedOn(OpToRel(<, Nat), Nat)
  BY NatLessThanWellFounded
<1>2. PICK n \in S : \A m \in S : ~(<<m, n>> \in OpToRel(<, Nat))
  BY <1>1, WFMin
<1>3. \A m \in S : ~(m < n)
  BY <1>2 DEF OpToRel
<1>4. n \in Nat /\ \A m \in S : m \in Nat
  OBVIOUS
<1>5. \A m \in S : n <= m
  BY <1>3, <1>4
<1> QED BY <1>5

(* A finite set of numbers has a largest member: one with the most members *)
(* below it.                                                               *)
LEMMA LargestExists ==
  ASSUME NEW S, IsFiniteSet(S), S \subseteq Nat, S # {}
  PROVE  \E n \in S : \A m \in S : m <= n
<1> DEFINE Below(n) == {m \in S : m < n}
           D == {Cardinality(S) - Cardinality(Below(n)) : n \in S}
<1>1. \A n \in S : Below(n) \in SUBSET S
  OBVIOUS
<1>2. \A n \in S, m \in S : m \in Below(n) <=> m < n
  OBVIOUS
<1> HIDE DEF Below
<1>3. /\ Cardinality(S) \in Nat
      /\ \A n \in S : /\ IsFiniteSet(Below(n)) /\ Cardinality(Below(n)) \in Nat
                      /\ Cardinality(Below(n)) <= Cardinality(S)
  BY <1>1, FS_Subset, FS_CardinalityType
<1>4. D \subseteq Nat /\ D # {}
  <2>1. \A n \in S : Cardinality(S) - Cardinality(Below(n)) \in Nat
    BY <1>3
  <2> QED BY <2>1
<1>5. PICK n \in S : \A m \in S : Cardinality(Below(m)) <= Cardinality(Below(n))
  <2>1. PICK d \in D : \A e \in D : d <= e
    <3> HIDE DEF D
    <3> QED BY <1>4, SmallestExists
  <2>2. PICK n \in S : d = Cardinality(S) - Cardinality(Below(n))
    BY <2>1
  <2>3. \A m \in S :
          Cardinality(S) - Cardinality(Below(n)) <= Cardinality(S) - Cardinality(Below(m))
    BY <2>1, <2>2
  <2>4. ASSUME NEW m \in S PROVE Cardinality(Below(m)) <= Cardinality(Below(n))
    BY <1>3, <2>3
  <2> QED BY <2>4
<1>6. n \in Nat /\ \A m \in S : m \in Nat
  OBVIOUS
<1>7. ASSUME NEW m \in S, n < m PROVE FALSE
  <2>1. \A k \in S : k < n => k < m
    BY <1>6, <1>7
  <2>2. Below(n) \in SUBSET Below(m) /\ n \in Below(m) /\ n \notin Below(n)
    <3>1. n \in Below(m) /\ n \notin Below(n)
      BY <1>2, <1>6, <1>7
    <3> QED BY <1>1, <1>2, <2>1, <3>1
  <2>3. Cardinality(Below(n)) <= Cardinality(Below(m))
        /\ Cardinality(Below(n)) # Cardinality(Below(m))
    BY <1>3, <2>2, FS_Subset
  <2> QED BY <1>3, <1>5, <2>3
<1>8. \A m \in S : m <= n
  BY <1>6, <1>7
<1> QED BY <1>8

(* Max of a finite set of numbers.                                         *)
LEMMA MaxFacts ==
  ASSUME NEW S, IsFiniteSet(S), S \subseteq Nat, S # {}
  PROVE  /\ Max(S) \in S /\ Max(S) \in Nat
         /\ \A m \in S : m <= Max(S)
<1>1. \A n \in S : n \in Nat
  OBVIOUS
<1>2. \E n \in S : \A m \in S : n >= m
  BY <1>1, LargestExists
<1>3. Max(S) \in S /\ \A m \in S : Max(S) >= m
  BY <1>2 DEF Max
<1> QED BY <1>1, <1>3

-----------------------------------------------------------------------------
(* A page is of the first ids: none of the set is left out that is below   *)
(* one of the page, and a short page leaves nothing out at all.            *)
LEMMA FirstOfFacts ==
  ASSUME NEW P, IsFiniteSet(P), P \subseteq Nat
  PROVE  /\ FirstOf(P) \subseteq P /\ IsFiniteSet(FirstOf(P))
         /\ \A k \in FirstOf(P), i \in P : i <= k => i \in FirstOf(P)
         /\ Cardinality(FirstOf(P)) # PageLimit => FirstOf(P) = P
<1> DEFINE F == FirstOf(P)
           Before(i) == {j \in P : j < i}
<1>1. \A i \in P : Before(i) \in SUBSET P
  OBVIOUS
<1>2. \A i \in P, j \in P : j \in Before(i) <=> j < i
  OBVIOUS
<1>3. F \in SUBSET P /\ \A i \in P : i \in F <=> Cardinality(Before(i)) < PageLimit
  BY DEF FirstOf
<1> HIDE DEF F, Before
<1>4. /\ IsFiniteSet(F) /\ Cardinality(F) \in Nat
      /\ \A i \in P : IsFiniteSet(Before(i)) /\ Cardinality(Before(i)) \in Nat
  BY <1>1, <1>3, FS_Subset, FS_CardinalityType
<1>5. \A i \in P : i \in Nat
  OBVIOUS
<1>6. \A k \in P, i \in P : i <= k => Cardinality(Before(i)) <= Cardinality(Before(k))
  <2> SUFFICES ASSUME NEW k \in P, NEW i \in P, i <= k
               PROVE  Cardinality(Before(i)) <= Cardinality(Before(k))
    OBVIOUS
  <2>1. \A j \in P : j < i => j < k
    BY <1>5
  <2>2. Before(i) \in SUBSET Before(k)
    BY <1>1, <1>2, <2>1
  <2> QED BY <1>4, <2>2, FS_Subset
<1>7. \A k \in F, i \in P : i <= k => i \in F
  <2> SUFFICES ASSUME NEW k \in F, NEW i \in P, i <= k PROVE i \in F
    OBVIOUS
  <2>1. k \in P /\ Cardinality(Before(k)) < PageLimit
    BY <1>3
  <2> QED BY <1>3, <1>4, <1>6, <2>1, PageLimitAssumption
<1>8. ASSUME Cardinality(F) # PageLimit PROVE F = P
  <2> SUFFICES ASSUME P \ F # {} PROVE FALSE
    BY <1>3
  <2>1. PICK x \in P \ F : \A y \in P \ F : x <= y
    <3>1. P \ F \subseteq Nat
      OBVIOUS
    <3> QED BY <3>1, SmallestExists
  <2>2. F = Before(x)
    <3>1. \A j \in P : j < x => j \in F
      BY <1>5, <2>1
    <3>2. \A j \in P : j \in F => j < x
      BY <1>5, <1>7, <2>1
    <3> QED BY <1>1, <1>2, <1>3, <2>1, <3>1, <3>2
  <2>3. Cardinality(F) > PageLimit
    BY <1>3, <1>4, <1>8, <2>1, <2>2, PageLimitAssumption
  <2>4. F # {}
    BY <1>4, <2>3, FS_EmptySet, PageLimitAssumption
  <2>5. PICK m \in F : \A j \in F : j <= m
    <3>1. F \subseteq Nat
      BY <1>3
    <3> QED BY <1>4, <2>4, <3>1, LargestExists
  <2>6. F = Before(m) \cup {m} /\ m \notin Before(m)
    <3>1. m \in P /\ ~(m < m)
      BY <1>3, <1>5
    <3>2. \A j \in P : j \in F => j < m \/ j = m
      BY <1>5, <2>5, <3>1
    <3>3. \A j \in P : j < m => j \in F
      BY <1>5, <1>7, <3>1
    <3> QED BY <1>1, <1>2, <1>3, <3>1, <3>2, <3>3
  <2>7. m \in P /\ Cardinality(Before(m)) < PageLimit
    BY <1>3
  <2>8. Cardinality(F) \in {Cardinality(Before(m)), Cardinality(Before(m)) + 1}
    BY <1>4, <2>6, <2>7, FS_AddElement
  <2> QED BY <1>4, <2>3, <2>7, <2>8, PageLimitAssumption
<1> QED BY <1>3, <1>4, <1>7, <1>8 DEF F

(* A list of different members of a set, as long as the set, has each of   *)
(* them once.                                                              *)
LEMMA OrderedFacts ==
  ASSUME NEW S, IsFiniteSet(S), NEW q \in [1 .. Cardinality(S) -> S],
         \A i, j \in 1 .. Cardinality(S) : i < j => q[i] # q[j]
  PROVE  /\ q \in Seq(S) /\ Len(q) = Cardinality(S)
         /\ IsInjective(q)
         /\ ToSet(q) = S
<1> DEFINE n == Cardinality(S)
<1>1. n \in Nat
  BY FS_CardinalityType
<1> HIDE DEF n
<1>2. q \in [1 .. n -> S] /\ \A i, j \in 1 .. n : i < j => q[i] # q[j]
  BY DEF n
<1>3. q \in Seq(S) /\ Len(q) = n /\ DOMAIN q = 1 .. n
  BY <1>1, <1>2
<1>4. \A i, j \in 1 .. n : q[i] = q[j] => i = j
  BY <1>1, <1>2
<1>5. IsInjective(q)
  BY <1>3, <1>4 DEF IsInjective
<1>6. q \in Injection(1 .. n, S)
  BY <1>2, <1>4 DEF Injection, IsInjective
<1>7. Cardinality(1 .. n) = n
  BY <1>1, FS_Interval
<1>8. q \in Surjection(1 .. n, S)
  <2>1. Injection(1 .. n, S) = {M \in [1 .. n -> S] : IsInjective(M)}
    BY DEF Injection
  <2> QED BY <1>6, <1>7, FS_Injection DEF n
<1>9. ToSet(q) = S
  <2>1. \A x \in S : \E i \in 1 .. n : q[i] = x
    BY <1>8 DEF Surjection
  <2>2. \A i \in 1 .. n : q[i] \in S
    BY <1>2
  <2>3. ToSet(q) = {q[i] : i \in 1 .. n}
    BY <1>3 DEF ToSet
  <2> QED BY <2>1, <2>2, <2>3
<1> QED BY <1>3, <1>5, <1>9 DEF n
(* A place in a list of m + n is one of the first m, or one of n after it. *)
LEMMA PlaceOf ==
  ASSUME NEW m \in Nat, NEW n \in Nat, NEW k \in 1 .. m + n
  PROVE  k \in 1 .. m \/ \E i \in 1 .. n : k = m + i
<1> SUFFICES ASSUME k \notin 1 .. m PROVE k - m \in 1 .. n /\ k = m + (k - m)
  OBVIOUS
<1> QED OBVIOUS

(* Where the elements of p \o q come from.                                 *)
LEMMA ConcatFacts ==
  ASSUME NEW S, NEW p \in Seq(S), NEW q \in Seq(S)
  PROVE  /\ p \o q \in Seq(S)
         /\ DOMAIN (p \o q) = 1 .. Len(p) + Len(q)
         /\ \A i \in 1 .. Len(p) : (p \o q)[i] = p[i]
         /\ \A i \in 1 .. Len(q) : (p \o q)[Len(p) + i] = q[i]
         /\ ToSet(p \o q) = ToSet(p) \cup ToSet(q)
<1> DEFINE r == p \o q
           m == Len(p)
           n == Len(q)
<1>1. /\ r \in Seq(S) /\ m \in Nat /\ n \in Nat
      /\ DOMAIN r = 1 .. m + n /\ DOMAIN p = 1 .. m /\ DOMAIN q = 1 .. n
      /\ \A i \in 1 .. m : r[i] = p[i]
  OBVIOUS
<1>2. ASSUME NEW i \in 1 .. n PROVE r[m + i] = q[i]
  <2>1. m + i \in 1 .. m + n /\ ~(m + i <= m) /\ (m + i) - m = i
    BY <1>1
  <2> QED BY <2>1
<1> HIDE DEF r, m, n
<1>3. /\ ToSet(r) = {r[i] : i \in 1 .. m + n}
      /\ ToSet(p) = {p[i] : i \in 1 .. m}
      /\ ToSet(q) = {q[i] : i \in 1 .. n}
  BY <1>1 DEF ToSet
<1>4. \A k \in 1 .. m + n : k \in 1 .. m \/ \E i \in 1 .. n : k = m + i
  BY <1>1, PlaceOf
<1>5. (\A i \in 1 .. m : i \in 1 .. m + n) /\ \A i \in 1 .. n : m + i \in 1 .. m + n
  BY <1>1
<1>6. ToSet(r) = ToSet(p) \cup ToSet(q)
  <2>1. ASSUME NEW k \in 1 .. m + n PROVE r[k] \in ToSet(p) \cup ToSet(q)
    <3>1. CASE k \in 1 .. m
      BY <1>1, <1>3, <3>1
    <3>2. CASE \E i \in 1 .. n : k = m + i
      BY <1>2, <1>3, <3>2
    <3> QED BY <1>4, <3>1, <3>2
  <2>2. \A i \in 1 .. m : p[i] \in ToSet(r)
    BY <1>1, <1>3, <1>5
  <2>3. \A i \in 1 .. n : q[i] \in ToSet(r)
    <3> SUFFICES ASSUME NEW i \in 1 .. n PROVE q[i] \in ToSet(r)
      OBVIOUS
    <3>1. m + i \in 1 .. m + n /\ r[m + i] = q[i]
      BY <1>2, <1>5
    <3> QED BY <1>3, <3>1
  <2> QED BY <1>3, <2>1, <2>2, <2>3
<1> QED BY <1>1, <1>2, <1>6 DEF r, m, n

(* Elements of p \o q at different places are different when those of p    *)
(* are, those of q are, and p and q have none in common.                   *)
LEMMA ConcatInjective ==
  ASSUME NEW S, NEW p \in Seq(S), NEW q \in Seq(S),
         IsInjective(p), IsInjective(q), ToSet(p) \cap ToSet(q) = {}
  PROVE  IsInjective(p \o q)
<1> DEFINE r == p \o q
           m == Len(p)
           n == Len(q)
<1>1. /\ m \in Nat /\ n \in Nat
      /\ DOMAIN p = 1 .. m /\ DOMAIN q = 1 .. n /\ DOMAIN r = 1 .. m + n
      /\ \A i \in 1 .. m : r[i] = p[i]
      /\ \A i \in 1 .. n : r[m + i] = q[i]
  BY ConcatFacts
<1> HIDE DEF r, m, n
<1>2. \A k \in 1 .. m + n : k \in 1 .. m \/ \E i \in 1 .. n : k = m + i
  BY <1>1, PlaceOf
<1>3. /\ \A i \in 1 .. m : p[i] \in ToSet(p)
      /\ \A i \in 1 .. n : q[i] \in ToSet(q)
  BY <1>1 DEF ToSet
<1>4. SUFFICES ASSUME NEW j \in 1 .. m + n, NEW k \in 1 .. m + n, r[j] = r[k]
               PROVE  j = k
  BY <1>1 DEF IsInjective, r
<1>5. CASE j \in 1 .. m /\ k \in 1 .. m
  BY <1>1, <1>4, <1>5 DEF IsInjective
<1>6. ASSUME NEW i \in 1 .. n, NEW l \in 1 .. m, r[m + i] = r[l] PROVE FALSE
  BY <1>1, <1>3, <1>6
<1>7. ASSUME NEW i \in 1 .. n, NEW l \in 1 .. n, r[m + i] = r[m + l] PROVE m + i = m + l
  <2>1. q[i] = q[l]
    BY <1>1, <1>7
  <2> QED BY <1>1, <2>1 DEF IsInjective
<1> QED BY <1>2, <1>4, <1>5, <1>6, <1>7

-----------------------------------------------------------------------------
(* The ids of the table are finitely many numbers, none of them 0.         *)
LEMMA IdsFacts ==
  ASSUME TypeOK PROVE IsFiniteSet(Ids) /\ Ids \subseteq Nat \ {0}
<1> DEFINE T == {t \in Skus : Present(t)}
           f == [s \in T |-> table[s].id]
<1>1. T \subseteq Skus /\ Ids = {table[s].id : s \in T}
  BY DEF Ids
<1>2. \A s \in T : table[s].id \in Nat \ {0}
  BY DEF TypeOK, Row, Present
<1>3. IsFiniteSet(T)
  BY <1>1, SkusAssumption, FS_Subset
<1> HIDE DEF T
<1>4. f \in Surjection(T, Ids)
  <2>1. f \in [T -> Ids] /\ \A x \in Ids : \E s \in T : f[s] = x
    BY <1>1
  <2> QED BY <2>1 DEF Surjection
<1>5. IsFiniteSet(Ids)
  <2> HIDE DEF f
  <2> QED BY <1>3, <1>4, FS_Surjection
<1> QED BY <1>1, <1>2, <1>5

(* What a page of the walk holds.                                          *)
LEMMA PageFacts ==
  ASSUME TypeOK, cursor \in Nat
  PROVE  /\ PageAfter(cursor) \subseteq Ids /\ PageAfter(cursor) \subseteq Nat \ {0}
         /\ IsFiniteSet(PageAfter(cursor))
         /\ \A i \in PageAfter(cursor) : cursor < i
         /\ \A k \in PageAfter(cursor), i \in Ids :
              (cursor < i /\ i <= k) => i \in PageAfter(cursor)
         /\ Cardinality(PageAfter(cursor)) # PageLimit =>
              \A i \in Ids : cursor < i => i \in PageAfter(cursor)
<1> DEFINE P == {i \in Ids : i > cursor}
<1>1. PageAfter(cursor) = FirstOf(P)
  BY DEF PageAfter
<1>2. IsFiniteSet(Ids) /\ Ids \subseteq Nat \ {0}
  BY IdsFacts
<1>3. P \in SUBSET Ids /\ P \subseteq Nat
  BY <1>2
<1>4. \A i \in Ids : i \in Nat /\ (i \in P <=> cursor < i)
  BY <1>2
<1> HIDE DEF P
<1>5. IsFiniteSet(P)
  BY <1>2, <1>3, FS_Subset
<1>6. /\ FirstOf(P) \subseteq P /\ IsFiniteSet(FirstOf(P))
      /\ \A k \in FirstOf(P), i \in P : i <= k => i \in FirstOf(P)
      /\ Cardinality(FirstOf(P)) # PageLimit => FirstOf(P) = P
  BY <1>3, <1>5, FirstOfFacts
<1> QED BY <1>1, <1>2, <1>3, <1>4, <1>6

(* The items of a page, in the order of their ids.                         *)
LEMMA ItemsFacts ==
  ASSUME NEW S, IsFiniteSet(S), S \subseteq Nat \ {0},
         NEW items \in [1 .. Cardinality(S) -> S],
         \A i, j \in DOMAIN items : i < j => items[i] < items[j]
  PROVE  items \in Seq(Nat \ {0}) /\ IsInjective(items) /\ ToSet(items) = S
<1>1. \A i, j \in 1 .. Cardinality(S) : i < j => items[i] < items[j]
  OBVIOUS
<1>2. \A i \in 1 .. Cardinality(S) : items[i] \in Nat \ {0}
  <2>1. \A i \in 1 .. Cardinality(S) : items[i] \in S
    BY <1>1
  <2> QED BY <2>1
<1>3. ASSUME NEW i \in 1 .. Cardinality(S), NEW j \in 1 .. Cardinality(S), i < j
      PROVE  items[i] # items[j]
  <2>1. items[i] \in Nat /\ items[j] \in Nat /\ items[i] < items[j]
    BY <1>1, <1>2, <1>3
  <2> QED BY <2>1
<1>4. items \in Seq(S) /\ Len(items) = Cardinality(S) /\ IsInjective(items) /\ ToSet(items) = S
  BY <1>1, <1>3, OrderedFacts
<1>5. items \in Seq(Nat \ {0})
  BY <1>2, <1>4
<1> QED BY <1>4, <1>5

(* What the page that follows the cursor does to the walk.                 *)
LEMMA ListFacts ==
  ASSUME TypeOK, ReadersTypeOK, ListProducts
  PROVE  \E page \in SUBSET Ids :
           /\ page = PageAfter(cursor)
           /\ seen' \in Seq(Nat \ {0})
           /\ ToSet(seen') = ToSet(seen) \cup page
           /\ (IsInjective(seen) /\ \A i \in ToSet(seen) : i <= cursor) => IsInjective(seen')
           /\ cursor' \in Nat /\ cursor <= cursor'
           /\ \A i \in page : i <= cursor'
           /\ page = {} => cursor' = cursor
           /\ page # {} => cursor' \in page
           /\ walk' \in {"on", "done"}
           /\ walk' = "done" => Cardinality(page) # PageLimit
           /\ there' = IF walk = "off" THEN Ids ELSE there
           /\ atEnd' \subseteq Ids
           /\ UNCHANGED <<vars, loader>>
<1> DEFINE page == PageAfter(cursor)
<1>1. cursor \in Nat /\ seen \in Seq(Nat \ {0})
  BY DEF ReadersTypeOK
<1>2. /\ page \subseteq Ids /\ page \subseteq Nat \ {0} /\ IsFiniteSet(page)
      /\ \A i \in page : cursor < i
  BY <1>1, PageFacts
<1>3. PICK items \in [1 .. Cardinality(page) -> page] :
        /\ \A i, j \in DOMAIN items : i < j => items[i] < items[j]
        /\ seen' = seen \o items
  BY DEF ListProducts, Ordered
<1>4. /\ cursor' = IF page = {} THEN cursor ELSE Max(page)
      /\ walk' = AfterPage(page)
      /\ atEnd' = IF AfterPage(page) = "done" THEN Ids ELSE {}
      /\ there' = IF walk = "off" THEN Ids ELSE there
      /\ UNCHANGED <<vars, loader>>
  BY DEF ListProducts
<1> HIDE DEF page
<1>5. items \in Seq(Nat \ {0}) /\ IsInjective(items) /\ ToSet(items) = page
  BY <1>2, <1>3, ItemsFacts
<1>6. seen' \in Seq(Nat \ {0}) /\ ToSet(seen') = ToSet(seen) \cup page
  BY <1>1, <1>3, <1>5, ConcatFacts
<1>7. ASSUME IsInjective(seen), \A i \in ToSet(seen) : i <= cursor PROVE IsInjective(seen')
  <2>1. ASSUME NEW i \in page, i <= cursor PROVE FALSE
    <3>1. i \in Nat /\ cursor \in Nat /\ cursor < i
      BY <1>1, <1>2
    <3> QED BY <2>1, <3>1
  <2>2. ToSet(seen) \cap ToSet(items) = {}
    BY <1>5, <1>7, <2>1
  <2> QED BY <1>1, <1>3, <1>5, <1>7, <2>2, ConcatInjective
<1>8. /\ cursor' \in Nat /\ cursor <= cursor'
      /\ \A i \in page : i <= cursor'
      /\ page # {} => cursor' \in page
  <2>1. CASE page = {}
    <3>1. cursor' = cursor /\ cursor \in Nat
      BY <1>1, <1>4, <2>1
    <3> QED BY <2>1, <3>1
  <2>2. CASE page # {}
    <3>1. page \subseteq Nat
      BY <1>2
    <3>2. cursor' \in page /\ cursor' \in Nat /\ \A i \in page : i <= cursor'
      BY <1>2, <1>4, <2>2, <3>1, MaxFacts
    <3>3. cursor \in Nat /\ cursor < cursor'
      BY <1>1, <1>2, <3>2
    <3> QED BY <3>2, <3>3
  <2> QED BY <2>1, <2>2
<1>9. walk' \in {"on", "done"} /\ (walk' = "done" => Cardinality(page) # PageLimit)
  BY <1>4 DEF AfterPage
<1>10. atEnd' \subseteq Ids
  BY <1>4
<1> QED BY <1>2, <1>4, <1>6, <1>7, <1>8, <1>9, <1>10 DEF page

-----------------------------------------------------------------------------
(* A function on 1 .. n is a list.                                         *)
LEMMA ListOf ==
  ASSUME NEW S, NEW n \in Nat, NEW f \in [1 .. n -> S]
  PROVE  f \in Seq(S) /\ Len(f) = n /\ DOMAIN f = 1 .. n
OBVIOUS

(* A version is of a sku, and carries its row's time.                      *)
LEMMA VersionFacts ==
  ASSUME TypeOK, NEW s \in Skus
  PROVE  /\ Version(s) \in Skus \X Nat \X Nat
         /\ Version(s)[1] = s /\ Version(s)[3] = table[s].at
         /\ table[s].at \in Nat /\ table[s].id \in Nat
<1>1. table[s].at \in Nat /\ table[s].by \in Nat /\ table[s].id \in Nat
  BY DEF TypeOK, Row
<1> QED BY <1>1 DEF Version

(* A list of skus, all different, the later the larger their times, as the *)
(* loader gets them.                                                       *)
LEMMA RowsFacts ==
  ASSUME TypeOK, NEW R, R \subseteq Skus, NEW order \in [1 .. Cardinality(R) -> R],
         \A i, j \in DOMAIN order : i < j => Earlier(order[i], order[j])
  PROVE  /\ Versions(order) \in Seq(Skus \X Nat \X Nat)
         /\ ToSet(Versions(order)) = {Version(s) : s \in R}
         /\ \A i \in 1 .. Len(Versions(order)) : \E s \in R : Versions(order)[i] = Version(s)
         /\ \A i, j \in 1 .. Len(Versions(order)) : i < j =>
              /\ Versions(order)[i] # Versions(order)[j]
              /\ Versions(order)[i][3] <= Versions(order)[j][3]
<1> DEFINE given == Versions(order)
           n == Cardinality(R)
<1>1. IsFiniteSet(R) /\ n \in Nat
  BY SkusAssumption, FS_Subset, FS_CardinalityType
<1> HIDE DEF n
<1>2. order \in [1 .. n -> R] /\ DOMAIN order = 1 .. n /\ \A i \in 1 .. n : order[i] \in Skus
  BY DEF n
<1>3. ASSUME NEW i \in 1 .. n, NEW j \in 1 .. n, i < j
      PROVE  /\ order[i] # order[j]
             /\ table[order[i]].at <= table[order[j]].at
  <2>1. Earlier(order[i], order[j])
    BY <1>2, <1>3
  <2>2. /\ table[order[i]].at \in Nat /\ table[order[j]].at \in Nat
        /\ table[order[i]].id \in Nat /\ table[order[j]].id \in Nat
    BY <1>2, VersionFacts
  <2>3. order[i] # order[j]
    BY <2>1, <2>2 DEF Earlier
  <2> QED BY <2>1, <2>2, <2>3 DEF Earlier
<1>4. ToSet(order) = R
  BY <1>1, <1>3, OrderedFacts DEF n
<1>5. \A i \in 1 .. n : given[i] = Version(order[i])
  BY <1>2 DEF Versions
<1>6. given \in Seq(Skus \X Nat \X Nat) /\ Len(given) = n /\ DOMAIN given = 1 .. n
  <2>1. \A i \in 1 .. n : Version(order[i]) \in Skus \X Nat \X Nat
    BY <1>2, VersionFacts
  <2>2. given \in [1 .. n -> Skus \X Nat \X Nat]
    BY <1>2, <2>1 DEF Versions
  <2> HIDE DEF given
  <2> QED BY <1>1, <2>2, ListOf
<1> HIDE DEF given
<1>7. ToSet(given) = {Version(s) : s \in R}
  <2>1. ToSet(given) = {Version(order[i]) : i \in 1 .. n}
    BY <1>5, <1>6 DEF ToSet
  <2>2. R = {order[i] : i \in 1 .. n}
    BY <1>2, <1>4 DEF ToSet
  <2> QED BY <2>1, <2>2
<1>8. ASSUME NEW i \in 1 .. n, NEW j \in 1 .. n, i < j
      PROVE  given[i] # given[j] /\ given[i][3] <= given[j][3]
  <2>1. /\ given[i][1] = order[i] /\ given[j][1] = order[j]
        /\ given[i][3] = table[order[i]].at /\ given[j][3] = table[order[j]].at
    BY <1>2, <1>5, VersionFacts
  <2> QED BY <1>3, <1>8, <2>1
<1> QED BY <1>2, <1>5, <1>6, <1>7, <1>8 DEF given

(* What a call of load_incremental does.                                   *)
LEMMA LoadFacts ==
  ASSUME TypeOK, ReadersTypeOK, LoadIncremental
  PROVE  /\ loaded' \in Seq(Skus \X Nat \X Nat)
         /\ since' \in Nat /\ since <= since'
         /\ ToSet(loaded') = ToSet(loaded) \cup {Version(s) : s \in UpdatedAfter(since)}
         /\ \E s \in Skus : since' = table[s].at
         /\ LoadInv => NothingReloaded' /\ \A k \in DOMAIN loaded' : loaded'[k][3] <= since'
         /\ UNCHANGED <<vars, walker>>
<1> DEFINE R == UpdatedAfter(since)
<1>1. since \in Nat /\ loaded \in Seq(Skus \X Nat \X Nat)
  BY DEF ReadersTypeOK
<1>2. R \subseteq Skus /\ R # {} /\ \A s \in R : table[s].at > since
  BY DEF LoadIncremental, UpdatedAfter
<1>3. PICK order \in [1 .. Cardinality(R) -> R] :
        /\ \A i, j \in DOMAIN order : i < j => Earlier(order[i], order[j])
        /\ loaded' = loaded \o Versions(order)
  BY DEF LoadIncremental, Ordered
<1>4. since' = Max({table[s].at : s \in R}) /\ UNCHANGED <<vars, walker>>
  BY DEF LoadIncremental
<1> HIDE DEF R
<1> DEFINE given == Versions(order)
<1>5. /\ given \in Seq(Skus \X Nat \X Nat)
      /\ ToSet(given) = {Version(s) : s \in R}
      /\ \A i \in 1 .. Len(given) : \E s \in R : given[i] = Version(s)
      /\ \A i, j \in 1 .. Len(given) : i < j =>
           given[i] # given[j] /\ given[i][3] <= given[j][3]
  BY <1>2, <1>3, RowsFacts
<1> HIDE DEF given
<1>6. loaded' = loaded \o given
  BY <1>3 DEF given
<1>7. /\ loaded' \in Seq(Skus \X Nat \X Nat)
      /\ DOMAIN loaded' = 1 .. Len(loaded) + Len(given)
      /\ \A i \in 1 .. Len(loaded) : loaded'[i] = loaded[i]
      /\ \A i \in 1 .. Len(given) : loaded'[Len(loaded) + i] = given[i]
      /\ ToSet(loaded') = ToSet(loaded) \cup ToSet(given)
  BY <1>1, <1>5, <1>6, ConcatFacts
<1>8. /\ since' \in Nat /\ since < since'
      /\ \E s \in Skus : since' = table[s].at
      /\ \A s \in R : table[s].at <= since'
  <2> DEFINE times == {table[s].at : s \in R}
             f == [s \in R |-> table[s].at]
  <2>1. times \subseteq Nat /\ times # {}
    BY <1>2, VersionFacts
  <2>2. f \in Surjection(R, times)
    <3>1. f \in [R -> times] /\ \A x \in times : \E s \in R : f[s] = x
      OBVIOUS
    <3> QED BY <3>1 DEF Surjection
  <2>3. IsFiniteSet(R)
    BY <1>2, SkusAssumption, FS_Subset
  <2>4. IsFiniteSet(times)
    <3> HIDE DEF f, times
    <3> QED BY <2>2, <2>3, FS_Surjection
  <2>5. since' \in times /\ since' \in Nat /\ \A m \in times : m <= since'
    <3> HIDE DEF times
    <3>1. since' = Max(times)
      BY <1>4 DEF times
    <3> QED BY <2>1, <2>4, <3>1, MaxFacts
  <2>6. PICK s \in R : since' = table[s].at
    BY <2>5
  <2> QED BY <1>1, <1>2, <2>5, <2>6
<1>9. ASSUME LoadInv
      PROVE  NothingReloaded' /\ \A k \in DOMAIN loaded' : loaded'[k][3] <= since'
  <2> DEFINE m == Len(loaded)
             n == Len(given)
             new == loaded'
             upTo == since'
  <2>1. /\ m \in Nat /\ n \in Nat
        /\ DOMAIN new = 1 .. m + n
        /\ \A i \in 1 .. m : new[i] = loaded[i]
        /\ \A i \in 1 .. n : new[m + i] = given[i]
    BY <1>1, <1>7
  <2>2. /\ \A i \in 1 .. m : loaded[i][3] \in Nat /\ loaded[i][3] <= since
        /\ \A i, j \in 1 .. m : i < j => loaded[i] # loaded[j] /\ loaded[i][3] <= loaded[j][3]
    <3>1. DOMAIN loaded = 1 .. m
      BY <1>1
    <3>2. \A i \in 1 .. m : loaded[i] \in Skus \X Nat \X Nat
      BY <1>1
    <3>3. \A i \in 1 .. m : loaded[i][3] \in Nat
      BY <3>2
    <3> HIDE DEF m
    <3> QED BY <1>9, <3>1, <3>3 DEF LoadInv, NothingReloaded
  <2>3. \A i \in 1 .. n : /\ given[i][3] \in Nat
                          /\ since < given[i][3] /\ given[i][3] <= upTo
    <3> SUFFICES ASSUME NEW i \in 1 .. n
                 PROVE  /\ given[i][3] \in Nat
                        /\ since < given[i][3] /\ given[i][3] <= upTo
      OBVIOUS
    <3>1. PICK s \in R : given[i] = Version(s)
      BY <1>5
    <3>2. given[i][3] = table[s].at /\ table[s].at \in Nat
      BY <1>2, <3>1, VersionFacts
    <3>3. table[s].at > since /\ table[s].at <= upTo
      BY <1>2, <1>8
    <3> HIDE DEF upTo
    <3> QED BY <1>1, <3>2, <3>3
  <2>4. since \in Nat /\ upTo \in Nat /\ since < upTo
    BY <1>1, <1>8
  <2>5. \A i, j \in 1 .. n : i < j => given[i] # given[j] /\ given[i][3] <= given[j][3]
    BY <1>5
  <2> HIDE DEF m, n, new, upTo
  <2>6. \A k \in 1 .. m + n : k \in 1 .. m \/ \E i \in 1 .. n : k = m + i
    BY <2>1, PlaceOf
  <2>7. ASSUME NEW k \in 1 .. m + n PROVE new[k][3] <= upTo
    <3>1. CASE k \in 1 .. m
      BY <2>1, <2>2, <2>4, <3>1
    <3>2. CASE \E i \in 1 .. n : k = m + i
      BY <2>1, <2>3, <3>2
    <3> QED BY <2>6, <3>1, <3>2
  <2>8. ASSUME NEW j \in 1 .. m + n, NEW k \in 1 .. m + n, j < k
        PROVE  new[j] # new[k] /\ new[j][3] <= new[k][3]
    <3>1. CASE k \in 1 .. m
      <4>1. j \in 1 .. m
        BY <2>1, <2>8, <3>1
      <4> QED BY <2>1, <2>2, <2>8, <3>1, <4>1
    <3>2. ASSUME NEW i \in 1 .. n, k = m + i, j \in 1 .. m
          PROVE  new[j] # new[k] /\ new[j][3] <= new[k][3]
      <4>1. new[j] = loaded[j] /\ new[k] = given[i]
        BY <2>1, <3>2
      <4>2. loaded[j][3] < given[i][3] /\ loaded[j][3] <= given[i][3]
            /\ loaded[j][3] # given[i][3]
        BY <2>2, <2>3, <2>4, <3>2
      <4> QED BY <4>1, <4>2
    <3>3. ASSUME NEW i \in 1 .. n, k = m + i, NEW l \in 1 .. n, j = m + l
          PROVE  new[j] # new[k] /\ new[j][3] <= new[k][3]
      <4>1. l < i
        BY <2>1, <2>8, <3>3
      <4> QED BY <2>1, <2>5, <3>3, <4>1
    <3> QED BY <2>6, <3>1, <3>2, <3>3
  <2>9. \A k \in DOMAIN new : new[k][3] <= upTo
    BY <2>1, <2>7
  <2>10. \A i, j \in DOMAIN new : i < j => new[i] # new[j] /\ new[i][3] <= new[j][3]
    BY <2>1, <2>8
  <2> QED BY <2>9, <2>10 DEF NothingReloaded, new, upTo
<1>10. since <= since'
  BY <1>1, <1>8
<1> QED BY <1>4, <1>5, <1>7, <1>8, <1>9, <1>10 DEF R

-----------------------------------------------------------------------------
(* The readers' steps beside the store's.                                  *)
LEMMA ReadersInitTypes == ASSUME ReadersInit PROVE ReadersTypeOK
<1>1. overlapped \in BOOLEAN
  BY DEF ReadersInit
<1>2. seen = <<>> /\ loaded = <<>> /\ walk = "off" /\ cursor = 0 /\ since = 0
  BY DEF ReadersInit
<1>3. there = {} /\ atEnd = {}
  BY DEF ReadersInit
<1> QED BY <1>1, <1>2, <1>3 DEF ReadersTypeOK

LEMMA ReadersNextTypes ==
  ASSUME TypeOK, ReadersTypeOK, [ReadersNext]_allVars PROVE ReadersTypeOK'
<1>0. overlapped' \in BOOLEAN
  <2>1. ReadersNext => overlapped' \in {overlapped, overlapped \/ TwoAtATime'}
    BY DEF ReadersNext, WriterStep, ListProducts, LoadIncremental
  <2> QED BY <2>1 DEF ReadersTypeOK, allVars
<1>1. CASE UNCHANGED <<walker, loader>>
  BY <1>0, <1>1 DEF walker, loader, ReadersTypeOK
<1>2. CASE ListProducts
  <2>1. PICK page \in SUBSET Ids :
          /\ seen' \in Seq(Nat \ {0}) /\ cursor' \in Nat /\ walk' \in {"on", "done"}
          /\ there' = IF walk = "off" THEN Ids ELSE there
          /\ atEnd' \subseteq Ids
          /\ UNCHANGED <<vars, loader>>
    BY <1>2, ListFacts
  <2>2. Ids \subseteq Nat
    BY IdsFacts
  <2>3. there' \subseteq Nat /\ atEnd' \subseteq Nat
    BY <2>1, <2>2 DEF ReadersTypeOK
  <2>4. since' \in Nat /\ loaded' \in Seq(Skus \X Nat \X Nat)
    BY <2>1 DEF ReadersTypeOK, loader
  <2> QED BY <1>0, <2>1, <2>3, <2>4 DEF ReadersTypeOK
<1>3. CASE LoadIncremental
  <2>1. /\ loaded' \in Seq(Skus \X Nat \X Nat) /\ since' \in Nat
        /\ UNCHANGED <<vars, walker>>
    BY <1>3, LoadFacts
  <2> QED BY <1>0, <2>1 DEF ReadersTypeOK, walker
<1> QED BY <1>1, <1>2, <1>3 DEF ReadersNext, WriterStep, allVars

(* A reader changes nothing of the store.                                  *)
LEMMA ReadersRefineStore == ReadersSpec => Spec
<1>1. ReadersInit => Init
  BY DEF ReadersInit
<1>2. [ReadersNext]_allVars => [Next]_vars
  BY DEF ReadersNext, WriterStep, ListProducts, LoadIncremental, allVars
<1> QED BY <1>1, <1>2, PTL DEF ReadersSpec, Spec

(* The types hold in every state.                                          *)
LEMMA ReadersTypes == ReadersSpec => []ReadersTypeOK
<1>1. Spec => []TypeOK
  <2>1. StoreInv => TypeOK
    BY DEF StoreInv
  <2> QED BY <2>1, StoreInvariance, PTL
<1> QED BY <1>1, ReadersRefineStore, ReadersInitTypes, ReadersNextTypes, PTL DEF ReadersSpec

(* No product leaves the table, and none changes its id.                   *)
LEMMA IdsStay ==
  ASSUME StoreInv, [Next]_vars PROVE Ids \subseteq Ids'
<1>1. ASSUME NEW s \in Skus, Present(s) PROVE Present(s)' /\ table'[s].id = table[s].id
  <2>1. table'[s].id = table[s].id
    BY <1>1, StepKeepsIds DEF vars, store
  <2> QED BY <1>1, <2>1 DEF Present
<1>2. ASSUME NEW i \in Ids PROVE i \in Ids'
  <2>1. PICK s \in Skus : Present(s) /\ i = table[s].id
    BY <1>2 DEF Ids
  <2>2. Present(s)' /\ i = table'[s].id
    BY <1>1, <2>1
  <2> QED BY <2>2 DEF Ids
<1> QED BY <1>2

-----------------------------------------------------------------------------
(* The walk.                                                               *)
LEMMA InitWalkInv == ASSUME ReadersInit PROVE WalkInv
<1>1. ToSet(seen) = {} /\ IsInjective(seen)
  BY DEF ReadersInit, ToSet, IsInjective
<1> QED BY <1>1, ReadersInitTypes DEF ReadersInit, WalkInv

(* A page returns what lies between the cursors, and the last one all that *)
(* is left.                                                                *)
LEMMA ListStep ==
  ASSUME StoreInv, WalkInv, ReadersTypeOK', ListProducts PROVE WalkInv'
<1>1. TypeOK /\ ReadersTypeOK /\ cursor \in Nat /\ there \subseteq Ids
  BY DEF StoreInv, WalkInv, ReadersTypeOK
<1>2. PICK page \in SUBSET Ids :
        /\ page = PageAfter(cursor)
        /\ ToSet(seen') = ToSet(seen) \cup page
        /\ (IsInjective(seen) /\ \A i \in ToSet(seen) : i <= cursor) => IsInjective(seen')
        /\ cursor' \in Nat /\ cursor <= cursor'
        /\ \A i \in page : i <= cursor'
        /\ page = {} => cursor' = cursor
        /\ page # {} => cursor' \in page
        /\ walk' \in {"on", "done"}
        /\ walk' = "done" => Cardinality(page) # PageLimit
        /\ there' = IF walk = "off" THEN Ids ELSE there
        /\ UNCHANGED <<vars, loader>>
  BY <1>1, ListFacts
<1>3. Ids' = Ids
  BY <1>2 DEF Ids, Present, vars, store
<1>4. /\ \A k \in page, i \in Ids : (cursor < i /\ i <= k) => i \in page
      /\ Cardinality(page) # PageLimit => \A i \in Ids : cursor < i => i \in page
  BY <1>1, <1>2, PageFacts
<1>5. \A i \in Ids : i \in Nat /\ i # 0
  BY <1>1, IdsFacts
<1>6. there' \subseteq Ids /\ \A i \in there' : i <= cursor => i \in ToSet(seen)
  <2>1. CASE walk = "off"
    <3>1. cursor = 0
      BY <2>1 DEF WalkInv
    <3>2. \A i \in Ids : ~(i <= cursor)
      BY <1>5, <3>1
    <3> QED BY <1>2, <2>1, <3>2
  <2>2. CASE walk # "off"
    <3>1. there' = there
      BY <1>2, <2>2
    <3> QED BY <1>1, <3>1 DEF WalkInv
  <2> QED BY <2>1, <2>2
<1>7. ASSUME NEW i \in there', walk' = "done" \/ i <= cursor' PROVE i \in ToSet(seen')
  <2>1. i \in Ids /\ i \in Nat
    BY <1>5, <1>6
  <2>2. CASE i <= cursor
    BY <1>2, <1>6, <2>2
  <2>3. CASE cursor < i
    <3>1. CASE walk' = "done"
      BY <1>2, <1>4, <2>1, <2>3, <3>1
    <3>2. CASE i <= cursor'
      <4>1. cursor' # cursor
        BY <1>1, <2>1, <2>3, <3>2
      <4>2. cursor' \in page
        BY <1>2, <4>1
      <4>3. i \in page
        BY <1>4, <2>1, <2>3, <3>2, <4>2
      <4> QED BY <1>2, <4>3
    <3> QED BY <1>7, <3>1, <3>2
  <2> QED BY <1>1, <2>1, <2>2, <2>3
<1>8. /\ \A i \in ToSet(seen) : i <= cursor /\ i \in Nat
      /\ IsInjective(seen)
  <2>1. seen \in Seq(Nat \ {0})
    BY <1>1 DEF ReadersTypeOK
  <2>2. ToSet(seen) \subseteq Nat \ {0}
    BY <2>1, ToSetIn
  <2> QED BY <2>2 DEF WalkInv
<1>9. ASSUME NEW i \in ToSet(seen') PROVE i <= cursor'
  <2>1. CASE i \in page
    BY <1>2, <2>1
  <2>2. CASE i \in ToSet(seen)
    <3>1. i \in Nat /\ i <= cursor /\ cursor <= cursor' /\ cursor' \in Nat
      BY <1>2, <1>8, <2>2
    <3> QED BY <1>1, <3>1
  <2> QED BY <1>2, <1>9, <2>1, <2>2
<1>10. IsInjective(seen')
  BY <1>2, <1>8
<1>11. walk' # "off"
  BY <1>2
<1> QED BY <1>3, <1>6, <1>7, <1>9, <1>10, <1>11 DEF WalkInv

LEMMA NextWalkInv ==
  ASSUME StoreInv, WalkInv, [ReadersNext]_allVars PROVE WalkInv'
<1>1. ReadersTypeOK'
  BY ReadersNextTypes DEF StoreInv, WalkInv
<1>2. CASE [Next]_vars /\ UNCHANGED walker
  <2>1. Ids \subseteq Ids'
    BY <1>2, IdsStay
  <2> QED BY <1>1, <1>2, <2>1 DEF WalkInv, walker
<1>3. CASE ListProducts
  BY <1>1, <1>3, ListStep
<1> QED BY <1>2, <1>3 DEF ReadersNext, WriterStep, LoadIncremental, allVars

(* A walk returns nothing twice, and everything that was there when it     *)
(* began: the key is what makes a page begin where the one before ended,   *)
(* whatever is inserted and written over in between.                       *)
THEOREM StableWalk == ReadersSpec => []WalkIsStable
<1>1. ReadersSpec => []WalkInv
  <2>1. ReadersInit => WalkInv
    BY InitWalkInv
  <2>2. StoreInv /\ WalkInv /\ [ReadersNext]_allVars => WalkInv'
    BY NextWalkInv
  <2> QED BY <2>1, <2>2, ReadersRefineStore, StoreInvariance, PTL DEF ReadersSpec
<1>2. WalkInv => WalkIsStable
  BY DEF WalkInv, WalkIsStable
<1> QED BY <1>1, <1>2, PTL

-----------------------------------------------------------------------------
(* The loader.                                                             *)
LEMMA NextLoadInv ==
  ASSUME TypeOK, LoadInv, [ReadersNext]_allVars PROVE LoadInv'
<1>1. ReadersTypeOK /\ ReadersTypeOK'
  BY ReadersNextTypes DEF LoadInv
<1>2. CASE UNCHANGED loader
  BY <1>1, <1>2 DEF LoadInv, NothingReloaded, loader
<1>3. CASE LoadIncremental
  BY <1>1, <1>3, LoadFacts DEF LoadInv
<1> QED BY <1>2, <1>3 DEF ReadersNext, WriterStep, ListProducts, allVars

(* The loader is never given a version twice, nor out of order: whatever   *)
(* it has been given lies at or before its watermark.                      *)
THEOREM NoReload == ReadersSpec => []NothingReloaded
<1>1. ReadersInit => LoadInv
  <2> SUFFICES ASSUME ReadersInit PROVE LoadInv
    OBVIOUS
  <2>1. DOMAIN loaded = {}
    BY DEF ReadersInit
  <2> QED BY <2>1, ReadersInitTypes DEF LoadInv, NothingReloaded
<1>2. StoreInv => TypeOK
  BY DEF StoreInv
<1>3. TypeOK /\ LoadInv /\ [ReadersNext]_allVars => LoadInv'
  BY NextLoadInv
<1>4. LoadInv => NothingReloaded
  BY DEF LoadInv
<1> QED BY <1>1, <1>2, <1>3, <1>4, ReadersRefineStore, StoreInvariance, PTL DEF ReadersSpec

-----------------------------------------------------------------------------
(* The four kinds of steps of the store, as far as stamps are concerned:   *)
(* nothing happens to a transaction; one begins or goes on; a row is       *)
(* written in one; one ends.                                               *)
NoTx(w)    == /\ UNCHANGED <<session, lock, staged, table, clock>>
              /\ \A v \in Writers : drawn'[v] \in {drawn[v], 0}
InTx(w)    == /\ InTransaction(w) /\ UNCHANGED <<lock, staged, table>>
              /\ \A v \in Writers : v # w => drawn'[v] = drawn[v]
EndTx(w)   == /\ \E c \in {"idle", "failed"} : conn' = [conn EXCEPT ![w] = c]
              /\ Unlock(w) /\ (Publish(w) \/ UNCHANGED table)
              /\ drawn'[w] = 0 /\ \A v \in Writers : v # w => drawn'[v] = drawn[v]
              /\ UNCHANGED <<began, staged, clock>>

LEMMA KindsOfSteps ==
  ASSUME StoreInv, [Next]_vars
  PROVE  \/ UNCHANGED vars
         \/ \E w \in Writers : NoTx(w) \/ InTx(w) \/ Place(w) \/ EndTx(w)
<1> TypeOK
  BY DEF StoreInv
<1> SUFFICES ASSUME NEW w \in Writers, Write(w)
             PROVE  NoTx(w) \/ InTx(w) \/ Place(w) \/ EndTx(w)
  BY DEF Next, Quiet
<1>1. ASSUME Leave(w)
      PROVE  /\ drawn'[w] = 0
             /\ \A v \in Writers : v # w => drawn'[v] = drawn[v]
             /\ \A v \in Writers : drawn'[v] \in {drawn[v], 0}
  BY <1>1, LeavePointwise
<1>2. CASE \E b \in Batches : Upsert(w, b)
  BY <1>2 DEF Upsert, NoTx, store
<1>3. CASE Draw(w)
  BY <1>3 DEF Draw, InTx, TypeOK
<1>4. CASE Place(w)
  BY <1>4
<1>5. CASE Commit(w)
  BY <1>1, <1>5 DEF Commit, EndTx
<1>6. CASE RaiseOnRecord(w)
  BY <1>1, <1>6 DEF RaiseOnRecord, NoTx, store
<1>7. CASE RejectRecord(w)
  BY <1>1, <1>7 DEF RejectRecord, Rollback, EndTx
<1>8. CASE Read(w)
  BY <1>8 DEF Read, InTx, work, store
<1>9. CASE OwnerResets(w)
  <2>1. drawn[w] = 0 /\ drawn' = drawn
    BY <1>9 DEF OwnerResets, work, StoreInv, CallIsUnderWay
  <2> QED BY <1>9, <2>1 DEF OwnerResets, Rollback, EndTx
<1>10. CASE DeadlockDetected(w)
  BY <1>1, <1>10 DEF DeadlockDetected, Rollback, EndTx
<1>11. CASE LoseConnection(w)
  BY <1>1, <1>11 DEF LoseConnection, Rollback, EndTx
<1>12. CASE CommitUnacknowledged(w)
  BY <1>1, <1>12 DEF CommitUnacknowledged, EndTx
<1> QED BY <1>2, <1>3, <1>4, <1>5, <1>6, <1>7, <1>8, <1>9, <1>10, <1>11, <1>12
        DEF Write, Statement

(* Two states of a transaction that begins or goes on.                     *)
LEMMA InTransactionFacts ==
  ASSUME TypeOK, NEW w \in Writers, InTransaction(w)
  PROVE  /\ conn'[w] = "open" /\ clock <= clock'
         /\ began'[w] = IF conn[w] = "idle" THEN clock + 1 ELSE began[w]
         /\ conn[w] = "idle" => clock' = clock + 1
         /\ conn[w] # "idle" => conn[w] = "open" /\ clock' = clock
         /\ \A v \in Writers : v # w => conn'[v] = conn[v] /\ began'[v] = began[v]
         /\ clock \in Nat
BY DEF TypeOK, InTransaction, session

(* What a transaction's end does to the rows and the locks.                *)
LEMMA EndFacts ==
  ASSUME TypeOK, NEW w \in Writers, EndTx(w)
  PROVE  /\ conn'[w] # "open"
         /\ \A v \in Writers : v # w => conn'[v] = conn[v] /\ drawn'[v] = drawn[v]
         /\ drawn'[w] = 0
         /\ \A s \in Skus : lock'[s] # w /\ (lock'[s] = lock[s] \/ lock'[s] = NoOne)
         /\ \A s \in Skus : table'[s] = table[s] \/ (lock[s] = w /\ table'[s] = staged[s])
         /\ UNCHANGED <<began, staged, clock>>
<1>1. /\ conn'[w] # "open"
      /\ \A v \in Writers : v # w => conn'[v] = conn[v]
  BY DEF EndTx, TypeOK
<1>2. \A s \in Skus : lock'[s] # w /\ (lock'[s] = lock[s] \/ lock'[s] = NoOne)
  BY WritersAssumption DEF EndTx, Unlock
<1>3. \A s \in Skus : table'[s] = table[s] \/ (lock[s] = w /\ table'[s] = staged[s])
  BY DEF EndTx, Publish, Current
<1> QED BY <1>1, <1>2, <1>3 DEF EndTx

(* A row is written: it is stamped, and locked for its writer.             *)
LEMMA PlaceFacts ==
  ASSUME StoreInv, NEW w \in Writers, Place(w)
  PROVE  /\ drawn[w] # 0
         /\ \A v \in Writers : drawn'[v] \in {drawn[v], 0}
         /\ \A s \in Skus : \/ lock'[s] = lock[s] /\ staged'[s] = staged[s]
                            \/ lock'[s] = w /\ staged'[s].at = began[w]
         /\ UNCHANGED <<session, table, clock>>
<1> TypeOK
  BY DEF StoreInv
<1>1. Head(todo[w]) \in Skus
  BY DEF StoreInv, CallIsUnderWay, Place
<1>2. Written(w, Head(todo[w])).at = began[w]
  BY DEF Written
<1>3. \A s \in Skus : \/ lock'[s] = lock[s] /\ staged'[s] = staged[s]
                      \/ lock'[s] = w /\ staged'[s].at = began[w]
  BY <1>1, <1>2 DEF Place, TypeOK
<1>4. \A v \in Writers : drawn'[v] \in {drawn[v], 0}
  BY DEF Place, TypeOK
<1> QED BY <1>3, <1>4 DEF Place

(* Stamps are those of open transactions.                                  *)
LEMMA NextStampsInv ==
  ASSUME StoreInv, TypeOK', StampsInv, [Next]_vars PROVE StampsInv'
<1> TypeOK
  BY DEF StoreInv
<1>1. /\ clock \in Nat /\ clock' \in Nat
      /\ \A v \in Writers : began[v] \in Nat
      /\ \A s \in Skus : table[s].at \in Nat
  BY DEF TypeOK, Row
<1>2. CASE UNCHANGED vars
  BY <1>2 DEF vars, session, work, store, StampsInv
<1>3. ASSUME NEW w \in Writers, NoTx(w) PROVE StampsInv'
  BY <1>3 DEF NoTx, session, StampsInv
<1>4. ASSUME NEW w \in Writers, InTx(w) PROVE StampsInv'
  <2>1. /\ conn'[w] = "open" /\ clock <= clock'
        /\ began'[w] = IF conn[w] = "idle" THEN clock + 1 ELSE began[w]
        /\ conn[w] = "idle" => clock' = clock + 1
        /\ conn[w] # "idle" => conn[w] = "open" /\ clock' = clock
        /\ \A v \in Writers : v # w => conn'[v] = conn[v] /\ began'[v] = began[v]
    BY <1>4, InTransactionFacts DEF InTx
  <2>2. /\ UNCHANGED <<lock, staged, table>>
        /\ \A v \in Writers : v # w => drawn'[v] = drawn[v]
    BY <1>4 DEF InTx
  <2>3. ASSUME NEW v \in Writers PROVE began'[v] <= clock'
    <3>1. began[v] <= clock /\ began[w] <= clock
      BY DEF StampsInv
    <3> QED BY <1>1, <2>1, <3>1
  <2>4. ASSUME NEW s \in Skus PROVE table'[s].at <= clock'
    <3>1. table[s].at <= clock
      BY DEF StampsInv
    <3> QED BY <1>1, <2>1, <2>2, <3>1
  <2>5. ASSUME NEW v \in Writers, NEW s \in Skus, lock'[s] = v
        PROVE  conn'[v] = "open" /\ staged'[s].at = began'[v]
    <3>1. conn[v] = "open" /\ staged[s].at = began[v]
      BY <2>2, <2>5 DEF StampsInv
    <3> QED BY <2>1, <2>2, <3>1
  <2>6. ASSUME NEW v \in Writers, drawn'[v] # 0 PROVE conn'[v] = "open"
    BY <2>1, <2>2, <2>6 DEF StampsInv
  <2> QED BY <2>3, <2>4, <2>5, <2>6 DEF StampsInv
<1>5. ASSUME NEW w \in Writers, Place(w) PROVE StampsInv'
  <2>1. /\ drawn[w] # 0
        /\ \A v \in Writers : drawn'[v] \in {drawn[v], 0}
        /\ \A s \in Skus : \/ lock'[s] = lock[s] /\ staged'[s] = staged[s]
                           \/ lock'[s] = w /\ staged'[s].at = began[w]
        /\ UNCHANGED <<conn, began, table, clock>>
    BY <1>5, PlaceFacts DEF session
  <2>2. ASSUME NEW v \in Writers, NEW s \in Skus, lock'[s] = v
        PROVE  conn'[v] = "open" /\ staged'[s].at = began'[v]
    BY <2>1, <2>2 DEF StampsInv
  <2> QED BY <2>1, <2>2 DEF StampsInv
<1>6. ASSUME NEW w \in Writers, EndTx(w) PROVE StampsInv'
  <2>1. /\ conn'[w] # "open"
        /\ \A v \in Writers : v # w => conn'[v] = conn[v] /\ drawn'[v] = drawn[v]
        /\ drawn'[w] = 0
        /\ \A s \in Skus : lock'[s] # w /\ (lock'[s] = lock[s] \/ lock'[s] = NoOne)
        /\ \A s \in Skus : table'[s] = table[s] \/ (lock[s] = w /\ table'[s] = staged[s])
        /\ UNCHANGED <<began, staged, clock>>
    BY <1>6, EndFacts
  <2>2. ASSUME NEW v \in Writers, NEW s \in Skus, lock'[s] = v
        PROVE  conn'[v] = "open" /\ staged'[s].at = began'[v]
    BY <2>1, <2>2, WritersAssumption DEF StampsInv
  <2>3. ASSUME NEW s \in Skus PROVE table'[s].at <= clock'
    BY <2>1 DEF StampsInv
  <2> QED BY <2>1, <2>2, <2>3 DEF StampsInv
<1> QED BY <1>2, <1>3, <1>4, <1>5, <1>6, KindsOfSteps

(* The writers' steps: a transaction that begins while none is open begins *)
(* after all there is, and one that ends was open alone.                   *)
LEMMA NextSerialInv ==
  ASSUME StoreInv, TypeOK', ReadersTypeOK', SerialInv, WriterStep
  PROVE  SerialInv'
<1> TypeOK
  BY DEF StoreInv
<1>1. StampsInv /\ StampsInv'
  BY NextStampsInv DEF SerialInv, WriterStep
<1>2. /\ since' = since /\ loaded' = loaded
      /\ overlapped \in BOOLEAN /\ overlapped' = (overlapped \/ TwoAtATime')
  BY DEF SerialInv, ReadersTypeOK, WriterStep, walker, loader
<1>3. /\ clock \in Nat /\ clock' \in Nat /\ since \in Nat /\ since <= clock
      /\ \A v \in Writers : began[v] \in Nat /\ began[v] <= clock
      /\ \A s \in Skus : table[s].at \in Nat /\ table[s].at <= clock
  BY <1>1 DEF TypeOK, Row, SerialInv, ReadersTypeOK, StampsInv
<1>4. since' <= clock'
  <2>1. CASE UNCHANGED vars
    BY <1>2, <1>3, <2>1 DEF vars
  <2>2. ASSUME NEW w \in Writers, InTx(w) PROVE clock <= clock'
    BY <2>2, InTransactionFacts DEF InTx
  <2>3. ASSUME NEW w \in Writers, NoTx(w) \/ Place(w) \/ EndTx(w) PROVE clock' = clock
    BY <2>3 DEF NoTx, Place, EndTx
  <2> QED BY <1>2, <1>3, <2>1, <2>2, <2>3, KindsOfSteps DEF WriterStep
<1> SUFFICES ASSUME ~overlapped'
             PROVE  /\ ~TwoAtATime'
                    /\ \A w \in Writers : conn'[w] = "open" =>
                         since < began'[w] /\ \A s \in Skus : table'[s].at < began'[w]
                    /\ \A s \in Skus : (Present(s)' /\ table'[s].at <= since) =>
                         Version(s)' \in ToSet(loaded)
  BY <1>1, <1>2, <1>4 DEF SerialInv
<1>5. /\ ~TwoAtATime /\ ~TwoAtATime'
      /\ \A w \in Writers : conn[w] = "open" =>
           since < began[w] /\ \A s \in Skus : table[s].at < began[w]
      /\ \A s \in Skus : (Present(s) /\ table[s].at <= since) => Version(s) \in ToSet(loaded)
  BY <1>2 DEF SerialInv
<1>6. \A v, w \in Writers : (conn[v] = "open" /\ conn[w] = "open") => v = w
  BY <1>5 DEF TwoAtATime
<1>7. \A v, w \in Writers : (conn'[v] = "open" /\ conn'[w] = "open") => v = w
  BY <1>5 DEF TwoAtATime
<1>8. CASE UNCHANGED <<session, table, clock>>
  <2>1. UNCHANGED <<conn, began, table, clock>>
    BY <1>8 DEF session
  <2> QED BY <1>5, <2>1 DEF Present, Version
<1>9. ASSUME NEW w \in Writers, InTx(w)
      PROVE  /\ \A v \in Writers : conn'[v] = "open" =>
                  since < began'[v] /\ \A s \in Skus : table'[s].at < began'[v]
             /\ \A s \in Skus : (Present(s)' /\ table'[s].at <= since) =>
                  Version(s)' \in ToSet(loaded)
  <2>1. /\ clock <= clock' /\ table' = table /\ conn'[w] = "open"
        /\ began'[w] = IF conn[w] = "idle" THEN clock + 1 ELSE began[w]
        /\ conn[w] # "idle" => conn[w] = "open"
    BY <1>9, InTransactionFacts DEF InTx
  <2>2. since < began'[w]
    BY <1>3, <1>5, <2>1
  <2>3. ASSUME NEW s \in Skus PROVE table'[s].at < began'[w]
    BY <1>3, <1>5, <2>1
  <2>4. \A s \in Skus : (Present(s)' /\ table'[s].at <= since) => Version(s)' \in ToSet(loaded)
    BY <1>5, <2>1 DEF Present, Version
  <2>5. \A v \in Writers : conn'[v] = "open" => v = w
    BY <1>7, <2>1
  <2> QED BY <2>2, <2>3, <2>4, <2>5
<1>10. ASSUME NEW w \in Writers, EndTx(w)
       PROVE  /\ \A v \in Writers : conn'[v] = "open" =>
                   since < began'[v] /\ \A s \in Skus : table'[s].at < began'[v]
              /\ \A s \in Skus : (Present(s)' /\ table'[s].at <= since) =>
                   Version(s)' \in ToSet(loaded)
  <2>1. /\ conn'[w] # "open" /\ began' = began
        /\ \A v \in Writers : v # w => conn'[v] = conn[v]
        /\ \A s \in Skus : table'[s] = table[s] \/ (lock[s] = w /\ table'[s] = staged[s])
    BY <1>10, EndFacts
  <2>2. \A s \in Skus : lock[s] = w => conn[w] = "open" /\ staged[s].at = began[w]
    BY <1>1 DEF StampsInv
  <2>3. ASSUME NEW s \in Skus, Present(s)', table'[s].at <= since
        PROVE  Version(s)' \in ToSet(loaded)
    <3>1. CASE table'[s] = table[s]
      BY <1>5, <2>3, <3>1 DEF Present, Version
    <3>2. CASE lock[s] = w /\ table'[s] = staged[s]
      BY <1>3, <1>5, <2>2, <2>3, <3>2
    <3> QED BY <2>1, <3>1, <3>2
  <2>4. ASSUME NEW v \in Writers, conn'[v] = "open", NEW s \in Skus
        PROVE  since < began'[v] /\ table'[s].at < began'[v]
    <3>1. v # w /\ conn[v] = "open" /\ began'[v] = began[v]
      BY <2>1, <2>4
    <3>2. lock[s] # w
      BY <1>6, <2>2, <3>1
    <3> QED BY <1>5, <2>1, <3>1, <3>2
  <2>5. ASSUME NEW v \in Writers, conn'[v] = "open" PROVE since < began'[v]
    BY <1>5, <2>1, <2>5
  <2> QED BY <2>3, <2>4, <2>5
<1>11. \A w \in Writers : UNCHANGED vars \/ NoTx(w) \/ Place(w)
                            => UNCHANGED <<session, table, clock>>
  BY DEF vars, store, NoTx, Place
<1>12. UNCHANGED vars => UNCHANGED <<session, table, clock>>
  BY DEF vars, store
<1> QED BY <1>5, <1>8, <1>9, <1>10, <1>11, <1>12, KindsOfSteps DEF WriterStep

(* The loader's step: the rows up to the new watermark are those it has    *)
(* and those it is given.                                                  *)
LEMMA LoadSerialInv ==
  ASSUME TypeOK, ReadersTypeOK', SerialInv, LoadIncremental PROVE SerialInv'
<1>1. /\ since' \in Nat /\ since \in Nat
      /\ ToSet(loaded') = ToSet(loaded) \cup {Version(s) : s \in UpdatedAfter(since)}
      /\ \E s \in Skus : since' = table[s].at
      /\ UNCHANGED vars
  BY LoadFacts DEF SerialInv, ReadersTypeOK
<1>2. UNCHANGED <<conn, began, drawn, lock, staged, table, clock, overlapped>>
  BY <1>1 DEF vars, session, work, store, LoadIncremental
<1>3. /\ StampsInv' /\ TwoAtATime' = TwoAtATime
      /\ \A s \in Skus : Version(s)' = Version(s) /\ Present(s)' = Present(s)
  BY <1>2 DEF SerialInv, StampsInv, Version, Present, TwoAtATime
<1>4. \A s \in Skus : table[s].at \in Nat
  BY DEF TypeOK, Row
<1>5. PICK t \in Skus : since' = table[t].at
  BY <1>1
<1>6. since' <= clock'
  BY <1>2, <1>5 DEF SerialInv, StampsInv
<1>7. ASSUME ~overlapped, NEW w \in Writers, conn'[w] = "open" PROVE since' < began'[w]
  BY <1>2, <1>5, <1>7 DEF SerialInv
<1>8. ASSUME ~overlapped, NEW s \in Skus, Present(s) PROVE Version(s) \in ToSet(loaded')
  <2>1. CASE table[s].at <= since
    BY <1>1, <1>8, <2>1 DEF SerialInv
  <2>2. CASE table[s].at > since
    BY <1>1, <1>8, <2>2 DEF UpdatedAfter
  <2> QED BY <1>1, <1>4, <2>1, <2>2
<1> QED BY <1>2, <1>3, <1>6, <1>7, <1>8 DEF SerialInv

(* As long as no two transactions of writers have overlapped, whatever     *)
(* else they do, a watermark at which nothing new is found has every row   *)
(* as it is.                                                               *)
THEOREM SerialWritersAreLoaded == ReadersSpec => []SerialLoaderIsCurrent
<1>1. ReadersInit => SerialInv
  <2> SUFFICES ASSUME ReadersInit PROVE SerialInv
    OBVIOUS
  <2>1. StampsInv
    BY WritersAssumption DEF ReadersInit, Init, StampsInv, NoRow
  <2>2. \A s \in Skus : ~Present(s)
    BY DEF ReadersInit, Init, Present, NoRow
  <2>3. ~TwoAtATime /\ \A w \in Writers : conn[w] # "open"
    BY DEF ReadersInit, Init, TwoAtATime
  <2>4. since = 0 /\ clock = 0
    BY DEF ReadersInit, Init
  <2> QED BY <2>1, <2>2, <2>3, <2>4, ReadersInitTypes DEF SerialInv
<1>2. StoreInv /\ SerialInv /\ [ReadersNext]_allVars => SerialInv'
  <2> SUFFICES ASSUME StoreInv, SerialInv, [ReadersNext]_allVars PROVE SerialInv'
    OBVIOUS
  <2>1. TypeOK /\ ReadersTypeOK /\ ReadersTypeOK'
    BY ReadersNextTypes DEF StoreInv, SerialInv
  <2>2. CASE WriterStep
    <3>1. TypeOK'
      BY <2>1, <2>2, NextTypeOK DEF WriterStep
    <3> QED BY <2>1, <2>2, <3>1, NextSerialInv
  <2>3. CASE UNCHANGED <<vars, loader, overlapped>>
    BY <2>1, <2>3
    DEF SerialInv, StampsInv, TwoAtATime, Present, Version, vars, session, work, store, loader
  <2>4. CASE LoadIncremental
    BY <2>1, <2>4, LoadSerialInv
  <2> QED BY <2>2, <2>3, <2>4 DEF ReadersNext, ListProducts, allVars
<1>3. StoreInv /\ SerialInv => SerialLoaderIsCurrent
  <2> SUFFICES ASSUME StoreInv, SerialInv, ~overlapped, UpdatedAfter(since) = {},
                      NEW s \in Skus, Present(s)
               PROVE  Version(s) \in ToSet(loaded)
    BY DEF SerialLoaderIsCurrent
  <2>1. table[s].at \in Nat /\ since \in Nat
    BY DEF StoreInv, TypeOK, Row, SerialInv, ReadersTypeOK
  <2>2. ~(table[s].at > since)
    BY DEF UpdatedAfter
  <2> QED BY <2>1, <2>2 DEF SerialInv
<1> QED BY <1>1, <1>2, <1>3, ReadersRefineStore, StoreInvariance, PTL DEF ReadersSpec
=============================================================================
