--------------------------- MODULE RegistryProofs ----------------------------
(***************************************************************************)
(* The registry of FLoRA records, for every value of the constants and any *)
(* number of source rows: what a refresh takes, mints and retires.         *)
(***************************************************************************)
EXTENDS FloraRegistry, ListProofs

-----------------------------------------------------------------------------
(***************************************************************************)
(* The order of the product.                                               *)
(***************************************************************************)
LEMMA RowsAreNumbers ==
    /\ SourceRows \subseteq Nat \ {0} /\ IsFiniteSet(SourceRows)
    /\ Cardinality(SourceRows) \in Nat
  BY SourceRowsAssumption, FS_CardinalityType DEF SourceRowsAssumption, SourceRows

\* The rows of r's key that live records have, all of which are hand rows.
HandHolds(r, primaries) ==
    SameKey(r) \cap primaries # {} /\ SameKey(r) \cap primaries \subseteq HandRows

LEMMA YieldsIs ==
    ASSUME NEW r, NEW primaries
    PROVE  /\ HandHolds(r, primaries) =>
                   (Yields(r, primaries) <=> r \notin SameKey(r) \cap primaries)
           /\ ~HandHolds(r, primaries) => (Yields(r, primaries) <=> r \in HandRows)
<1> DEFINE same == SameKey(r) \cap primaries
<1>1. Yields(r, primaries) = IF same # {} /\ same \subseteq HandRows THEN r \notin same
                             ELSE r \in HandRows
  BY DEF Yields
<1>2. HandHolds(r, primaries) <=> same # {} /\ same \subseteq HandRows
  BY DEF HandHolds
<1> HIDE DEF same
<1>3. CASE HandHolds(r, primaries)
  <2>1. Yields(r, primaries) = (r \notin same)
    BY <1>1, <1>2, <1>3
  <2> QED BY <1>3, <2>1 DEF same
<1>4. CASE ~HandHolds(r, primaries)
  <2>1. Yields(r, primaries) = (r \in HandRows)
    BY <1>1, <1>2, <1>4
  <2> QED BY <1>4, <2>1
<1> QED BY <1>3, <1>4

LEMMA YieldsOrNot ==
    ASSUME NEW r, NEW primaries PROVE Yields(r, primaries) \in BOOLEAN
<1> DEFINE same == SameKey(r) \cap primaries
<1>1. Yields(r, primaries) = IF same # {} /\ same \subseteq HandRows THEN r \notin same
                             ELSE r \in HandRows
  BY DEF Yields
<1> HIDE DEF same
<1>2. (r \notin same) \in BOOLEAN /\ (r \in HandRows) \in BOOLEAN
  OBVIOUS
<1>3. CASE same # {} /\ same \subseteq HandRows
  BY <1>1, <1>2, <1>3, Zenon
<1>4. CASE ~(same # {} /\ same \subseteq HandRows)
  BY <1>1, <1>2, <1>4, Zenon
<1> QED BY <1>3, <1>4

LEMMA PrecedesIsAnOrder ==
    ASSUME NEW r \in Nat, NEW s \in Nat, NEW t \in Nat, NEW primaries
    PROVE  /\ Precedes(r, r, primaries)
           /\ Precedes(r, s, primaries) \/ Precedes(s, r, primaries)
           /\ Precedes(r, s, primaries) /\ Precedes(s, r, primaries) => r = s
           /\ Precedes(r, s, primaries) /\ Precedes(s, t, primaries)
                => Precedes(r, t, primaries)
<1> DEFINE yr == Yields(r, primaries)
           ys == Yields(s, primaries)
           yt == Yields(t, primaries)
<1>1. yr \in BOOLEAN /\ ys \in BOOLEAN /\ yt \in BOOLEAN
  BY YieldsOrNot
<1>2. /\ Precedes(r, r, primaries)
      /\ Precedes(r, s, primaries) <=> IF yr <=> ys THEN r <= s ELSE ~yr
      /\ Precedes(s, r, primaries) <=> IF ys <=> yr THEN s <= r ELSE ~ys
      /\ Precedes(s, t, primaries) <=> IF ys <=> yt THEN s <= t ELSE ~ys
      /\ Precedes(r, t, primaries) <=> IF yr <=> yt THEN r <= t ELSE ~yr
  BY <1>1 DEF Precedes
<1> HIDE DEF yr, ys, yt
<1> QED BY <1>1, <1>2

\* Rows of a product or of the new ones, which their source rows tell apart.
ApartBySource(rows) ==
    /\ IsFiniteSet(rows) /\ \A p \in rows : p.src \in SourceRows
    /\ \A p, q \in rows : p.src = q.src => p = q

ProductOK(product) ==
    /\ product \in Seq(ToSet(product))
    /\ ApartBySource(ToSet(product))
    /\ \A p \in ToSet(product) : p \in ProductRow
    /\ \A m, n \in DOMAIN product : product[m] = product[n] => m = n

-----------------------------------------------------------------------------
-----------------------------------------------------------------------------
(***************************************************************************)
(* The product a refresh builds.                                           *)
(***************************************************************************)
LEMMA ProductRowsAreTyped ==
    ASSUME SourceTypeOK, NEW p \in Product
    PROVE  p \in ProductRow /\ p.src \in SourceRows
<1>1. PICK r \in Surviving(LivePrimaries) :
          p = [src |-> r, merged |-> Absorbs(r, LivePrimaries), key |-> KeyOf(r)]
  BY DEF Product, ProductOf
<1>2. r \in SourceRows
  BY <1>1 DEF Surviving, Loaded
<1>3. Absorbs(r, LivePrimaries) \in SUBSET SourceRows
  BY DEF Absorbs, SameKey
<1>4. KeyOf(r) \in Keys
  <2>1. srow[r].key \in Keys /\ Published \in Keys
    BY <1>2, SourceRowsAssumption DEF SourceTypeOK, SourceRow, SourceRowsAssumption
  <2> QED BY <2>1 DEF KeyOf
<1> QED BY <1>1, <1>2, <1>3, <1>4 DEF ProductRow

LEMMA ProductIsApart == ASSUME SourceTypeOK PROVE ApartBySource(Product)
<1> DEFINE alive == Surviving(LivePrimaries)
           RowOf(r) == [src |-> r, merged |-> Absorbs(r, LivePrimaries), key |-> KeyOf(r)]
           f == [r \in alive |-> RowOf(r)]
<1>1. alive \subseteq SourceRows
  BY DEF Surviving, Loaded
<1>2. IsFiniteSet(alive)
  BY <1>1, RowsAreNumbers, FS_Subset
<1>3. Product = {RowOf(r) : r \in alive}
  BY DEF Product, ProductOf
<1>4. IsFiniteSet(Product)
  <2>1. f \in Surjection(alive, Product)
    <3>1. f \in [alive -> Product]
      BY <1>3
    <3>2. \A p \in Product : \E r \in alive : f[r] = p
      BY <1>3
    <3> QED BY <3>1, <3>2 DEF Surjection
  <2> QED BY <1>2, <2>1, FS_Surjection
<1>5. ASSUME NEW p \in Product, NEW q \in Product, p.src = q.src PROVE p = q
  BY <1>3, <1>5
<1> QED BY <1>4, <1>5, ProductRowsAreTyped DEF ApartBySource

LEMMA InOrderIsOK == ASSUME SourceTypeOK PROVE ProductOK(InOrder)
<1> DEFINE R == {w \in Product \X Product : Precedes(w[1].src, w[2].src, LivePrimaries)}
           Place(p) == Cardinality({q \in Product : Precedes(q.src, p.src, LivePrimaries)})
           N == Cardinality(Product)
<1>1. IsFiniteSet(Product) /\ \A p, q \in Product : p.src = q.src => p = q
  BY ProductIsApart DEF ApartBySource
<1>2. \A p \in Product : p.src \in Nat
  BY ProductRowsAreTyped, RowsAreNumbers
<1>3. IsOrder(Product, R)
  <2> SUFFICES ASSUME NEW p \in Product, NEW q \in Product, NEW r \in Product
               PROVE  /\ <<p, p>> \in R
                      /\ <<p, q>> \in R \/ <<q, p>> \in R
                      /\ <<p, q>> \in R /\ <<q, p>> \in R => p = q
                      /\ <<p, q>> \in R /\ <<q, r>> \in R => <<p, r>> \in R
    BY DEF IsOrder
  <2>1. \A u, w \in Product : <<u, w>> \in R <=> Precedes(u.src, w.src, LivePrimaries)
    OBVIOUS
  <2> HIDE DEF R
  <2> QED BY <1>1, <1>2, <2>1, PrecedesIsAnOrder
<1>4. ASSUME NEW p \in Product PROVE Rank(Product, R, p) = Place(p)
  <2>1. {q \in Product : <<q, p>> \in R}
        = {q \in Product : Precedes(q.src, p.src, LivePrimaries)}
    OBVIOUS
  <2> HIDE DEF R
  <2> QED BY <2>1 DEF Rank
<1>5. N \in Nat /\ \A n \in 1 .. N : \E p \in Product : Place(p) = n
  <2> HIDE DEF R, Place
  <2> QED BY <1>1, <1>3, <1>4, RanksAreTaken
<1>6. InOrder = [n \in 1 .. N |-> CHOOSE p \in Product : Place(p) = n]
  BY DEF InOrder
<1> HIDE DEF Place, N
<1>7. \A n \in 1 .. N : InOrder[n] \in Product /\ Place(InOrder[n]) = n
  BY <1>5, <1>6
<1> DEFINE seq == InOrder
<1>8. DOMAIN seq = 1 .. N /\ seq = [n \in 1 .. N |-> seq[n]]
  BY <1>6
<1> HIDE DEF seq
<1>9. ToSet(seq) = {seq[n] : n \in 1 .. N}
  BY <1>8 DEF ToSet
<1>10. seq \in Seq(ToSet(seq))
  BY <1>5, <1>8, <1>9
<1>11. ToSet(seq) \subseteq Product
  BY <1>7, <1>9 DEF seq
<1>12. ApartBySource(ToSet(seq))
  BY <1>1, <1>11, ProductRowsAreTyped, FS_Subset DEF ApartBySource
<1>13. \A m, n \in DOMAIN seq : seq[m] = seq[n] => m = n
  BY <1>7, <1>8 DEF seq
<1>14. \A p \in ToSet(seq) : p \in ProductRow
  BY <1>11, ProductRowsAreTyped
<1>15. ProductOK(seq)
  BY <1>10, <1>12, <1>13, <1>14 DEF ProductOK
<1> QED BY <1>15 DEF seq

-----------------------------------------------------------------------------
(***************************************************************************)
(* The record a row takes.                                                 *)
(***************************************************************************)
RecordsOK ==
    /\ registry \in Seq(FloraRecord)
    /\ IdsAreUnique
    /\ \A i \in DOMAIN registry : registry[i].id[1] \in Claims(registry[i])

LEMMA RecordIsTyped ==
    ASSUME RecordsOK, NEW i \in DOMAIN registry
    PROVE  /\ i \in Nat \ {0} /\ i <= Len(registry)
           /\ registry[i] \in FloraRecord
           /\ Claims(registry[i]) \subseteq SourceRows
<1>1. i \in 1 .. Len(registry) /\ registry[i] \in FloraRecord
  BY DEF RecordsOK
<1>2. Claims(registry[i]) \subseteq SourceRows
  BY <1>1 DEF Claims, Current, FloraRecord
<1> QED BY <1>1, <1>2

-----------------------------------------------------------------------------
LEMMA OneOwner ==
    ASSUME RecordsOK, NEW r, NEW i \in RecordOf(r), NEW j \in RecordOf(r)
    PROVE  i = j
  BY DEF RecordsOK, IdsAreUnique, RecordOf

LEMMA PreferenceIsRanked ==
    ASSUME RecordsOK, NEW p \in ProductRow, NEW i \in DOMAIN registry,
           Claims(registry[i]) \cap ({p.src} \cup p.merged) # {}
    PROVE  \E n, m \in Nat : Preference(i, p) = <<n, m, i>>
<1> DEFINE claimed == Claims(registry[i]) \cap p.merged
           first == IF p.src \in Claims(registry[i]) THEN 0
                    ELSE CHOOSE m \in claimed : \A n \in claimed : m <= n
           second == IF registry[i].retired THEN 1 ELSE 0
<1>1. Preference(i, p) = <<first, second, i>>
  BY DEF Preference
<1>2. first \in Nat
  <2>1. CASE p.src \in Claims(registry[i])
    BY <2>1
  <2>2. CASE p.src \notin Claims(registry[i])
    <3>1. claimed # {} /\ claimed \subseteq Nat
      BY <2>2, RecordIsTyped, RowsAreNumbers
    <3> HIDE DEF claimed
    <3>2. \E m \in claimed : \A n \in claimed : m <= n
      BY <3>1, SmallestMember
    <3> QED BY <2>2, <3>1, <3>2
  <2> QED BY <2>1, <2>2
<1>3. second \in Nat
  OBVIOUS
<1> HIDE DEF first, second
<1> QED BY <1>1, <1>2, <1>3

Claimants(p, free) ==
    {i \in free : Claims(registry[i]) \cap ({p.src} \cup p.merged) # {}}

\* A row has one record at most to take: its own, or a free one if any claims its rows.
LEMMA MatchIsOne ==
    ASSUME RecordsOK, NEW p \in ProductRow, NEW free \in SUBSET (DOMAIN registry)
    PROVE  /\ Match(p, free) \subseteq DOMAIN registry
           /\ \A i, j \in Match(p, free) : i = j
           /\ RecordOf(p.src) # {} => Match(p, free) = RecordOf(p.src)
           /\ RecordOf(p.src) = {} => Match(p, free) \subseteq free
           /\ Match(p, free) = {} => Claimants(p, free) = {}
<1> DEFINE C == Claimants(p, free)
           Best(i) == \A j \in C : Better(Preference(i, p), Preference(j, p))
<1>1. Match(p, free) = IF RecordOf(p.src) # {} THEN RecordOf(p.src) ELSE {i \in C : Best(i)}
  BY DEF Match, Claimants
<1>2. RecordOf(p.src) \subseteq DOMAIN registry
  BY DEF RecordOf
<1>3. C \subseteq free
  BY DEF Claimants
<1>4. \A i \in C : /\ i \in Nat
                   /\ \E n, m \in Nat : Preference(i, p) = <<n, m, i>>
  <2> SUFFICES ASSUME NEW i \in C
               PROVE  i \in Nat /\ \E n, m \in Nat : Preference(i, p) = <<n, m, i>>
    OBVIOUS
  <2>1. i \in DOMAIN registry /\ Claims(registry[i]) \cap ({p.src} \cup p.merged) # {}
    BY <1>3 DEF Claimants
  <2> QED BY <2>1, PreferenceIsRanked, RecordIsTyped
<1>5. ASSUME NEW i \in C, NEW j \in C, Best(i), Best(j) PROVE i = j
  <2> HIDE DEF C
  <2>1. Better(Preference(i, p), Preference(j, p)) /\ Better(Preference(j, p), Preference(i, p))
    BY <1>5
  <2>2. PICK n, m \in Nat : Preference(i, p) = <<n, m, i>>
    BY <1>4
  <2>3. PICK k, l \in Nat : Preference(j, p) = <<k, l, j>>
    BY <1>4
  <2>4. i \in Nat /\ j \in Nat
    BY <1>4
  <2> QED BY <2>1, <2>2, <2>3, <2>4 DEF Better
<1>6. C # {} => \E i \in C : Best(i)
  <2> HIDE DEF C
  <2> SUFFICES ASSUME C # {} PROVE \E i \in C : Best(i)
    OBVIOUS
  <2> DEFINE a == [i \in C |-> Preference(i, p)[1]]
             b == [i \in C |-> Preference(i, p)[2]]
             c == [i \in C |-> Preference(i, p)[3]]
  <2>1. \A i \in C : /\ a[i] = Preference(i, p)[1]
                     /\ b[i] = Preference(i, p)[2]
                     /\ c[i] = Preference(i, p)[3]
    OBVIOUS
  <2>2. \A i \in C : a[i] \in Nat /\ b[i] \in Nat /\ c[i] = i /\ c[i] \in Nat
    BY <1>4, <2>1
  <2> HIDE DEF a, b, c
  <2>3. \A i, j \in C : c[i] = c[j] => i = j
    BY <2>2
  <2>4. PICK i \in C : \A j \in C : \/ a[i] < a[j]
                                    \/ a[i] = a[j] /\ b[i] < b[j]
                                    \/ a[i] = a[j] /\ b[i] = b[j] /\ c[i] <= c[j]
    BY <2>2, <2>3, OneIsBest
  <2>5. Best(i)
    BY <2>1, <2>4 DEF Better
  <2> QED BY <2>5
<1>7. CASE RecordOf(p.src) # {}
  <2>1. Match(p, free) = RecordOf(p.src)
    BY <1>1, <1>7
  <2> QED BY <1>2, <1>7, <2>1, OneOwner
<1>8. CASE RecordOf(p.src) = {}
  <2> HIDE DEF C, Best
  <2>1. Match(p, free) = {i \in C : Best(i)}
    BY <1>1, <1>8
  <2> QED BY <1>3, <1>5, <1>6, <1>8, <2>1 DEF C
<1> QED BY <1>7, <1>8

-----------------------------------------------------------------------------
(***************************************************************************)
(* The rows taken in order.                                                *)
(***************************************************************************)
LEMMA MatchesStepByStep ==
    ASSUME NEW product, Len(product) \in Nat
    PROVE  \E t : /\ t[0] = <<>>
                  /\ \A n \in 1 .. Len(product) : t[n] = Take(t[n - 1], product[n], product)
                  /\ Matches(product) = t[Len(product)]
<1> DEFINE K == Len(product)
           Taking(q, n) == Take(q, product[n], product)
           TakesUpTo(f, k) == f = [n \in 0 .. k |-> IF n = 0 THEN <<>> ELSE Taking(f[n - 1], n)]
           good == {k \in 0 .. K : \E f : TakesUpTo(f, k)}
           t == CHOOSE f : f = [n \in 0 .. K |->
                                  IF n = 0 THEN <<>> ELSE Take(f[n - 1], product[n], product)]
<1>1. Matches(product) = t[K]
  BY DEF Matches
<1>2. 0 \in good
  <2> DEFINE f == [n \in 0 .. 0 |-> <<>>]
  <2>1. TakesUpTo(f, 0)
    OBVIOUS
  <2> HIDE DEF f
  <2>2. \E h : TakesUpTo(h, 0)
    BY <2>1
  <2> QED BY <2>2
<1>3. ASSUME NEW k \in 0 .. K - 1, k \in good PROVE k + 1 \in good
  <2>1. PICK f : TakesUpTo(f, k)
    BY <1>3
  <2> DEFINE g == [n \in 0 .. k + 1 |-> IF n = k + 1 THEN Taking(f[k], n) ELSE f[n]]
  <2> HIDE DEF Taking
  <2>2. ASSUME NEW n \in 0 .. k + 1
        PROVE  g[n] = IF n = 0 THEN <<>> ELSE Taking(g[n - 1], n)
    <3>1. CASE n = k + 1
      BY <3>1
    <3>2. CASE n # k + 1
      <4>1. n \in 0 .. k /\ g[n] = f[n] /\ (n # 0 => g[n - 1] = f[n - 1])
        BY <3>2
      <4> QED BY <2>1, <4>1
    <3> QED BY <3>1, <3>2
  <2>3. TakesUpTo(g, k + 1)
    BY <2>2
  <2> HIDE DEF g
  <2>4. \E h : TakesUpTo(h, k + 1)
    BY <2>3
  <2>5. k + 1 \in 0 .. K
    OBVIOUS
  <2> QED BY <2>4, <2>5
<1>4. K \in good
  <2> HIDE DEF good
  <2>1. 0 .. K \subseteq good
    BY <1>2, <1>3, StepByStep
  <2> QED BY <2>1
<1>5. PICK f : TakesUpTo(f, K)
  BY <1>4
<1>6. t = [n \in 0 .. K |-> IF n = 0 THEN <<>> ELSE Take(t[n - 1], product[n], product)]
  BY <1>5
<1> HIDE DEF t
<1>7. /\ t[0] = <<>>
      /\ \A n \in 1 .. K : t[n] = Take(t[n - 1], product[n], product)
  BY <1>6
<1> QED BY <1>1, <1>7

-----------------------------------------------------------------------------
\* What is settled when the first n rows of the product have taken their records.
TakenWell(t, n, product) ==
    /\ DOMAIN t \subseteq DOMAIN registry
    /\ t = [i \in DOMAIN t |-> t[i]]
    /\ \A i \in DOMAIN t : \E m \in 1 .. n : t[i] = product[m]
    /\ \A i, j \in DOMAIN t : t[i] = t[j] => i = j
    /\ \A i \in DOMAIN t : i \in Reserved(product) => t[i].src = registry[i].primary
    /\ \A m \in 1 .. n : RecordOf(product[m].src) \subseteq DOMAIN t
    /\ \A m \in 1 .. n : \/ \E i \in DOMAIN t : t[i] = product[m]
                         \/ Claimants(product[m], DOMAIN registry)
                                \subseteq DOMAIN t \cup Reserved(product)

LEMMA TakeKeeps ==
    ASSUME RecordsOK, NEW product, ProductOK(product), NEW n \in 1 .. Len(product),
           NEW t, TakenWell(t, n - 1, product)
    PROVE  TakenWell(Take(t, product[n], product), n, product)
<1> DEFINE p == product[n]
           free == (DOMAIN registry \ Reserved(product)) \ DOMAIN t
           found == Match(p, free)
           u == Take(t, p, product)
<1>1. /\ DOMAIN product = 1 .. Len(product) /\ Len(product) \in Nat
      /\ \A m \in 1 .. Len(product) : product[m] \in ToSet(product)
  BY DEF ProductOK, ToSet
<1>2. p \in ProductRow /\ p \in ToSet(product)
  BY <1>1 DEF ProductOK
<1>3. \A m \in 1 .. n - 1 : product[m] # p /\ product[m].src # p.src
  BY <1>1, <1>2 DEF ProductOK, ApartBySource
<1>4. u = [i \in DOMAIN t \cup found |-> IF i \in found THEN p ELSE t[i]]
  BY DEF Take
<1>5. /\ found \subseteq DOMAIN registry
      /\ \A i, j \in found : i = j
      /\ RecordOf(p.src) # {} => found = RecordOf(p.src)
      /\ RecordOf(p.src) = {} => found \subseteq free
      /\ found = {} => Claimants(p, free) = {}
  <2>1. free \in SUBSET (DOMAIN registry)
    OBVIOUS
  <2> HIDE DEF free, p
  <2> QED BY <1>2, <2>1, MatchIsOne
<1>6. /\ DOMAIN t \subseteq DOMAIN registry
      /\ \A i \in DOMAIN t : \E m \in 1 .. n - 1 : t[i] = product[m]
      /\ \A i, j \in DOMAIN t : t[i] = t[j] => i = j
      /\ \A i \in DOMAIN t : i \in Reserved(product) => t[i].src = registry[i].primary
      /\ \A m \in 1 .. n - 1 : RecordOf(product[m].src) \subseteq DOMAIN t
      /\ \A m \in 1 .. n - 1 : \/ \E i \in DOMAIN t : t[i] = product[m]
                               \/ Claimants(product[m], DOMAIN registry)
                                    \subseteq DOMAIN t \cup Reserved(product)
  BY DEF TakenWell
<1>7. \A i \in RecordOf(p.src) : i \in Reserved(product) /\ registry[i].primary = p.src
  BY <1>2 DEF Reserved, RecordOf
<1>8. found \cap DOMAIN t = {}
  <2>1. CASE RecordOf(p.src) = {}
    BY <1>5, <2>1
  <2>2. CASE RecordOf(p.src) # {}
    <3> SUFFICES ASSUME NEW i \in RecordOf(p.src), i \in DOMAIN t PROVE FALSE
      BY <1>5, <2>2
    <3>1. t[i].src = p.src
      BY <1>6, <1>7
    <3> QED BY <1>3, <1>6, <3>1
  <2> QED BY <2>1, <2>2
<1> HIDE DEF u, found, p
<1>9. \A i \in found : i \in Reserved(product) => p.src = registry[i].primary
  <2>1. \A i \in free : i \notin Reserved(product)
    OBVIOUS
  <2> HIDE DEF free
  <2> QED BY <1>5, <1>7, <2>1
<1> HIDE DEF free
<1>10. /\ DOMAIN u = DOMAIN t \cup found /\ u = [i \in DOMAIN u |-> u[i]]
       /\ \A i \in found : u[i] = p
       /\ \A i \in DOMAIN t : u[i] = t[i]
  BY <1>4, <1>8
<1>11. DOMAIN u \subseteq DOMAIN registry
  BY <1>5, <1>6, <1>10
<1>12. \A i \in DOMAIN u : \E m \in 1 .. n : u[i] = product[m]
  <2> SUFFICES ASSUME NEW i \in DOMAIN u PROVE \E m \in 1 .. n : u[i] = product[m]
    OBVIOUS
  <2>1. CASE i \in found
    BY <1>1, <1>10, <2>1 DEF p
  <2>2. CASE i \in DOMAIN t
    <3>1. PICK m \in 1 .. n - 1 : t[i] = product[m]
      BY <1>6, <2>2
    <3> QED BY <1>1, <1>10, <2>2, <3>1
  <2> QED BY <1>10, <2>1, <2>2
<1>13. \A i \in DOMAIN t : t[i] # p
  BY <1>3, <1>6
<1>14. \A i, j \in DOMAIN u : u[i] = u[j] => i = j
  BY <1>5, <1>6, <1>10, <1>13
<1>15. \A i \in DOMAIN u : i \in Reserved(product) => u[i].src = registry[i].primary
  BY <1>6, <1>9, <1>10
<1>16. \A m \in 1 .. n : m \in 1 .. n - 1 \/ product[m] = p
  BY DEF p
<1>17. \A m \in 1 .. n : RecordOf(product[m].src) \subseteq DOMAIN u
  BY <1>5, <1>6, <1>10, <1>16
<1>18. \/ \E i \in DOMAIN u : u[i] = p
       \/ Claimants(p, DOMAIN registry) \subseteq DOMAIN u \cup Reserved(product)
  <2>1. CASE found # {}
    BY <1>10, <2>1
  <2>2. CASE found = {}
    <3>1. Claimants(p, free) = {}
      BY <1>5, <2>2
    <3>2. \A i \in DOMAIN registry : i \in free \/ i \in DOMAIN t \/ i \in Reserved(product)
      BY DEF free
    <3> QED BY <1>10, <3>1, <3>2 DEF Claimants
  <2> QED BY <2>1, <2>2
<1>19. \A m \in 1 .. n : \/ \E i \in DOMAIN u : u[i] = product[m]
                         \/ Claimants(product[m], DOMAIN registry)
                                \subseteq DOMAIN u \cup Reserved(product)
  <2> SUFFICES ASSUME NEW m \in 1 .. n
               PROVE  \/ \E i \in DOMAIN u : u[i] = product[m]
                      \/ Claimants(product[m], DOMAIN registry)
                                \subseteq DOMAIN u \cup Reserved(product)
    OBVIOUS
  <2>1. CASE product[m] = p
    BY <1>18, <2>1
  <2>2. CASE m \in 1 .. n - 1
    <3>1. CASE \E i \in DOMAIN t : t[i] = product[m]
      BY <1>10, <3>1
    <3>2. CASE Claimants(product[m], DOMAIN registry) \subseteq DOMAIN t \cup Reserved(product)
      BY <1>10, <3>2
    <3> QED BY <1>6, <2>2, <3>1, <3>2
  <2> QED BY <1>16, <2>1, <2>2
<1>20. TakenWell(u, n, product)
  BY <1>10, <1>11, <1>12, <1>14, <1>15, <1>17, <1>19 DEF TakenWell
<1> QED BY <1>20 DEF u, p

\* The records the rows take: one each, its own where a row has one; and whoever claims
\* the rows of one that takes none has been taken.
LEMMA MatchesAreTaken ==
    ASSUME RecordsOK, NEW product, ProductOK(product)
    PROVE  LET taken == Matches(product)
           IN  /\ DOMAIN taken \subseteq DOMAIN registry
               /\ \A i \in DOMAIN taken : taken[i] \in ToSet(product)
               /\ \A i, j \in DOMAIN taken : taken[i] = taken[j] => i = j
               /\ \A p \in ToSet(product) : \A i \in RecordOf(p.src) :
                      i \in DOMAIN taken /\ taken[i] = p
               /\ \A p \in Fresh(product) :
                      Claimants(p, DOMAIN registry) \subseteq DOMAIN taken
<1> DEFINE K == Len(product)
           taken == Matches(product)
<1>1. /\ DOMAIN product = 1 .. K /\ K \in Nat
      /\ ToSet(product) = {product[m] : m \in 1 .. K}
  BY DEF ProductOK, ToSet
<1>2. PICK t : /\ t[0] = <<>>
               /\ \A n \in 1 .. K : t[n] = Take(t[n - 1], product[n], product)
               /\ Matches(product) = t[K]
  BY <1>1, MatchesStepByStep
<1> DEFINE good == {n \in 0 .. K : TakenWell(t[n], n, product)}
<1>3. 0 \in good
  <2>1. DOMAIN t[0] = {} /\ t[0] = [i \in {} |-> t[0][i]]
    BY <1>2
  <2>2. \A m \in 1 .. 0 : FALSE
    OBVIOUS
  <2>3. TakenWell(t[0], 0, product)
    BY <2>1, <2>2 DEF TakenWell
  <2> QED BY <1>1, <2>3
<1>4. ASSUME NEW n \in 0 .. K - 1, n \in good PROVE n + 1 \in good
  <2>1. n + 1 \in 1 .. K /\ n + 1 \in 0 .. K /\ (n + 1) - 1 = n
    BY <1>1
  <2>2. TakenWell(t[n], n, product) /\ t[n + 1] = Take(t[n], product[n + 1], product)
    BY <1>2, <1>4, <2>1
  <2>3. TakenWell(t[n + 1], n + 1, product)
    BY <2>1, <2>2, TakeKeeps
  <2> QED BY <2>1, <2>3
<1>5. TakenWell(taken, K, product)
  <2> HIDE DEF good
  <2>1. 0 .. K \subseteq good
    BY <1>1, <1>3, <1>4, StepByStep
  <2>2. K \in good
    BY <1>1, <2>1
  <2> QED BY <1>2, <2>2 DEF good
<1> HIDE DEF taken, K
<1>6. /\ DOMAIN taken \subseteq DOMAIN registry
      /\ \A i \in DOMAIN taken : taken[i] \in ToSet(product)
      /\ \A i, j \in DOMAIN taken : taken[i] = taken[j] => i = j
  BY <1>1, <1>5 DEF TakenWell
<1>7. ASSUME NEW p \in ToSet(product), NEW i \in RecordOf(p.src)
      PROVE  i \in DOMAIN taken /\ taken[i] = p
  <2>1. i \in DOMAIN taken
    BY <1>1, <1>5 DEF TakenWell
  <2>2. i \in Reserved(product) /\ registry[i].primary = p.src
    BY DEF Reserved, RecordOf
  <2>3. taken[i].src = p.src
    BY <1>5, <2>1, <2>2 DEF TakenWell
  <2> QED BY <1>6, <2>1, <2>3 DEF ProductOK, ApartBySource
<1>8. Reserved(product) \subseteq DOMAIN taken
  BY <1>7 DEF Reserved
<1>9. ASSUME NEW p \in Fresh(product)
      PROVE  Claimants(p, DOMAIN registry) \subseteq DOMAIN taken
  <2>1. p \in ToSet(product) /\ \A i \in DOMAIN taken : taken[i] # p
    BY DEF Fresh, taken
  <2>2. PICK m \in 1 .. K : p = product[m]
    BY <1>1, <2>1
  <2>3. Claimants(p, DOMAIN registry) \subseteq DOMAIN taken \cup Reserved(product)
    BY <1>5, <2>1, <2>2 DEF TakenWell
  <2> QED BY <1>8, <2>3
<1>10. /\ DOMAIN taken \subseteq DOMAIN registry
       /\ \A i \in DOMAIN taken : taken[i] \in ToSet(product)
       /\ \A i, j \in DOMAIN taken : taken[i] = taken[j] => i = j
       /\ \A p \in ToSet(product) : \A i \in RecordOf(p.src) :
              i \in DOMAIN taken /\ taken[i] = p
       /\ \A p \in Fresh(product) : Claimants(p, DOMAIN registry) \subseteq DOMAIN taken
  BY <1>6, <1>7, <1>9
<1> QED BY <1>10 DEF taken

-----------------------------------------------------------------------------
LEMMA FreshIsApart ==
    ASSUME NEW product, ProductOK(product)
    PROVE  /\ Fresh(product) \subseteq ToSet(product)
           /\ ApartBySource(Fresh(product))
           /\ \A p \in Fresh(product) : p \in ProductRow
<1>1. Fresh(product) \subseteq ToSet(product)
  BY DEF Fresh
<1>2. ApartBySource(ToSet(product)) /\ \A p \in ToSet(product) : p \in ProductRow
  BY DEF ProductOK
<1> QED BY <1>1, <1>2, FS_Subset DEF ApartBySource

\* The new records come in the order of the rows that get them.
LEMMA NthRowsAre ==
    ASSUME NEW fresh, ApartBySource(fresh)
    PROVE  /\ Cardinality(fresh) \in Nat
           /\ \A n \in 1 .. Cardinality(fresh) : NthRow(n, fresh) \in fresh
           /\ \A m, n \in 1 .. Cardinality(fresh) :
                  NthRow(m, fresh) = NthRow(n, fresh) => m = n
<1> DEFINE R == {w \in fresh \X fresh : w[1].src <= w[2].src}
           Place(p) == Cardinality({q \in fresh : q.src <= p.src})
           N == Cardinality(fresh)
<1>1. \A p \in fresh : p.src \in Nat
  BY RowsAreNumbers DEF ApartBySource
<1>2. IsOrder(fresh, R)
  <2>1. \A p, q \in fresh : <<p, q>> \in R <=> p.src <= q.src
    OBVIOUS
  <2>2. \A p, q \in fresh : p.src = q.src => p = q
    BY DEF ApartBySource
  <2> HIDE DEF R
  <2> SUFFICES ASSUME NEW p \in fresh, NEW q \in fresh, NEW r \in fresh
               PROVE  /\ <<p, p>> \in R
                      /\ <<p, q>> \in R \/ <<q, p>> \in R
                      /\ <<p, q>> \in R /\ <<q, p>> \in R => p = q
                      /\ <<p, q>> \in R /\ <<q, r>> \in R => <<p, r>> \in R
    BY DEF IsOrder
  <2>3. p.src \in Nat /\ q.src \in Nat /\ r.src \in Nat
    BY <1>1
  <2>4. /\ <<p, p>> \in R <=> p.src <= p.src
        /\ <<p, q>> \in R <=> p.src <= q.src
        /\ <<q, p>> \in R <=> q.src <= p.src
        /\ <<q, r>> \in R <=> q.src <= r.src
        /\ <<p, r>> \in R <=> p.src <= r.src
    BY <2>1
  <2> QED BY <2>2, <2>3, <2>4
<1>3. ASSUME NEW p \in fresh PROVE Rank(fresh, R, p) = Place(p)
  <2>1. {q \in fresh : <<q, p>> \in R} = {q \in fresh : q.src <= p.src}
    OBVIOUS
  <2> HIDE DEF R
  <2> QED BY <2>1 DEF Rank
<1>4. N \in Nat /\ \A n \in 1 .. N : \E p \in fresh : Place(p) = n
  <2>1. IsFiniteSet(fresh)
    BY DEF ApartBySource
  <2> HIDE DEF R, Place
  <2> QED BY <1>2, <1>3, <2>1, RanksAreTaken
<1>5. ASSUME NEW n \in 1 .. N
      PROVE  NthRow(n, fresh) \in fresh /\ Place(NthRow(n, fresh)) = n
  <2>1. NthRow(n, fresh) = CHOOSE p \in fresh : Place(p) = n
    BY DEF NthRow
  <2> HIDE DEF Place, N
  <2> QED BY <1>4, <2>1
<1> HIDE DEF Place
<1> QED BY <1>4, <1>5

\* A row without a record gets an id that nobody has: those that have its display id
\* claim it, so they have taken other rows, and fewer rows than there are.
LEMMA MintedIsFree ==
    ASSUME RecordsOK, NEW product, ProductOK(product), NEW p \in Fresh(product)
    PROVE  /\ \E n \in 1 .. Cardinality(SourceRows) : Minted(p.src) = <<p.src, n>>
           /\ \A i \in DOMAIN registry : registry[i].id # Minted(p.src)
<1> DEFINE r == p.src
           taken == Matches(product)
           mine == {i \in DOMAIN registry : registry[i].id[1] = r}
           numbers == {registry[i].id[2] : i \in mine}
           others == SourceRows \ {r}
           N == Cardinality(SourceRows)
           f == [i \in mine |-> taken[i].src]
           g == [i \in mine |-> registry[i].id[2]]
<1>1. /\ DOMAIN taken \subseteq DOMAIN registry
      /\ \A i \in DOMAIN taken : taken[i] \in ToSet(product)
      /\ \A i, j \in DOMAIN taken : taken[i] = taken[j] => i = j
      /\ Claimants(p, DOMAIN registry) \subseteq DOMAIN taken
      /\ \A i \in DOMAIN taken : taken[i] # p
  BY MatchesAreTaken DEF Fresh
<1>2. /\ p \in ToSet(product)
      /\ \A q \in ToSet(product) : q.src \in SourceRows
      /\ \A q, s \in ToSet(product) : q.src = s.src => q = s
  BY DEF Fresh, ProductOK, ApartBySource
<1>3. IsFiniteSet(SourceRows) /\ N \in Nat
  BY RowsAreNumbers
<1>4. IsFiniteSet(others) /\ Cardinality(others) = N - 1 /\ Cardinality(others) \in Nat
  BY <1>2, <1>3, FS_RemoveElement, FS_CardinalityType
<1>5. mine \subseteq DOMAIN taken
  BY <1>1 DEF RecordsOK, Claimants
<1>6. f \in Injection(mine, others)
  <2> HIDE DEF mine, taken
  <2>1. f \in [mine -> others]
    <3>1. \A i \in mine : taken[i].src \in others
      BY <1>1, <1>2, <1>5
    <3> QED BY <3>1
  <2>2. \A i, j \in mine : f[i] = f[j] => i = j
    BY <1>1, <1>2, <1>5
  <2> QED BY <2>1, <2>2 DEF Injection, IsInjective
<1>7. IsFiniteSet(mine) /\ Cardinality(mine) <= N - 1
  <2> HIDE DEF f, mine, others
  <2> QED BY <1>4, <1>6, FS_Injection
<1>8. g \in Surjection(mine, numbers)
  <2> HIDE DEF mine
  <2> QED BY DEF Surjection
<1>9. IsFiniteSet(numbers) /\ Cardinality(numbers) <= Cardinality(mine)
  <2> HIDE DEF g, mine, numbers
  <2> QED BY <1>7, <1>8, FS_Surjection
<1>10. Cardinality(mine) <= Len(registry) /\ Len(registry) \in Nat
  <2>1. mine \subseteq 1 .. Len(registry) /\ Len(registry) \in Nat
    BY DEF RecordsOK
  <2>2. IsFiniteSet(1 .. Len(registry)) /\ Cardinality(1 .. Len(registry)) = Len(registry)
    <3>1. 1 \in Int /\ Len(registry) \in Int
      BY <2>1
    <3>2. /\ IsFiniteSet(1 .. Len(registry))
          /\ Cardinality(1 .. Len(registry))
                = IF 1 > Len(registry) THEN 0 ELSE Len(registry) - 1 + 1
      BY <3>1, FS_Interval
    <3> QED BY <2>1, <3>2
  <2> HIDE DEF mine
  <2> QED BY <2>1, <2>2, FS_Subset
<1>11. Cardinality(mine) \in Nat /\ Cardinality(numbers) \in Nat
  BY <1>7, <1>9, FS_CardinalityType
<1> DEFINE Unused(n) == n \notin numbers /\ 1 .. n - 1 \subseteq numbers
           first == CHOOSE n \in 1 .. Len(registry) + 1 : Unused(n)
<1>12. Minted(r) = <<r, first>>
  BY DEF Minted
<1>13. first \in 1 .. Len(registry) + 1 /\ Unused(first)
  <2> HIDE DEF numbers, mine
  <2>1. Cardinality(numbers) <= Len(registry)
    BY <1>9, <1>10, <1>11
  <2>2. \E n \in 1 .. Len(registry) + 1 : Unused(n)
    BY <1>9, <1>10, <2>1, FirstLeftOut
  <2> HIDE DEF Unused
  <2> QED BY <2>2
<1>14. first \in 1 .. N
  <2> HIDE DEF numbers, mine, first
  <2>1. N - 1 \in Nat /\ Cardinality(numbers) <= N - 1
    BY <1>4, <1>7, <1>9, <1>11
  <2>2. first \in Nat /\ first >= 1
    BY <1>10, <1>13
  <2>3. first <= N - 1 + 1
    BY <1>9, <1>13, <2>1, <2>2, FirstLeftOut
  <2> QED BY <1>3, <2>2, <2>3
<1>15. ASSUME NEW i \in DOMAIN registry PROVE registry[i].id # Minted(r)
  <2> SUFFICES ASSUME registry[i].id = Minted(r) PROVE FALSE
    OBVIOUS
  <2> HIDE DEF first
  <2>1. i \in mine /\ registry[i].id[2] = first
    BY <1>12
  <2>2. first \in numbers
    BY <2>1
  <2> QED BY <1>13, <2>2
<1> HIDE DEF first
<1> QED BY <1>12, <1>14, <1>15

-----------------------------------------------------------------------------
Live(v) == srow[v].state = "live"

\* One validated row is live; and while a sync is between its sweep and its commit, one
\* at most of those that feed FLoRA is spared.
OneRowInv ==
    /\ SourceTypeOK
    /\ \A u, v \in ValidatedRows : Live(u) /\ Live(v) => u = v
    /\ syncing.phase = "retired" => \A u, v \in Feeding \ syncing.gone : u = v

LEMMA ValidatedAreRows ==
    /\ ValidatedRows \subseteq SourceRows /\ HandRows \subseteq SourceRows
    /\ SheetRows \subseteq SourceRows /\ 0 \notin SourceRows
    /\ \A v \in ValidatedRows : v \notin SheetRows /\ v \notin HandRows
    /\ Published \in Keys /\ Preprint \in Keys
  BY SourceRowsAssumption DEF SourceRowsAssumption, SourceRows

LEMMA FedIsLive ==
    ASSUME NEW u
    PROVE  u \in Feeding <=> \/ u \in ValidatedRows /\ Live(u)
                             \/ u = syncing.current /\ u # 0
  BY DEF Feeding, Live

\* A step that makes no validated row live and leaves the sync alone keeps both.
LEMMA NoRowComesAlive ==
    ASSUME OneRowInv, SourceTypeOK', UNCHANGED syncing,
           \A v \in ValidatedRows : Live(v)' => Live(v)
    PROVE  OneRowInv'
<1>1. \A u, v \in ValidatedRows : Live(u)' /\ Live(v)' => u = v
  BY DEF OneRowInv
<1>2. \A u : u \in Feeding' => u \in Feeding
  BY FedIsLive DEF Feeding, Live
<1>3. syncing'.phase = "retired" => \A u, v \in Feeding' \ syncing'.gone : u = v
  BY <1>2 DEF OneRowInv
<1> QED BY <1>1, <1>3 DEF OneRowInv

LEMMA SourceInitially == SourceInit => OneRowInv
<1> SUFFICES ASSUME SourceInit PROVE OneRowInv
  OBVIOUS
<1> USE ValidatedAreRows
<1>1. srow \in [SourceRows -> SourceRow] /\ \A r \in SourceRows : srow[r].state = "absent"
  BY DEF SourceInit, SourceRow
<1>2. SourceTypeOK
  <2>1. MaxMoves \in Nat
    BY SourceRowsAssumption DEF SourceRowsAssumption
  <2>2. validated \in [current : ValidatedRows \cup {0}, key : Keys, used : SUBSET ValidatedRows]
    BY DEF SourceInit
  <2>3. syncing \in [phase : {"idle", "fetched", "retired"}, current : ValidatedRows \cup {0},
                     key : Keys, gone : SUBSET ValidatedRows]
    BY DEF SourceInit, NotSyncing
  <2>4. verdict \in [Admins -> Verdicts]
    BY DEF SourceInit, Verdicts
  <2>5. moves \in 0 .. MaxMoves
    BY <2>1 DEF SourceInit
  <2>6. paired \in BOOLEAN /\ excluded \in SUBSET Keys
    BY DEF SourceInit
  <2> QED BY <1>1, <2>2, <2>3, <2>4, <2>5, <2>6 DEF SourceTypeOK
<1>3. \A v \in ValidatedRows : ~Live(v)
  BY <1>1 DEF Live
<1>4. syncing.phase # "retired"
  BY DEF SourceInit, NotSyncing
<1> QED BY <1>2, <1>3, <1>4 DEF OneRowInv

LEMMA MovesAreCounted == ASSUME SourceTypeOK, Move PROVE moves' \in 0 .. MaxMoves
<1>1. MaxMoves \in Nat
  BY SourceRowsAssumption DEF SourceRowsAssumption
<1> QED BY <1>1 DEF SourceTypeOK, Move

\* A write to one row leaves the others.
LEMMA RowIsWritten ==
    ASSUME srow \in [SourceRows -> SourceRow], NEW r \in SourceRows, NEW row \in SourceRow
    PROVE  /\ [srow EXCEPT ![r] = row] \in [SourceRows -> SourceRow]
           /\ \A s \in SourceRows : s # r => [srow EXCEPT ![r] = row][s] = srow[s]
           /\ [srow EXCEPT ![r] = row][r] = row
  OBVIOUS

LEMMA SheetKeeps ==
    ASSUME OneRowInv, NEW r \in SheetRows, NEW k \in Keys, SyncSheet(r, k)
    PROVE  OneRowInv'
<1> USE ValidatedAreRows
<1> DEFINE row == [srow[r] EXCEPT !.state = "live", !.key = k]
<1>1. SourceTypeOK /\ srow \in [SourceRows -> SourceRow] /\ r \in SourceRows
  BY DEF OneRowInv, SourceTypeOK
<1>2. row \in SourceRow
  <2>1. srow[r] \in SourceRow
    BY <1>1
  <2> QED BY <2>1 DEF SourceRow
<1>3. /\ srow' = [srow EXCEPT ![r] = row]
      /\ UNCHANGED <<validated, syncing, verdict, paired, excluded, moves>>
  <2>1. srow' = [srow EXCEPT ![r].state = "live", ![r].key = k]
    BY DEF SyncSheet
  <2>2. /\ srow'[r] = row /\ srow' = [s \in SourceRows |-> srow'[s]]
        /\ \A s \in SourceRows : s # r => srow'[s] = srow[s]
    BY <1>1, <2>1
  <2>3. srow' = [srow EXCEPT ![r] = row]
    BY <1>1, <2>2
  <2> QED BY <2>3 DEF SyncSheet
<1> HIDE DEF row
<1>4. SourceTypeOK'
  BY <1>1, <1>2, <1>3, RowIsWritten DEF SourceTypeOK
<1>5. \A v \in ValidatedRows : Live(v)' => Live(v)
  BY <1>1, <1>3 DEF Live
<1> QED BY <1>3, <1>4, <1>5, NoRowComesAlive

LEMMA PublishKeepsRows ==
    ASSUME OneRowInv, NEW v \in ValidatedRows, NEW k \in Keys, PublishValidated(v, k)
    PROVE  OneRowInv'
<1>1. SourceTypeOK'
  BY DEF OneRowInv, SourceTypeOK, PublishValidated
<1> QED BY <1>1, NoRowComesAlive DEF PublishValidated, Live

LEMMA UnpublishKeeps == ASSUME OneRowInv, Unpublish PROVE OneRowInv'
<1> USE ValidatedAreRows
<1> DEFINE c == validated.current
           row == [srow[c] EXCEPT !.state = "deleted"]
<1>1. /\ SourceTypeOK /\ srow \in [SourceRows -> SourceRow]
      /\ c \in ValidatedRows /\ c \in SourceRows
  BY DEF OneRowInv, SourceTypeOK, Unpublish
<1>2. row \in SourceRow
  <2>1. srow[c] \in SourceRow
    BY <1>1
  <2> QED BY <2>1 DEF SourceRow
<1>3. srow' = srow \/ srow' = [srow EXCEPT ![c] = row]
  BY DEF Unpublish
<1>4. /\ validated' \in [current : ValidatedRows \cup {0}, key : Keys,
                         used : SUBSET ValidatedRows]
      /\ UNCHANGED <<syncing, verdict, paired, excluded, moves>>
  BY <1>1 DEF Unpublish, SourceTypeOK
<1>5. row.state = "deleted"
  BY <1>1 DEF SourceRow
<1> HIDE DEF row, c
<1>6. SourceTypeOK'
  BY <1>1, <1>2, <1>3, <1>4, RowIsWritten DEF SourceTypeOK
<1>7. \A v \in ValidatedRows : Live(v)' => Live(v)
  BY <1>1, <1>2, <1>3, <1>5, RowIsWritten DEF Live
<1> QED BY <1>4, <1>6, <1>7, NoRowComesAlive

LEMMA FetchKeeps == ASSUME OneRowInv, SyncFetch PROVE OneRowInv'
<1>1. syncing' = [syncing EXCEPT !.phase = "fetched", !.current = validated.current,
                                 !.key = validated.key]
      /\ UNCHANGED <<srow, validated, verdict, paired, excluded, moves>>
  BY DEF SyncFetch
<1>2. SourceTypeOK' /\ syncing'.phase = "fetched"
  BY <1>1 DEF OneRowInv, SourceTypeOK
<1>3. \A u, v \in ValidatedRows : Live(u)' /\ Live(v)' => u = v
  BY <1>1 DEF OneRowInv, Live
<1> QED BY <1>2, <1>3 DEF OneRowInv

LEMMA RetireKeeps == ASSUME OneRowInv, RetireMissing PROVE OneRowInv'
<1>1. /\ syncing' = [syncing EXCEPT !.phase = "retired", !.gone = Missing]
      /\ UNCHANGED <<srow, validated, verdict, paired, excluded, moves>>
  BY DEF RetireMissing
<1>2. Missing \subseteq ValidatedRows
  BY DEF Missing, Feeding, OneRowInv, SourceTypeOK
<1>3. SourceTypeOK' /\ syncing'.gone = Missing /\ syncing'.current = syncing.current
  BY <1>1, <1>2 DEF OneRowInv, SourceTypeOK
<1>4. Feeding' = Feeding
  BY <1>1, <1>3 DEF Feeding
<1>5. \A u, v \in Feeding' \ syncing'.gone : u = v
  BY <1>3, <1>4 DEF Missing
<1>6. \A u, v \in ValidatedRows : Live(u)' /\ Live(v)' => u = v
  BY <1>1 DEF OneRowInv, Live
<1> QED BY <1>3, <1>5, <1>6 DEF OneRowInv

LEMMA CommitKeepsOne == ASSUME OneRowInv, SyncCommit PROVE OneRowInv'
<1> USE ValidatedAreRows
<1> DEFINE gone == syncing.gone
           c == syncing.current
           Row(v) == IF v \in gone
                       THEN [srow[v] EXCEPT !.state = "deleted",
                                            !.key = IF v = c THEN syncing.key ELSE @]
                     ELSE IF v = c THEN [srow[v] EXCEPT !.state = "live", !.key = syncing.key]
                     ELSE srow[v]
<1>1. /\ srow' = [v \in SourceRows |-> Row(v)]
      /\ syncing' = NotSyncing /\ syncing.phase = "retired"
      /\ UNCHANGED <<validated, verdict, paired, excluded, moves>>
  BY DEF SyncCommit
<1>2. /\ \A v \in SourceRows : srow[v] \in SourceRow
      /\ syncing.key \in Keys /\ c \in ValidatedRows \cup {0}
  BY DEF OneRowInv, SourceTypeOK
<1>3. ASSUME NEW v \in SourceRows
      PROVE  /\ Row(v) \in SourceRow
             /\ Row(v).state = "live" => v \notin gone /\ (v = c \/ srow[v].state = "live")
  <2>1. srow[v] = [state |-> srow[v].state, key |-> srow[v].key,
                   ruling |-> srow[v].ruling, of |-> srow[v].of]
        /\ srow[v].state \in {"absent", "live", "deleted"} /\ srow[v].key \in Keys
        /\ srow[v].ruling \in {"none", "distinct", "duplicate"}
        /\ srow[v].of \in SourceRows \cup {0}
    BY <1>2 DEF SourceRow
  <2>2. CASE v \in gone
    <3>1. Row(v) = [state |-> "deleted", key |-> IF v = c THEN syncing.key ELSE srow[v].key,
                    ruling |-> srow[v].ruling, of |-> srow[v].of]
      BY <2>1, <2>2
    <3> QED BY <1>2, <2>1, <3>1 DEF SourceRow
  <2>3. CASE v \notin gone /\ v = c
    <3>1. Row(v) = [state |-> "live", key |-> syncing.key,
                    ruling |-> srow[v].ruling, of |-> srow[v].of]
      BY <2>1, <2>3
    <3> QED BY <1>2, <2>1, <2>3, <3>1 DEF SourceRow
  <2>4. CASE v \notin gone /\ v # c
    BY <1>2, <2>4
  <2> QED BY <2>2, <2>3, <2>4
<1> HIDE DEF Row
<1>4. SourceTypeOK' /\ syncing'.phase = "idle"
  BY <1>1, <1>3 DEF OneRowInv, SourceTypeOK, NotSyncing
<1>5. ASSUME NEW v \in ValidatedRows, Live(v)' PROVE v \in Feeding \ gone
  <2>1. srow'[v].state = "live" /\ srow'[v] = Row(v)
    BY <1>1, <1>5 DEF Live
  <2>2. v \notin gone /\ (v = c \/ srow[v].state = "live") /\ v # 0
    BY <1>3, <2>1
  <2> QED BY <2>2, FedIsLive DEF Live
<1>6. \A u, v \in ValidatedRows : Live(u)' /\ Live(v)' => u = v
  BY <1>1, <1>5 DEF OneRowInv
<1> QED BY <1>4, <1>6 DEF OneRowInv

LEMMA ReadKeeps ==
    ASSUME OneRowInv, NEW a \in Admins, NEW r \in SourceRows, NEW s \in SourceRows \cup {0},
           ReadRuling(a, r, s)
    PROVE  OneRowInv'
<1>1. [row |-> r, of |-> s] \in Verdicts
  BY DEF Verdicts
<1>2. verdict' \in [Admins -> Verdicts]
  BY <1>1 DEF OneRowInv, SourceTypeOK, ReadRuling
<1>3. SourceTypeOK'
  BY <1>2, MovesAreCounted DEF OneRowInv, SourceTypeOK, ReadRuling
<1> QED BY <1>3, NoRowComesAlive DEF ReadRuling, Live

LEMMA RuledRows ==
    ASSUME NEW rows \in [SourceRows -> SourceRow], NEW r \in SourceRows,
           NEW s \in SourceRows \cup {0}
    PROVE  /\ Ruled(rows, r, s) \in [SourceRows -> SourceRow]
           /\ \A v \in SourceRows : Ruled(rows, r, s)[v].state = rows[v].state
<1> DEFINE first == [rows EXCEPT ![r].ruling = IF s = 0 THEN "distinct" ELSE "duplicate",
                                 ![r].of = s]
           kept == IF s = 0 THEN r ELSE s
           ruled == Ruled(rows, r, s)
<1>1. first \in [SourceRows -> SourceRow] /\ \A v \in SourceRows : first[v].state = rows[v].state
  <2>1. rows[r] \in SourceRow
    OBVIOUS
  <2>2. ASSUME NEW v \in SourceRows
        PROVE  first[v] \in SourceRow /\ first[v].state = rows[v].state
    <3>1. rows[v] \in SourceRow
      OBVIOUS
    <3> QED BY <2>1, <3>1 DEF SourceRow
  <2> QED BY <2>2
<1>2. kept \in SourceRows
  OBVIOUS
<1>3. /\ ruled = [v \in SourceRows |-> ruled[v]]
      /\ \A v \in SourceRows : v # kept => ruled[v] = first[v]
  BY DEF Ruled
<1>4. \E y \in {"none", "distinct", "duplicate"} :
          ruled[kept] = [first[kept] EXCEPT !.ruling = y]
  <2> DEFINE y == IF s = 0 \/ rows[kept].ruling = "none" THEN "distinct" ELSE rows[kept].ruling
  <2>1. rows[kept] \in SourceRow
    BY <1>2
  <2>2. y \in {"none", "distinct", "duplicate"}
    BY <2>1 DEF SourceRow
  <2>3. ruled[kept] = [first[kept] EXCEPT !.ruling = y]
    BY <1>2 DEF Ruled
  <2> HIDE DEF y
  <2> QED BY <2>2, <2>3
<1> HIDE DEF first, kept, ruled
<1>5. ruled[kept] \in SourceRow /\ ruled[kept].state = first[kept].state
  <2>1. first[kept] \in SourceRow
    BY <1>1, <1>2
  <2> QED BY <1>4, <2>1 DEF SourceRow
<1>6. ASSUME NEW v \in SourceRows
      PROVE  ruled[v] \in SourceRow /\ ruled[v].state = rows[v].state
  BY <1>1, <1>2, <1>3, <1>5
<1>7. ruled \in [SourceRows -> SourceRow] /\ \A v \in SourceRows : ruled[v].state = rows[v].state
  BY <1>3, <1>6
<1> QED BY <1>7 DEF ruled

LEMMA WriteKeepsRows == ASSUME OneRowInv, NEW a \in Admins, WriteRuling(a) PROVE OneRowInv'
<1>1. /\ srow \in [SourceRows -> SourceRow] /\ verdict[a] \in Verdicts
      /\ verdict \in [Admins -> Verdicts]
  BY DEF OneRowInv, SourceTypeOK
<1>2. /\ verdict[a].row \in SourceRows /\ verdict[a].of \in SourceRows \cup {0}
  BY <1>1 DEF WriteRuling, Verdicts
<1>3. srow' = Ruled(srow, verdict[a].row, verdict[a].of)
  BY DEF WriteRuling
<1>4. /\ srow' \in [SourceRows -> SourceRow]
      /\ \A v \in SourceRows : srow'[v].state = srow[v].state
  BY <1>1, <1>2, <1>3, RuledRows
<1>5. verdict' \in [Admins -> Verdicts]
  BY <1>1 DEF WriteRuling, Verdicts
<1>6. SourceTypeOK'
  BY <1>4, <1>5 DEF OneRowInv, SourceTypeOK, WriteRuling
<1>7. \A v \in ValidatedRows : Live(v)' => Live(v)
  BY <1>4, ValidatedAreRows DEF Live
<1> QED BY <1>6, <1>7, NoRowComesAlive DEF WriteRuling

LEMMA OtherRulingsKeep ==
    ASSUME OneRowInv, (\E keys \in SUBSET Keys : SyncExclusions(keys)) \/ RulePair \/ UndoPair
    PROVE  OneRowInv'
<1>1. /\ Move /\ UNCHANGED <<srow, validated, syncing, verdict>>
      /\ paired' \in BOOLEAN /\ excluded' \in SUBSET Keys
  BY DEF SyncExclusions, RulePair, UndoPair, OneRowInv, SourceTypeOK
<1>2. SourceTypeOK'
  BY <1>1, MovesAreCounted DEF OneRowInv, SourceTypeOK
<1> QED BY <1>1, <1>2, NoRowComesAlive DEF Live

LEMMA SourceStep == OneRowInv /\ [SourceNext]_sourceVars => OneRowInv'
<1> SUFFICES ASSUME OneRowInv, [SourceNext]_sourceVars PROVE OneRowInv'
  OBVIOUS
<1>1. CASE SourceNext
  BY <1>1, SheetKeeps, PublishKeepsRows, UnpublishKeeps, FetchKeeps, RetireKeeps,
     CommitKeepsOne, ReadKeeps, WriteKeepsRows, OtherRulingsKeep DEF SourceNext
<1>2. CASE UNCHANGED sourceVars
  <2>1. SourceTypeOK'
    BY <1>2 DEF OneRowInv, SourceTypeOK, sourceVars
  <2> QED BY <1>2, <2>1, NoRowComesAlive DEF sourceVars, Live
<1> QED BY <1>1, <1>2

-----------------------------------------------------------------------------
\* An entry's row is the hand's own: what is done to it leaves the validated ones.
LEMMA EntryKeeps ==
    ASSUME OneRowInv, NEW h \in HandRows,
           CreateEntry(h) \/ UpdateEntry(h) \/ WithdrawEntry(h) \/ RestoreEntry(h)
    PROVE  OneRowInv' /\ UNCHANGED registryVars
<1> USE ValidatedAreRows
<1>1. /\ SourceTypeOK /\ h \in SourceRows /\ srow \in [SourceRows -> SourceRow]
      /\ srow[h] \in SourceRow
  BY DEF OneRowInv, SourceTypeOK
<1>2. /\ UNCHANGED <<validated, syncing, verdict, paired, excluded, registryVars>>
      /\ moves' \in 0 .. MaxMoves
  BY <1>1, MovesAreCounted
     DEF CreateEntry, UpdateEntry, WithdrawEntry, RestoreEntry, SourceTypeOK
<1>3. \E row \in SourceRow : srow' = [srow EXCEPT ![h] = row]
  <2>1. CASE CreateEntry(h) \/ UpdateEntry(h)
    <3>1. PICK k \in Keys \ excluded, apart \in BOOLEAN : Project(h, k, apart)
      BY <2>1 DEF CreateEntry, UpdateEntry
    <3> DEFINE row == [srow[h] EXCEPT !.state = "live", !.key = k,
                 !.ruling = IF apart /\ @ = "none" /\ KeptApart(h, k) THEN "distinct" ELSE @]
    <3>2. row \in SourceRow
      <4>1. srow[h].ruling \in {"none", "distinct", "duplicate"}
        BY <1>1 DEF SourceRow
      <4> QED BY <1>1, <4>1 DEF SourceRow
    <3>3. /\ srow'[h] = row /\ srow' = [r \in SourceRows |-> srow'[r]]
          /\ \A r \in SourceRows : r # h => srow'[r] = srow[r]
      BY <1>1, <3>1 DEF Project
    <3> HIDE DEF row
    <3>4. srow' = [srow EXCEPT ![h] = row]
      BY <1>1, <3>3
    <3> QED BY <3>2, <3>4
  <2>2. CASE WithdrawEntry(h)
    <3> DEFINE row == [srow[h] EXCEPT !.state = "deleted"]
    <3>1. row \in SourceRow /\ srow' = [srow EXCEPT ![h] = row]
      BY <1>1, <2>2 DEF WithdrawEntry, SourceRow
    <3> HIDE DEF row
    <3> QED BY <3>1
  <2>3. CASE RestoreEntry(h)
    <3> DEFINE row == [srow[h] EXCEPT !.state = "live"]
    <3>1. row \in SourceRow /\ srow' = [srow EXCEPT ![h] = row]
      BY <1>1, <2>3 DEF RestoreEntry, SourceRow
    <3> HIDE DEF row
    <3> QED BY <3>1
  <2> QED BY <2>1, <2>2, <2>3
<1>4. SourceTypeOK'
  BY <1>1, <1>2, <1>3, RowIsWritten DEF SourceTypeOK
<1>5. \A v \in ValidatedRows : Live(v)' => Live(v)
  <2>1. \A v \in ValidatedRows : srow'[v] = srow[v]
    BY <1>1, <1>3
  <2> QED BY <2>1 DEF Live
<1> QED BY <1>2, <1>4, <1>5, NoRowComesAlive

-----------------------------------------------------------------------------
\* What a refresh keeps of the registry: the one row per validated record, the records
\* with an id among the rows they claim, and the product it holds.
RegInv ==
    /\ OneRowInv
    /\ RegistryTypeOK
    /\ RecordsOK
    /\ building.active => ProductOK(building.product)

LEMMA RegistryInitially == FloraInit => RegInv
<1> SUFFICES ASSUME FloraInit PROVE RegInv
  OBVIOUS
<1>1. OneRowInv
  BY SourceInitially DEF FloraInit
<1>2. registry = <<>> /\ building = [active |-> FALSE, product |-> <<>>]
  BY DEF FloraInit, NotBuilding
<1>3. DOMAIN registry = {} /\ registry \in Seq(FloraRecord)
  BY <1>2
<1>4. building \in [active : BOOLEAN, product : Seq(ProductRow)] /\ ~building.active
  BY <1>2
<1>5. RegistryTypeOK
  BY <1>1, <1>3, <1>4 DEF OneRowInv, RegistryTypeOK
<1>6. RecordsOK
  BY <1>3 DEF RecordsOK, IdsAreUnique
<1> QED BY <1>1, <1>4, <1>5, <1>6 DEF RegInv

LEMMA RegistryStays ==
    ASSUME RegInv, OneRowInv', UNCHANGED registryVars PROVE RegInv'
<1>1. registry' = registry /\ building' = building
  BY DEF registryVars
<1>2. RegistryTypeOK'
  BY <1>1 DEF RegInv, RegistryTypeOK, OneRowInv
<1>3. RecordsOK'
  BY <1>1 DEF RegInv, RecordsOK, IdsAreUnique, Claims, Current
<1>4. building'.active => ProductOK(building'.product)
  BY <1>1 DEF RegInv
<1> QED BY <1>2, <1>3, <1>4 DEF RegInv

LEMMA BuildKeepsRecords == ASSUME RegInv, RefreshBuild PROVE RegInv'
<1>1. /\ building' = [active |-> TRUE, product |-> InOrder]
      /\ UNCHANGED <<sourceVars, registry>>
  BY DEF RefreshBuild
<1>2. ProductOK(InOrder)
  BY InOrderIsOK DEF RegInv, OneRowInv
<1>3. InOrder \in Seq(ProductRow)
  BY <1>2 DEF ProductOK
<1>4. OneRowInv'
  BY <1>1, SourceStep DEF RegInv
<1>5. RegistryTypeOK'
  BY <1>1, <1>3, <1>4 DEF RegInv, RegistryTypeOK, OneRowInv
<1>6. RecordsOK'
  BY <1>1 DEF RegInv, RecordsOK, IdsAreUnique, Claims, Current
<1>7. building'.product = InOrder
  BY <1>1
<1> QED BY <1>2, <1>4, <1>5, <1>6, <1>7 DEF RegInv

-----------------------------------------------------------------------------
(***************************************************************************)
(* A commit of a refresh.                                                  *)
(***************************************************************************)
LEMMA CommitIs ==
    ASSUME RegInv, RefreshCommit
    PROVE  LET taken == Matches(building.product)
               fresh == Fresh(building.product)
               L == Len(registry)
               K == Cardinality(fresh)
           IN  /\ L \in Nat /\ K \in Nat /\ DOMAIN registry = 1 .. L
               /\ Len(registry') = L + K /\ DOMAIN registry' = 1 .. L + K
               /\ registry' = [n \in 1 .. L + K |-> registry'[n]]
               /\ \A i \in 1 .. L : registry'[i] =
                      IF i \in DOMAIN taken THEN Refreshed(registry[i], taken[i])
                                            ELSE [registry[i] EXCEPT !.retired = TRUE]
               /\ \A n \in 1 .. K : registry'[L + n] = NewRecord(NthRow(n, fresh), fresh)
<1> DEFINE taken == Matches(building.product)
           fresh == Fresh(building.product)
           L == Len(registry)
           K == Cardinality(fresh)
           Old(i) == IF i \in DOMAIN taken THEN Refreshed(registry[i], taken[i])
                                           ELSE [registry[i] EXCEPT !.retired = TRUE]
           New(n) == NewRecord(NthRow(n, fresh), fresh)
           a == [i \in DOMAIN registry |-> Old(i)]
           b == [n \in 1 .. K |-> New(n)]
<1>1. L \in Nat /\ DOMAIN registry = 1 .. L
  BY DEF RegInv, RecordsOK
<1>2. K \in Nat
  BY FreshIsApart, NthRowsAre DEF RegInv, RefreshCommit
<1>3. registry' = a \o b
  BY DEF RefreshCommit
<1> HIDE DEF taken, fresh, L, K, Old, New
<1>4. Len(a) = L /\ Len(b) = K
  <2>1. a = [i \in 1 .. L |-> Old(i)]
    BY <1>1
  <2>2. DOMAIN a = 1 .. L /\ DOMAIN b = 1 .. K
    BY <2>1
  <2>3. Len(a) = L
    BY <1>1, <2>1, <2>2
  <2>4. Len(b) = K
    BY <1>2, <2>2
  <2> QED BY <2>3, <2>4
<1>5. /\ Len(a \o b) = L + K /\ DOMAIN (a \o b) = 1 .. L + K
      /\ a \o b = [n \in 1 .. L + K |-> (a \o b)[n]]
      /\ \A i \in 1 .. L : (a \o b)[i] = a[i]
      /\ \A n \in 1 .. K : (a \o b)[L + n] = b[n]
  <2> DEFINE S == {a[i] : i \in 1 .. L} \cup {b[n] : n \in 1 .. K}
  <2>1. a = [i \in 1 .. L |-> a[i]] /\ b = [n \in 1 .. K |-> b[n]]
    BY <1>1
  <2> HIDE DEF a, b
  <2>2. a \in Seq(S) /\ b \in Seq(S)
    BY <1>1, <1>2, <2>1
  <2> HIDE DEF S
  <2>3. /\ Len(a \o b) = Len(a) + Len(b) /\ DOMAIN (a \o b) = 1 .. Len(a) + Len(b)
        /\ a \o b = [n \in 1 .. Len(a) + Len(b) |-> (a \o b)[n]]
        /\ \A i \in 1 .. Len(a) : (a \o b)[i] = a[i]
        /\ \A n \in 1 .. Len(b) : (a \o b)[Len(a) + n] = b[n]
    BY <2>2, ConcatenationIs
  <2> QED BY <1>4, <2>3
<1>6. \A i \in 1 .. L : a[i] = Old(i)
  BY <1>1
<1>7. \A n \in 1 .. K : b[n] = New(n)
  OBVIOUS
<1> HIDE DEF a, b
<1>8. /\ Len(registry') = L + K /\ DOMAIN registry' = 1 .. L + K
      /\ registry' = [n \in 1 .. L + K |-> registry'[n]]
      /\ \A i \in 1 .. L : registry'[i] = Old(i)
      /\ \A n \in 1 .. K : registry'[L + n] = New(n)
  BY <1>3, <1>5, <1>6, <1>7
<1> QED BY <1>1, <1>2, <1>8 DEF taken, fresh, L, K, Old, New

-----------------------------------------------------------------------------
\* What a refresh leaves of a record: its id and its reference, and what it claims; a row
\* that is taken becomes its primary and makes it live, and nothing else does.
LEMMA OldRecords ==
    ASSUME RegInv, RefreshCommit, NEW i \in DOMAIN registry
    PROVE  LET taken == Matches(building.product)
           IN  /\ i \in DOMAIN registry' /\ i \in 1 .. Len(registry)
               /\ registry'[i] \in FloraRecord
               /\ registry'[i].id = registry[i].id
               /\ registry'[i].publishedAs = registry[i].publishedAs
               /\ Claims(registry[i]) \subseteq Claims(registry'[i])
               /\ i \in DOMAIN taken => /\ registry'[i].primary = taken[i].src
                                        /\ ~registry'[i].retired
               /\ i \notin DOMAIN taken => /\ registry'[i].primary = registry[i].primary
                                           /\ registry'[i].retired
<1> DEFINE taken == Matches(building.product)
           rec == registry[i]
           new == registry'[i]
<1>1. /\ i \in 1 .. Len(registry) /\ i \in DOMAIN registry'
      /\ new = IF i \in DOMAIN taken THEN Refreshed(rec, taken[i])
                                     ELSE [rec EXCEPT !.retired = TRUE]
  <2>1. LET L == Len(registry)
            K == Cardinality(Fresh(building.product))
        IN  /\ L \in Nat /\ K \in Nat /\ DOMAIN registry = 1 .. L
            /\ DOMAIN registry' = 1 .. L + K
            /\ \A j \in 1 .. L : registry'[j] =
                   IF j \in DOMAIN Matches(building.product)
                     THEN Refreshed(registry[j], Matches(building.product)[j])
                     ELSE [registry[j] EXCEPT !.retired = TRUE]
    BY CommitIs
  <2> QED BY <2>1
<1>2. /\ rec \in FloraRecord
      /\ \A j \in DOMAIN taken : taken[j] \in ProductRow
  <2>1. /\ \A j \in DOMAIN taken : taken[j] \in ToSet(building.product)
        /\ \A p \in ToSet(building.product) : p \in ProductRow
    BY MatchesAreTaken DEF RegInv, RefreshCommit, ProductOK
  <2> QED BY <2>1 DEF RegInv, RecordsOK
<1>3. /\ rec.id \in FloraIds /\ rec.primary \in SourceRows /\ rec.merged \subseteq SourceRows
      /\ rec.history \subseteq SourceRows /\ rec.publishedAs \in Reference \cup {NoReference}
      /\ rec = [id |-> rec.id, primary |-> rec.primary, merged |-> rec.merged,
                history |-> rec.history, retired |-> rec.retired,
                publishedAs |-> rec.publishedAs]
  BY <1>2 DEF FloraRecord
<1> HIDE DEF rec, new, taken
<1>4. CASE i \in DOMAIN taken
  <2> DEFINE p == taken[i]
  <2>1. p.src \in SourceRows /\ p.merged \subseteq SourceRows
    BY <1>2, <1>4 DEF ProductRow
  <2> HIDE DEF p
  <2>2. new = [id |-> rec.id, primary |-> p.src, merged |-> p.merged,
               history |-> rec.history \cup Current(rec), retired |-> FALSE,
               publishedAs |-> rec.publishedAs]
    BY <1>1, <1>3, <1>4 DEF Refreshed, p
  <2>3. Current(rec) \subseteq SourceRows
    BY <1>3 DEF Current
  <2>4. new \in FloraRecord
    BY <1>3, <2>1, <2>2, <2>3 DEF FloraRecord
  <2>5. Claims(rec) \subseteq Claims(new)
    BY <2>2 DEF Claims
  <2> QED BY <1>1, <1>4, <2>2, <2>4, <2>5 DEF rec, new, taken, p
<1>5. CASE i \notin DOMAIN taken
  <2>1. new = [id |-> rec.id, primary |-> rec.primary, merged |-> rec.merged,
               history |-> rec.history, retired |-> TRUE, publishedAs |-> rec.publishedAs]
    BY <1>1, <1>3, <1>5
  <2>2. new \in FloraRecord
    BY <1>3, <2>1 DEF FloraRecord
  <2>3. Claims(rec) \subseteq Claims(new)
    BY <2>1 DEF Claims, Current
  <2> QED BY <1>1, <1>5, <2>1, <2>2, <2>3 DEF rec, new, taken
<1> QED BY <1>4, <1>5

\* The records it adds: one for each row that took none, with an id nobody has.
LEMMA NewRecords ==
    ASSUME RegInv, RefreshCommit, NEW i \in DOMAIN registry', i \notin DOMAIN registry
    PROVE  LET fresh == Fresh(building.product)
           IN  \E n \in 1 .. Cardinality(fresh) : \E p \in fresh :
                   /\ i = Len(registry) + n /\ p = NthRow(n, fresh)
                   /\ registry'[i] \in FloraRecord
                   /\ registry'[i] = NewRecord(p, fresh)
                   /\ registry'[i].id[1] = p.src /\ registry'[i].primary = p.src
                   /\ \A j \in DOMAIN registry : registry[j].id # registry'[i].id
<1> DEFINE product == building.product
           fresh == Fresh(product)
           L == Len(registry)
           K == Cardinality(fresh)
<1>1. /\ L \in Nat /\ K \in Nat /\ DOMAIN registry = 1 .. L /\ DOMAIN registry' = 1 .. L + K
      /\ \A n \in 1 .. K : registry'[L + n] = NewRecord(NthRow(n, fresh), fresh)
  BY CommitIs
<1>2. ProductOK(product) /\ RecordsOK
  BY DEF RegInv, RefreshCommit
<1> HIDE DEF product, fresh, L, K
<1>3. i \in 1 .. L + K /\ ~(i \in 1 .. L)
  BY <1>1
<1> DEFINE n == i - L
           p == NthRow(n, fresh)
<1>4. n \in 1 .. K /\ i = L + n
  BY <1>1, <1>3
<1> HIDE DEF n
<1>5. p \in fresh /\ p \in ProductRow
  BY <1>2, <1>4, FreshIsApart, NthRowsAre DEF fresh, K
<1>6. registry'[i] = NewRecord(p, fresh)
  BY <1>1, <1>4
<1>7. PICK m \in 1 .. Cardinality(SourceRows) : Minted(p.src) = <<p.src, m>>
  BY <1>2, <1>5, MintedIsFree DEF fresh
<1>8. \A j \in DOMAIN registry : registry[j].id # Minted(p.src)
  BY <1>2, <1>5, MintedIsFree DEF fresh
<1>9. PublishedAs(p, fresh) \in Reference \cup {NoReference}
  BY DEF PublishedAs, ReferenceMatch
<1> HIDE DEF p
<1>10. registry'[i] = [id |-> Minted(p.src), primary |-> p.src, merged |-> p.merged,
                       history |-> {}, retired |-> FALSE, publishedAs |-> PublishedAs(p, fresh)]
  BY <1>6 DEF NewRecord
<1>11. p.src \in SourceRows /\ p.merged \subseteq SourceRows
  BY <1>5 DEF ProductRow
<1>12. <<p.src, m>> \in FloraIds
  BY <1>7, <1>11, RowsAreNumbers DEF FloraIds
<1>13. registry'[i] \in FloraRecord
  BY <1>7, <1>9, <1>10, <1>11, <1>12 DEF FloraRecord
<1>14. registry'[i].id = Minted(p.src) /\ registry'[i].id[1] = p.src
       /\ registry'[i].primary = p.src
  BY <1>7, <1>10
<1>15. /\ i = L + n /\ p = NthRow(n, fresh)
       /\ registry'[i] \in FloraRecord
       /\ registry'[i] = NewRecord(p, fresh)
       /\ registry'[i].id[1] = p.src /\ registry'[i].primary = p.src
       /\ \A j \in DOMAIN registry : registry[j].id # registry'[i].id
  BY <1>4, <1>6, <1>8, <1>13, <1>14 DEF p
<1> QED BY <1>4, <1>5, <1>15 DEF fresh, L, K, product

-----------------------------------------------------------------------------
\* Two records differ after the commit as IdsAreUnique asks: two old ones, two new ones,
\* an old one and a new one.
Apart(x, y) ==
    /\ x.id # y.id
    /\ x.primary # y.primary
    /\ x.publishedAs = y.publishedAs => x.publishedAs = NoReference

LEMMA OldOnesApart ==
    ASSUME RegInv, RefreshCommit, NEW i \in DOMAIN registry, NEW j \in DOMAIN registry, i # j
    PROVE  Apart(registry'[i], registry'[j])
<1> DEFINE product == building.product
           taken == Matches(product)
<1>1. ProductOK(product) /\ RecordsOK
  BY DEF RegInv, RefreshCommit
<1>2. /\ registry[i].id # registry[j].id
      /\ registry[i].primary # registry[j].primary
      /\ registry[i].publishedAs = registry[j].publishedAs
            => registry[i].publishedAs = NoReference
  BY <1>1 DEF RecordsOK, IdsAreUnique
<1>3. /\ \A k \in DOMAIN taken : taken[k] \in ToSet(product)
      /\ \A k, l \in DOMAIN taken : taken[k] = taken[l] => k = l
      /\ \A p \in ToSet(product) : \A k \in RecordOf(p.src) : k \in DOMAIN taken /\ taken[k] = p
  BY <1>1, MatchesAreTaken
<1>4. \A p, q \in ToSet(product) : p.src = q.src => p = q
  BY <1>1 DEF ProductOK, ApartBySource
<1>5. \A k \in {i, j} :
        /\ registry'[k].id = registry[k].id
        /\ registry'[k].publishedAs = registry[k].publishedAs
        /\ k \in DOMAIN taken => registry'[k].primary = taken[k].src
        /\ k \notin DOMAIN taken => registry'[k].primary = registry[k].primary
  BY OldRecords
<1> HIDE DEF taken, product
<1>6. ASSUME NEW k \in DOMAIN registry, NEW l \in DOMAIN taken, k \notin DOMAIN taken
      PROVE  registry[k].primary # taken[l].src
  BY <1>3, <1>6 DEF RecordOf
<1>7. registry'[i].primary # registry'[j].primary
  <2>1. CASE i \in DOMAIN taken /\ j \in DOMAIN taken
    BY <1>3, <1>4, <1>5, <2>1
  <2>2. CASE i \in DOMAIN taken /\ j \notin DOMAIN taken
    BY <1>5, <1>6, <2>2
  <2>3. CASE i \notin DOMAIN taken /\ j \in DOMAIN taken
    BY <1>5, <1>6, <2>3
  <2>4. CASE i \notin DOMAIN taken /\ j \notin DOMAIN taken
    BY <1>2, <1>5, <2>4
  <2> QED BY <2>1, <2>2, <2>3, <2>4
<1> QED BY <1>2, <1>5, <1>7 DEF Apart

LEMMA PublishedOnce ==
    ASSUME NEW fresh, ApartBySource(fresh), NEW p \in fresh, NEW q \in fresh, p # q,
           PublishedAs(p, fresh) = PublishedAs(q, fresh)
    PROVE  PublishedAs(p, fresh) = NoReference
<1> SUFFICES ASSUME PublishedAs(p, fresh) # NoReference, PublishedAs(q, fresh) # NoReference
             PROVE  FALSE
  OBVIOUS
<1>1. p.key = q.key
  BY DEF PublishedAs
<1>2. /\ \A r \in fresh : r.key = p.key => p.src <= r.src
      /\ \A r \in fresh : r.key = q.key => q.src <= r.src
  BY DEF PublishedAs
<1>3. p.src \in Nat /\ q.src \in Nat /\ (p.src = q.src => p = q)
  BY RowsAreNumbers DEF ApartBySource
<1> QED BY <1>1, <1>2, <1>3

LEMMA NewOnesApart ==
    ASSUME RegInv, RefreshCommit, NEW i \in DOMAIN registry', NEW j \in DOMAIN registry',
           i \notin DOMAIN registry, j \notin DOMAIN registry, i # j
    PROVE  Apart(registry'[i], registry'[j])
<1> DEFINE fresh == Fresh(building.product)
           K == Cardinality(fresh)
<1>1. ApartBySource(fresh)
  BY FreshIsApart DEF RegInv, RefreshCommit
<1>2. PICK n \in 1 .. K : \E p \in fresh :
          /\ i = Len(registry) + n /\ p = NthRow(n, fresh)
          /\ registry'[i] = NewRecord(p, fresh)
          /\ registry'[i].id[1] = p.src /\ registry'[i].primary = p.src
  BY NewRecords
<1>3. PICK m \in 1 .. K : \E q \in fresh :
          /\ j = Len(registry) + m /\ q = NthRow(m, fresh)
          /\ registry'[j] = NewRecord(q, fresh)
          /\ registry'[j].id[1] = q.src /\ registry'[j].primary = q.src
  BY NewRecords
<1> HIDE DEF fresh
<1>4. PICK p \in fresh : /\ p = NthRow(n, fresh) /\ registry'[i] = NewRecord(p, fresh)
                         /\ registry'[i].id[1] = p.src /\ registry'[i].primary = p.src
  BY <1>2
<1>5. PICK q \in fresh : /\ q = NthRow(m, fresh) /\ registry'[j] = NewRecord(q, fresh)
                         /\ registry'[j].id[1] = q.src /\ registry'[j].primary = q.src
  BY <1>3
<1>6. n # m
  BY <1>2, <1>3
<1>7. p # q
  BY <1>1, <1>4, <1>5, <1>6, NthRowsAre
<1>8. p.src # q.src
  BY <1>1, <1>7 DEF ApartBySource
<1>9. registry'[i].publishedAs = PublishedAs(p, fresh)
      /\ registry'[j].publishedAs = PublishedAs(q, fresh)
  BY <1>4, <1>5 DEF NewRecord
<1>10. registry'[i].publishedAs = registry'[j].publishedAs
         => registry'[i].publishedAs = NoReference
  BY <1>1, <1>7, <1>9, PublishedOnce
<1> QED BY <1>4, <1>5, <1>8, <1>10 DEF Apart

LEMMA OldAndNewApart ==
    ASSUME RegInv, RefreshCommit, NEW i \in DOMAIN registry, NEW j \in DOMAIN registry',
           j \notin DOMAIN registry
    PROVE  Apart(registry'[i], registry'[j]) /\ Apart(registry'[j], registry'[i])
<1> DEFINE product == building.product
           taken == Matches(product)
           fresh == Fresh(product)
<1>1. ProductOK(product) /\ RecordsOK
  BY DEF RegInv, RefreshCommit
<1>2. PICK n \in 1 .. Cardinality(fresh) : \E q \in fresh :
          /\ registry'[j] = NewRecord(q, fresh) /\ registry'[j].primary = q.src
          /\ \A k \in DOMAIN registry : registry[k].id # registry'[j].id
  BY NewRecords
<1>3. PICK q \in fresh : /\ registry'[j] = NewRecord(q, fresh) /\ registry'[j].primary = q.src
                         /\ registry[i].id # registry'[j].id
  BY <1>2
<1>4. /\ registry'[i].id = registry[i].id
      /\ registry'[i].publishedAs = registry[i].publishedAs
      /\ i \in DOMAIN taken => registry'[i].primary = taken[i].src
      /\ i \notin DOMAIN taken => registry'[i].primary = registry[i].primary
  BY OldRecords
<1>5. /\ \A k \in DOMAIN taken : taken[k] \in ToSet(product) /\ taken[k] # q
      /\ \A k \in RecordOf(q.src) : k \in DOMAIN taken /\ taken[k] = q
      /\ q \in ToSet(product)
  BY <1>1, MatchesAreTaken DEF Fresh
<1>6. \A p, r \in ToSet(product) : p.src = r.src => p = r
  BY <1>1 DEF ProductOK, ApartBySource
<1>7. registry'[j].publishedAs = PublishedAs(q, fresh)
  BY <1>3 DEF NewRecord
<1> HIDE DEF taken, product, fresh
<1>8. registry'[i].primary # q.src
  <2>1. CASE i \in DOMAIN taken
    BY <1>4, <1>5, <1>6, <2>1
  <2>2. CASE i \notin DOMAIN taken
    BY <1>4, <1>5, <2>2 DEF RecordOf
  <2> QED BY <2>1, <2>2
<1>9. registry[i].publishedAs = PublishedAs(q, fresh) => PublishedAs(q, fresh) = NoReference
  BY DEF PublishedAs
<1> QED BY <1>3, <1>4, <1>7, <1>8, <1>9 DEF Apart

LEMMA CommitKeepsRecords == ASSUME RegInv, RefreshCommit PROVE RegInv'
<1>1. /\ building' = [active |-> FALSE, product |-> <<>>] /\ UNCHANGED sourceVars
  BY DEF RefreshCommit, NotBuilding
<1>2. OneRowInv'
  BY <1>1, SourceStep DEF RegInv
<1>3. building' \in [active : BOOLEAN, product : Seq(ProductRow)] /\ ~building'.active
  BY <1>1
<1>4. ASSUME NEW i \in DOMAIN registry'
      PROVE  registry'[i] \in FloraRecord /\ registry'[i].id[1] \in Claims(registry'[i])
  <2>1. CASE i \in DOMAIN registry
    <3>1. /\ registry'[i] \in FloraRecord /\ registry'[i].id = registry[i].id
          /\ Claims(registry[i]) \subseteq Claims(registry'[i])
      BY <2>1, OldRecords
    <3>2. registry[i].id[1] \in Claims(registry[i])
      BY <2>1 DEF RegInv, RecordsOK
    <3> QED BY <3>1, <3>2
  <2>2. CASE i \notin DOMAIN registry
    <3>1. registry'[i] \in FloraRecord /\ registry'[i].id[1] = registry'[i].primary
      BY <2>2, NewRecords
    <3> QED BY <3>1 DEF Claims, Current
  <2> QED BY <2>1, <2>2
<1>5. registry' \in Seq(FloraRecord)
  <2>1. LET L == Len(registry)
            K == Cardinality(Fresh(building.product))
        IN  L + K \in Nat /\ registry' = [n \in 1 .. L + K |-> registry'[n]]
    BY CommitIs
  <2>2. PICK M \in Nat : registry' = [n \in 1 .. M |-> registry'[n]]
    BY <2>1
  <2>3. \A n \in 1 .. M : registry'[n] \in FloraRecord
    BY <1>4, <2>2
  <2> QED BY <2>2, <2>3
<1>6. ASSUME NEW i \in DOMAIN registry', NEW j \in DOMAIN registry', i # j
      PROVE  Apart(registry'[i], registry'[j])
  BY <1>6, OldOnesApart, NewOnesApart, OldAndNewApart
<1>7. IdsAreUnique'
  BY <1>6 DEF IdsAreUnique, Apart
<1>8. RecordsOK'
  <2>1. \A i \in DOMAIN registry' : registry'[i].id[1] \in Claims(registry[i])'
    BY <1>4 DEF Claims, Current
  <2> QED BY <1>5, <1>7, <2>1 DEF RecordsOK
<1>9. RegistryTypeOK'
  BY <1>2, <1>3, <1>5 DEF OneRowInv, RegistryTypeOK
<1> QED BY <1>2, <1>3, <1>8, <1>9 DEF RegInv

LEMMA RegistryStep == RegInv /\ [FloraNext]_floraVars => RegInv'
<1> SUFFICES ASSUME RegInv, [FloraNext]_floraVars PROVE RegInv'
  OBVIOUS
<1>1. CASE SourceNext /\ UNCHANGED registryVars
  BY <1>1, SourceStep, RegistryStays DEF RegInv
<1>2. CASE RefreshBuild
  BY <1>2, BuildKeepsRecords
<1>3. CASE RefreshCommit
  BY <1>3, CommitKeepsRecords
<1>4. CASE \E h \in HandRows :
              CreateEntry(h) \/ UpdateEntry(h) \/ WithdrawEntry(h) \/ RestoreEntry(h)
  BY <1>4, EntryKeeps, RegistryStays DEF RegInv
<1>5. CASE UNCHANGED floraVars
  BY <1>5, SourceStep, RegistryStays DEF RegInv, floraVars
<1> QED BY <1>1, <1>2, <1>3, <1>4, <1>5 DEF FloraNext

LEMMA RegistryInvariance == FloraSpec => []RegInv
  BY RegistryInitially, RegistryStep, PTL DEF FloraSpec

LEMMA RegistryIsSound == RegInv => RegistryInvariant
<1> SUFFICES ASSUME RegInv PROVE RegistryInvariant
  OBVIOUS
<1> DEFINE S == {v \in ValidatedRows : srow[v].state = "live"}
<1>1. \A u, v \in S : u = v
  BY DEF RegInv, OneRowInv, Live
<1>2. Cardinality(S) <= 1
  <2>1. CASE S = {}
    BY <2>1, FS_EmptySet
  <2>2. CASE S # {}
    <3>1. PICK u \in S : S = {u}
      BY <1>1, <2>2
    <3> HIDE DEF S
    <3>2. Cardinality(S) = 1
      BY <3>1, FS_Singleton
    <3> QED BY <3>2
  <2> QED BY <2>1, <2>2
<1> QED BY <1>2 DEF RegInv, RecordsOK, RegistryInvariant, OneRowFeeds

\* For every set of rows, keys and rulings, and however publications, edits and entries
\* fall between the statements of a sync and a refresh: no two FLoRA records have one id,
\* one primary row or one id of the reference (flora_registry.refresh), and a validated
\* record feeds the build with one row at most (sync_validated).
THEOREM RegistryIsAlwaysSound == FloraSpec => []RegistryInvariant
  BY RegistryInvariance, RegistryIsSound, PTL

-----------------------------------------------------------------------------
LEMMA RegistersIsCommit ==
    ASSUME RegInv, [FloraNext]_floraVars, Registers PROVE RefreshCommit
<1>1. ~(UNCHANGED building) /\ building.active
  BY DEF Registers
<1>2. ~(UNCHANGED registryVars) /\ ~(UNCHANGED floraVars)
  BY <1>1 DEF registryVars, floraVars
<1>3. ~RefreshBuild
  BY <1>1 DEF RefreshBuild
<1>4. ~\E h \in HandRows : CreateEntry(h) \/ UpdateEntry(h) \/ WithdrawEntry(h) \/ RestoreEntry(h)
  BY <1>2, EntryKeeps DEF RegInv
<1> QED BY <1>2, <1>3, <1>4 DEF FloraNext

LEMMA IdsStay ==
    ASSUME RegInv, RefreshCommit
    PROVE  \A i \in DOMAIN registry :
              /\ registry'[i].id = registry[i].id
              /\ (\E p \in ToSet(building.product) : p.src = registry[i].primary)
                    => registry'[i].primary = registry[i].primary /\ ~registry'[i].retired
              /\ \A n \in Len(registry) + 1 .. Len(registry') :
                    Current(registry'[n]) \cap Claims(registry[i]) # {} => ~registry'[i].retired
<1> DEFINE product == building.product
           taken == Matches(product)
           fresh == Fresh(product)
           L == Len(registry)
           K == Cardinality(fresh)
<1> SUFFICES ASSUME NEW i \in DOMAIN registry
             PROVE  /\ registry'[i].id = registry[i].id
                    /\ (\E p \in ToSet(product) : p.src = registry[i].primary)
                          => registry'[i].primary = registry[i].primary /\ ~registry'[i].retired
                    /\ \A n \in L + 1 .. Len(registry') :
                          Current(registry'[n]) \cap Claims(registry[i]) # {}
                             => ~registry'[i].retired
  OBVIOUS
<1>1. ProductOK(product) /\ RecordsOK
  BY DEF RegInv, RefreshCommit
<1>2. /\ \A p \in ToSet(product) : \A k \in RecordOf(p.src) : k \in DOMAIN taken /\ taken[k] = p
      /\ \A p \in fresh : Claimants(p, DOMAIN registry) \subseteq DOMAIN taken
  BY <1>1, MatchesAreTaken
<1>3. /\ registry'[i].id = registry[i].id
      /\ i \in DOMAIN taken => registry'[i].primary = taken[i].src /\ ~registry'[i].retired
  BY OldRecords
<1>4. /\ L \in Nat /\ K \in Nat /\ DOMAIN registry = 1 .. L /\ Len(registry') = L + K
      /\ DOMAIN registry' = 1 .. L + K
  BY CommitIs
<1>5. ASSUME NEW n \in DOMAIN registry', n \notin DOMAIN registry
      PROVE  \E p \in fresh : registry'[n] = NewRecord(p, fresh)
  BY <1>5, NewRecords
<1> HIDE DEF product, taken, fresh, L, K
<1>6. ASSUME NEW p \in ToSet(product), p.src = registry[i].primary
      PROVE  registry'[i].primary = registry[i].primary /\ ~registry'[i].retired
  <2>1. i \in RecordOf(p.src)
    BY <1>6 DEF RecordOf
  <2> QED BY <1>2, <1>3, <1>6, <2>1
<1>7. ASSUME NEW n \in L + 1 .. Len(registry'),
             Current(registry'[n]) \cap Claims(registry[i]) # {}
      PROVE  ~registry'[i].retired
  <2>1. n \in DOMAIN registry' /\ n \notin DOMAIN registry
    BY <1>4
  <2>2. PICK p \in fresh : registry'[n] = NewRecord(p, fresh)
    BY <1>5, <2>1
  <2>3. Current(registry'[n]) = {p.src} \cup p.merged
    BY <2>2 DEF NewRecord, Current
  <2>4. i \in Claimants(p, DOMAIN registry)
    BY <1>7, <2>3 DEF Claimants
  <2> QED BY <1>2, <1>3, <2>4
<1> QED BY <1>3, <1>6, <1>7

\* A published id keeps naming what it named, whatever survives, splits, is absorbed or
\* comes back between two refreshes (flora_registry.refresh).
THEOREM PublishedIdsAlwaysStay == FloraSpec => PublishedIdsStay
<1>1. RegInv /\ [FloraNext]_floraVars =>
        [Registers =>
          \A i \in DOMAIN registry :
              /\ registry'[i].id = registry[i].id
              /\ (\E p \in ToSet(building.product) : p.src = registry[i].primary)
                    => registry'[i].primary = registry[i].primary /\ ~registry'[i].retired
              /\ \A n \in Len(registry) + 1 .. Len(registry') :
                    Current(registry'[n]) \cap Claims(registry[i]) # {}
                       => ~registry'[i].retired]_floraVars
  BY RegistersIsCommit, IdsStay
<1> QED BY <1>1, RegistryInvariance, PTL DEF FloraSpec, PublishedIdsStay

-----------------------------------------------------------------------------
LEMMA OfOneKey ==
    ASSUME NEW r, NEW s \in SameKey(r)
    PROVE  SameKey(s) = SameKey(r) /\ s \in SourceRows
  BY DEF SameKey

LEMMA LoadedIsOfItsKey == ASSUME NEW r \in Loaded PROVE r \in SameKey(r)
  BY DEF Loaded, SameKey

LEMMA HandRecordStays ==
    ASSUME RegInv, NEW i \in DOMAIN registry
    PROVE  LET old == registry[i].primary
               others == {s \in SameKey(old) \cap LivePrimaries : s \in HandRows => s < old}
               now == {p \in Product : old \in {p.src} \cup p.merged}
           IN ~registry[i].retired /\ old \in Loaded =>
                 IF old \in HandRows THEN others # {} \/ \E p \in now : p.src = old
                 ELSE \A p \in now : p.src \notin HandRows
<1> DEFINE old == registry[i].primary
           primaries == LivePrimaries
           others == {s \in SameKey(old) \cap primaries : s \in HandRows => s < old}
           now == {p \in Product : old \in {p.src} \cup p.merged}
<1> SUFFICES ASSUME ~registry[i].retired, old \in Loaded
             PROVE  IF old \in HandRows THEN others # {} \/ \E p \in now : p.src = old
                    ELSE \A p \in now : p.src \notin HandRows
  OBVIOUS
<1>1. old \in SameKey(old) /\ old \in primaries
  BY LoadedIsOfItsKey DEF LivePrimaries
<1>2. \A s \in SameKey(old) : s \in Nat /\ SameKey(s) = SameKey(old)
  BY OfOneKey, RowsAreNumbers
<1>3. Product = {[src |-> r, merged |-> Absorbs(r, primaries), key |-> KeyOf(r)] :
                   r \in Surviving(primaries)}
  BY DEF Product, ProductOf
<1> HIDE DEF old, primaries
<1>4. ASSUME old \in HandRows, others = {} PROVE \E p \in now : p.src = old
  <2>1. \A s \in SameKey(old) \cap primaries : s \in HandRows /\ old <= s
    BY <1>1, <1>2, <1>4
  <2>2. \A s \in SameKey(old) : HandHolds(s, primaries)
    BY <1>1, <1>2, <2>1 DEF HandHolds
  <2>3. \A s \in SameKey(old) :
            Yields(s, primaries) <=> s \notin SameKey(old) \cap primaries
    BY <1>2, <2>2, YieldsIs
  <2>4. ASSUME NEW s \in SameKey(old) PROVE Precedes(old, s, primaries)
    <3>1. ~Yields(old, primaries)
      BY <1>1, <2>3
    <3>2. CASE Yields(s, primaries)
      BY <3>1, <3>2 DEF Precedes
    <3>3. CASE ~Yields(s, primaries)
      <4>1. old <= s
        BY <2>1, <2>3, <3>3
      <4> QED BY <3>1, <3>3, <4>1 DEF Precedes
    <3> QED BY <3>2, <3>3
  <2>5. old \in Surviving(primaries)
    BY <2>4 DEF Surviving, IsFirst
  <2> DEFINE p == [src |-> old, merged |-> Absorbs(old, primaries), key |-> KeyOf(old)]
  <2>6. p \in Product /\ p.src = old
    BY <1>3, <2>5
  <2> QED BY <2>6
<1>5. ASSUME old \notin HandRows, NEW p \in now PROVE p.src \notin HandRows
  <2> SUFFICES ASSUME p.src \in HandRows PROVE FALSE
    OBVIOUS
  <2>1. PICK r \in Surviving(primaries) :
            p = [src |-> r, merged |-> Absorbs(r, primaries), key |-> KeyOf(r)]
    BY <1>3
  <2>2. r \in HandRows /\ old \in Absorbs(r, primaries)
    BY <1>5, <2>1
  <2>3. IsFirst(r, primaries) /\ old \in SameKey(r)
    BY <2>2 DEF Absorbs
  <2>4. SameKey(old) = SameKey(r)
    BY <2>3, OfOneKey
  <2>5. ~HandHolds(r, primaries) /\ ~HandHolds(old, primaries)
    BY <1>1, <1>5, <2>4 DEF HandHolds
  <2>6. Yields(r, primaries) /\ ~Yields(old, primaries)
    BY <1>5, <2>2, <2>5, YieldsIs
  <2>7. ~Precedes(r, old, primaries)
    BY <2>6 DEF Precedes
  <2> QED BY <2>3, <2>7 DEF IsFirst
<1> QED BY <1>4, <1>5

\* A record made by hand keeps its row as primary, and takes over no record another
\* source holds, whatever the admins rule and however many rows the hand has
\* (transform_sources.load, dedupe).
THEOREM HandRecordsAreAlwaysKept == FloraSpec => HandRecordIsKept
<1>1. RegInv /\ [FloraNext]_floraVars =>
        [Builds =>
          \A i \in DOMAIN registry :
              LET old == registry[i].primary
                  others == {s \in SameKey(old) \cap LivePrimaries : s \in HandRows => s < old}
                  now == {p \in Product : old \in {p.src} \cup p.merged}
              IN ~registry[i].retired /\ old \in Loaded =>
                    IF old \in HandRows THEN others # {} \/ \E p \in now : p.src = old
                    ELSE \A p \in now : p.src \notin HandRows]_floraVars
  BY HandRecordStays
<1> QED BY <1>1, RegistryInvariance, PTL DEF FloraSpec, HandRecordIsKept
==============================================================================
