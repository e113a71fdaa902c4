----------------------------- MODULE ListProofs ------------------------------
(***************************************************************************)
(* Facts about numbers, orders and lists that the other proofs share.  The *)
(* provers cannot instantiate an induction principle for predicates, so it *)
(* is stated for sets: what holds of 0, and of n + 1 if of n, holds of all.*)
(***************************************************************************)
EXTENDS Lists, SequencesExt, FiniteSetTheorems, SequenceTheorems,
        WellFoundedInduction, TLAPS

LEMMA SmallestMember ==
    ASSUME NEW T, T \subseteq Nat, T # {}
    PROVE  \E m \in T : \A n \in T : m <= n
<1> DEFINE less == {ss \in Nat \X Nat : ss[1] < ss[2]}
<1>1. OpToRel(<, Nat) = less
  BY Zenon DEF OpToRel
<1>2. IsWellFoundedOn(less, Nat)
  BY <1>1, NatLessThanWellFounded, Zenon
<1>3. PICK m \in T : \A n \in T : <<n, m>> \notin less
  BY <1>2, WFMin, Zenon
<1>4. ASSUME NEW n \in T PROVE m <= n
  <2>1. m \in Nat /\ n \in Nat
    OBVIOUS
  <2>2. n < m => <<n, m>> \in less
    BY <2>1
  <2> QED BY <1>3, <2>1, <2>2
<1> QED BY <1>4

LEMMA StepByStep ==
    ASSUME NEW T, NEW k \in Nat, 0 \in T, \A n \in 0 .. k - 1 : n \in T => n + 1 \in T
    PROVE  0 .. k \subseteq T
<1> SUFFICES ASSUME (0 .. k) \ T # {} PROVE FALSE
  OBVIOUS
<1>1. (0 .. k) \ T \subseteq Nat
  OBVIOUS
<1>2. PICK m \in (0 .. k) \ T : \A n \in (0 .. k) \ T : m <= n
  BY <1>1, SmallestMember, Zenon
<1>3. m # 0 /\ m - 1 \in 0 .. k - 1
  BY <1>2
<1>4. m - 1 \in T
  BY <1>2, <1>3
<1> QED BY <1>2, <1>3, <1>4

\* Of things ranked apart by three numbers, one is the first.
LEMMA OneIsBest ==
    ASSUME NEW C, C # {}, NEW a, NEW b, NEW c,
           \A i \in C : a[i] \in Nat /\ b[i] \in Nat /\ c[i] \in Nat,
           \A i, j \in C : c[i] = c[j] => i = j
    PROVE  \E i \in C : \A j \in C : \/ a[i] < a[j]
                                     \/ a[i] = a[j] /\ b[i] < b[j]
                                     \/ a[i] = a[j] /\ b[i] = b[j] /\ c[i] <= c[j]
<1>1. PICK x \in C : \A j \in C : a[x] <= a[j]
  <2> DEFINE T == {a[i] : i \in C}
  <2>1. T \subseteq Nat /\ T # {}
    OBVIOUS
  <2>2. PICK m \in T : \A n \in T : m <= n
    <3> HIDE DEF T
    <3> QED BY <2>1, SmallestMember
  <2> QED BY <2>2
<1>2. PICK y \in C : a[y] = a[x] /\ \A j \in C : a[j] = a[x] => b[y] <= b[j]
  <2> DEFINE T == {b[i] : i \in {j \in C : a[j] = a[x]}}
  <2>1. T \subseteq Nat /\ T # {}
    OBVIOUS
  <2>2. PICK m \in T : \A n \in T : m <= n
    <3> HIDE DEF T
    <3> QED BY <2>1, SmallestMember
  <2> QED BY <2>2
<1>3. PICK z \in C : /\ a[z] = a[x] /\ b[z] = b[y]
                     /\ \A j \in C : a[j] = a[x] /\ b[j] = b[y] => c[z] <= c[j]
  <2> DEFINE T == {c[i] : i \in {j \in C : a[j] = a[x] /\ b[j] = b[y]}}
  <2>1. T \subseteq Nat /\ T # {}
    BY <1>2
  <2>2. PICK m \in T : \A n \in T : m <= n
    <3> HIDE DEF T
    <3> QED BY <2>1, SmallestMember
  <2> QED BY <2>2
<1>4. ASSUME NEW j \in C
      PROVE  \/ a[z] < a[j]
             \/ a[z] = a[j] /\ b[z] < b[j]
             \/ a[z] = a[j] /\ b[z] = b[j] /\ c[z] <= c[j]
  <2>1. a[x] <= a[j] /\ (a[j] = a[x] => b[y] <= b[j])
    BY <1>1, <1>2
  <2>2. a[j] = a[x] /\ b[j] = b[y] => c[z] <= c[j]
    BY <1>3
  <2>3. a[x] \in Nat /\ a[j] \in Nat /\ b[y] \in Nat /\ b[j] \in Nat
    OBVIOUS
  <2> QED BY <1>3, <2>1, <2>2, <2>3
<1> QED BY <1>4

\* A set of numbers leaves one of 1 .. n + 1 out when it has n; the first that it leaves
\* out has all the others below it.
LEMMA FirstLeftOut ==
    ASSUME NEW T, IsFiniteSet(T), NEW k \in Nat, Cardinality(T) <= k
    PROVE  /\ \E n \in 1 .. k + 1 : n \notin T /\ 1 .. n - 1 \subseteq T
           /\ \A n \in Nat : 1 .. n - 1 \subseteq T => n <= k + 1
<1>1. Cardinality(T) \in Nat
  BY FS_CardinalityType
<1>2. ASSUME NEW n \in Nat, 1 .. n - 1 \subseteq T PROVE n <= k + 1
  <2>1. CASE n = 0
    BY <2>1
  <2>2. CASE n # 0
    <3>1. Cardinality(1 .. n - 1) = n - 1
      <4>1. 1 \in Int /\ n - 1 \in Int
        OBVIOUS
      <4>2. Cardinality(1 .. n - 1) = IF 1 > n - 1 THEN 0 ELSE (n - 1) - 1 + 1
        BY <4>1, FS_Interval
      <4> QED BY <2>2, <4>2
    <3>2. Cardinality(1 .. n - 1) <= Cardinality(T)
      BY <1>2, FS_Subset
    <3> QED BY <1>1, <3>1, <3>2
  <2> QED BY <2>1, <2>2
<1>3. PICK n \in 1 .. k + 1 : n \notin T
  <2> SUFFICES ASSUME 1 .. k + 1 \subseteq T PROVE FALSE
    OBVIOUS
  <2>1. k + 2 \in Nat /\ (k + 2) - 1 = k + 1
    OBVIOUS
  <2>2. k + 2 <= k + 1
    BY <1>2, <2>1
  <2> QED BY <2>2
<1> DEFINE U == {m \in 1 .. k + 1 : m \notin T}
<1>4. PICK m \in U : \A j \in U : m <= j
  <2>1. U \subseteq Nat /\ U # {}
    BY <1>3
  <2> HIDE DEF U
  <2> QED BY <2>1, SmallestMember
<1>5. 1 .. m - 1 \subseteq T
  BY <1>4
<1> QED BY <1>2, <1>4, <1>5

-----------------------------------------------------------------------------
(***************************************************************************)
(* Orders.                                                                 *)
(***************************************************************************)
\* In a total order, the members of a finite set have the ranks from 1 on.
IsOrder(S, R) ==
    \A p, q, r \in S :
        /\ <<p, p>> \in R
        /\ <<p, q>> \in R \/ <<q, p>> \in R
        /\ <<p, q>> \in R /\ <<q, p>> \in R => p = q
        /\ <<p, q>> \in R /\ <<q, r>> \in R => <<p, r>> \in R

Rank(S, R, p) == Cardinality({q \in S : <<q, p>> \in R})

LEMMA RanksAreTaken ==
    ASSUME NEW S, NEW R, IsFiniteSet(S), IsOrder(S, R)
    PROVE  /\ Cardinality(S) \in Nat
           /\ \A n \in 1 .. Cardinality(S) : \E p \in S : Rank(S, R, p) = n
<1> DEFINE Down(p) == {q \in S : <<q, p>> \in R}
           N == Cardinality(S)
           f == [p \in S |-> Cardinality(Down(p))]
<1>1. N \in Nat
  BY FS_CardinalityType
<1>2. ASSUME NEW p \in S
      PROVE  IsFiniteSet(Down(p)) /\ Cardinality(Down(p)) \in 1 .. N
  <2>1. IsFiniteSet(Down(p)) /\ Cardinality(Down(p)) <= N
    BY FS_Subset
  <2>2. p \in Down(p)
    BY DEF IsOrder
  <2>3. Cardinality(Down(p)) \in Nat /\ Cardinality(Down(p)) # 0
    BY <2>1, <2>2, FS_CardinalityType, FS_EmptySet
  <2> HIDE DEF Down
  <2> QED BY <1>1, <2>1, <2>3
<1>3. ASSUME NEW p \in S, NEW q \in S, p # q, <<p, q>> \in R
      PROVE  Cardinality(Down(p)) # Cardinality(Down(q))
  <2>1. Down(p) \subseteq Down(q)
    BY <1>3 DEF IsOrder
  <2>2. q \in Down(q) /\ q \notin Down(p)
    BY <1>3 DEF IsOrder
  <2>3. IsFiniteSet(Down(q))
    BY <1>2
  <2> HIDE DEF Down
  <2> QED BY <2>1, <2>2, <2>3, FS_Subset
<1>4. f \in [S -> 1 .. N] /\ \A p, q \in S : f[p] = f[q] => p = q
  <2>1. f \in [S -> 1 .. N]
    BY <1>2
  <2>2. \A p \in S : f[p] = Cardinality(Down(p))
    OBVIOUS
  <2>3. \A p, q \in S : p # q => <<p, q>> \in R \/ <<q, p>> \in R
    BY DEF IsOrder
  <2> HIDE DEF f, Down
  <2> QED BY <1>3, <2>1, <2>2, <2>3
<1>5. IsFiniteSet(1 .. N) /\ Cardinality(1 .. N) = N
  BY <1>1, FS_Interval
<1> HIDE DEF f
<1>6. f \in Injection(S, 1 .. N)
  BY <1>4 DEF Injection, IsInjective
<1>7. f \in Surjection(S, 1 .. N)
  BY <1>5, <1>6, FS_Injection
<1>8. \A n \in 1 .. N : \E p \in S : f[p] = n
  BY <1>7 DEF Surjection
<1> QED BY <1>1, <1>8 DEF f, Rank

-----------------------------------------------------------------------------
(***************************************************************************)
(* Lists.                                                                  *)
(***************************************************************************)
LEMMA ConcatenationIs ==
    ASSUME NEW S, NEW a \in Seq(S), NEW b \in Seq(S)
    PROVE  /\ Len(a \o b) = Len(a) + Len(b) /\ DOMAIN (a \o b) = 1 .. Len(a) + Len(b)
           /\ a \o b = [n \in 1 .. Len(a) + Len(b) |-> (a \o b)[n]]
           /\ \A i \in 1 .. Len(a) : (a \o b)[i] = a[i]
           /\ \A n \in 1 .. Len(b) : (a \o b)[Len(a) + n] = b[n]
<1> DEFINE c == a \o b
<1>1. c \in Seq(S) /\ Len(c) = Len(a) + Len(b)
  OBVIOUS
<1>2. Len(a) \in Nat /\ Len(b) \in Nat /\ DOMAIN c = 1 .. Len(a) + Len(b)
  BY <1>1
<1>3. \A i \in 1 .. Len(c) : c[i] = IF i <= Len(a) THEN a[i] ELSE b[i - Len(a)]
  BY ConcatProperties
<1>4. c = [n \in 1 .. Len(a) + Len(b) |-> c[n]]
  <2>1. \A f : f \in Seq(S) => f = [n \in 1 .. Len(f) |-> f[n]]
    OBVIOUS
  <2>2. c = [n \in 1 .. Len(c) |-> c[n]]
    <3> HIDE DEF c
    <3> QED BY <1>1, <2>1
  <2> HIDE DEF c
  <2> QED BY <1>1, <2>2
<1> HIDE DEF c
<1>5. \A i \in 1 .. Len(a) : c[i] = a[i]
  BY <1>1, <1>2, <1>3
<1>6. ASSUME NEW n \in 1 .. Len(b) PROVE c[Len(a) + n] = b[n]
  <2>1. Len(a) + n \in 1 .. Len(c) /\ ~(Len(a) + n <= Len(a)) /\ (Len(a) + n) - Len(a) = n
    BY <1>1, <1>2
  <2> QED BY <1>3, <2>1
<1> QED BY <1>1, <1>2, <1>4, <1>5, <1>6 DEF c

LEMMA AppendedMembers ==
    ASSUME NEW S, NEW q \in Seq(S), NEW e \in S
    PROVE  Append(q, e) \in Seq(S) /\ ToSet(Append(q, e)) = ToSet(q) \cup {e}
<1> DEFINE t == Append(q, e)
<1>1. t \in Seq(S) /\ DOMAIN t = (1 .. Len(q)) \cup {Len(q) + 1} /\ DOMAIN q = 1 .. Len(q)
  OBVIOUS
<1>2. t[Len(q) + 1] = e /\ \A i \in 1 .. Len(q) : t[i] = q[i]
  OBVIOUS
<1> HIDE DEF t
<1>3. {t[i] : i \in DOMAIN t} = {q[i] : i \in DOMAIN q} \cup {e}
  BY <1>1, <1>2
<1> QED BY <1>1, <1>3 DEF t, ToSet

NoRepeats(s) == \A i, j \in DOMAIN s : s[i] = s[j] => i = j

LEMMA AppendedOnce ==
    ASSUME NEW S, NEW q \in Seq(S), NEW e \in S, NoRepeats(q), e \notin ToSet(q)
    PROVE  NoRepeats(Append(q, e))
<1> DEFINE t == Append(q, e)
<1>1. DOMAIN t = (1 .. Len(q)) \cup {Len(q) + 1} /\ DOMAIN q = 1 .. Len(q)
  OBVIOUS
<1>2. t[Len(q) + 1] = e /\ \A i \in 1 .. Len(q) : t[i] = q[i]
  OBVIOUS
<1>3. \A i \in 1 .. Len(q) : q[i] # e
  BY <1>1 DEF ToSet
<1> HIDE DEF t
<1>4. NoRepeats(t)
  BY <1>1, <1>2, <1>3 DEF NoRepeats
<1> QED BY <1>4 DEF t

\* Which of two members of a list comes first.
AheadOf(s, x, y) == \E i, j \in DOMAIN s : i < j /\ s[i] = x /\ s[j] = y

LEMMA OneOrder ==
    ASSUME NEW S, NEW s \in Seq(S), NoRepeats(s)
    PROVE  /\ \A x, y : AheadOf(s, x, y) => x \in ToSet(s) /\ y \in ToSet(s) /\ ~AheadOf(s, y, x)
           /\ \A x \in ToSet(s), y \in ToSet(s) : x # y => AheadOf(s, x, y) \/ AheadOf(s, y, x)
<1>1. DOMAIN s = 1 .. Len(s) /\ Len(s) \in Nat /\ DOMAIN s \subseteq Int
  OBVIOUS
<1>2. ASSUME NEW x, NEW y, AheadOf(s, x, y)
      PROVE  x \in ToSet(s) /\ y \in ToSet(s) /\ ~AheadOf(s, y, x)
  BY <1>1, <1>2 DEF AheadOf, NoRepeats, ToSet
<1>3. ASSUME NEW x \in ToSet(s), NEW y \in ToSet(s), x # y
      PROVE  AheadOf(s, x, y) \/ AheadOf(s, y, x)
  <2>1. PICK i \in DOMAIN s, j \in DOMAIN s : s[i] = x /\ s[j] = y
    BY DEF ToSet
  <2>2. i < j \/ j < i
    BY <1>1, <1>3, <2>1
  <2> QED BY <2>1, <2>2 DEF AheadOf
<1> QED BY <1>2, <1>3

\* A deletion goes through the list from its first member to its last.
LEMMA WithoutOneByOne ==
    ASSUME NEW S, NEW s \in Seq(S), NEW gone
    PROVE  \E f : /\ Without(s, gone) = f[Len(s)] /\ f[0] = <<>>
                  /\ \A n \in 1 .. Len(s) :
                        f[n] = IF s[n] \in gone THEN f[n - 1] ELSE Append(f[n - 1], s[n])
<1> DEFINE Next1(q, n) == IF s[n] \in gone THEN q ELSE Append(q, s[n])
           Runs1(f, k) == f = [n \in 0 .. k |-> IF n = 0 THEN <<>> ELSE Next1(f[n - 1], n)]
           good == {k \in 0 .. Len(s) : \E f : Runs1(f, k)}
           rest == CHOOSE f : Runs1(f, Len(s))
<1>1. Without(s, gone) = rest[Len(s)]
  BY DEF Without
<1>2. 0 \in good
  <2> DEFINE f == [n \in 0 .. 0 |-> <<>>]
  <2>1. Runs1(f, 0)
    OBVIOUS
  <2> HIDE DEF f
  <2>2. \E h : Runs1(h, 0)
    BY <2>1
  <2> QED BY <2>2
<1>3. ASSUME NEW k \in 0 .. Len(s) - 1, k \in good PROVE k + 1 \in good
  <2>1. PICK f : Runs1(f, k)
    BY <1>3
  <2> DEFINE g == [n \in 0 .. k + 1 |-> IF n = k + 1 THEN Next1(f[k], n) ELSE f[n]]
  <2> HIDE DEF Next1
  <2>2. ASSUME NEW n \in 0 .. k + 1
        PROVE  g[n] = IF n = 0 THEN <<>> ELSE Next1(g[n - 1], n)
    <3>1. CASE n = k + 1
      BY <3>1
    <3>2. CASE n # k + 1
      <4>1. n \in 0 .. k /\ g[n] = f[n] /\ (n # 0 => g[n - 1] = f[n - 1])
        BY <3>2
      <4> QED BY <2>1, <4>1
    <3> QED BY <3>1, <3>2
  <2>3. Runs1(g, k + 1)
    BY <2>2
  <2> HIDE DEF g
  <2>4. \E h : Runs1(h, k + 1)
    BY <2>3
  <2> QED BY <2>4
<1>4. 0 .. Len(s) \subseteq good
  <2> HIDE DEF good
  <2> QED BY <1>2, <1>3, StepByStep
<1>5. Len(s) \in good
  BY <1>4
<1>6. Runs1(rest, Len(s))
  BY <1>5
<1>7. rest[0] = <<>> /\ \A n \in 1 .. Len(s) : rest[n] = Next1(rest[n - 1], n)
  <2> HIDE DEF rest, Next1
  <2>1. \A n \in 0 .. Len(s) : rest[n] = IF n = 0 THEN <<>> ELSE Next1(rest[n - 1], n)
    BY <1>6
  <2> QED BY <2>1
<1> HIDE DEF rest
<1> QED BY <1>1, <1>7

\* What a deletion leaves of a list: what is not deleted, and nothing else.
LEMMA WithoutIsTheRest ==
    ASSUME NEW S, NEW s \in Seq(S), NEW gone
    PROVE  /\ Without(s, gone) \in Seq(S)
           /\ ToSet(Without(s, gone)) = ToSet(s) \ gone
           /\ Len(Without(s, gone)) <= Len(s)
           /\ (NoRepeats(s) => NoRepeats(Without(s, gone)))
<1>1. PICK f : /\ Without(s, gone) = f[Len(s)] /\ f[0] = <<>>
               /\ \A n \in 1 .. Len(s) :
                     f[n] = IF s[n] \in gone THEN f[n - 1] ELSE Append(f[n - 1], s[n])
  BY WithoutOneByOne
<1> DEFINE Right(n) == /\ f[n] \in Seq(S) /\ ToSet(f[n]) = {s[i] : i \in 1 .. n} \ gone
                       /\ Len(f[n]) <= n
                       /\ (NoRepeats(s) => NoRepeats(f[n]))
           good == {k \in 0 .. Len(s) : Right(k)}
<1>2. 0 \in good
  <2>0. /\ {s[i] : i \in 1 .. 0} = {} /\ ToSet(<<>>) = {} /\ <<>> \in Seq(S)
        /\ Len(<<>>) = 0 /\ NoRepeats(<<>>)
    BY DEF ToSet, NoRepeats
  <2>1. f[0] \in Seq(S) /\ ToSet(f[0]) = {} /\ Len(f[0]) = 0 /\ NoRepeats(f[0])
    BY <1>1, <2>0
  <2>2. Right(0)
    BY <2>0, <2>1
  <2>3. 0 \in 0 .. Len(s)
    OBVIOUS
  <2> QED BY <2>2, <2>3
<1>3. ASSUME NEW k \in 0 .. Len(s) - 1, k \in good PROVE k + 1 \in good
  <2> DEFINE old == f[k]
             before == {s[i] : i \in 1 .. k}
  <2>1. k + 1 \in 1 .. Len(s) /\ (k + 1) - 1 = k /\ s[k + 1] \in S
    OBVIOUS
  <2>2. f[k + 1] = IF s[k + 1] \in gone THEN old ELSE Append(old, s[k + 1])
    BY <1>1, <2>1
  <2>3. {s[i] : i \in 1 .. k + 1} = before \cup {s[k + 1]}
    <3>1. 1 .. k + 1 = (1 .. k) \cup {k + 1}
      OBVIOUS
    <3> QED BY <3>1
  <2>4. /\ old \in Seq(S) /\ ToSet(old) = before \ gone /\ Len(old) <= k /\ Len(old) \in Nat
        /\ (NoRepeats(s) => NoRepeats(old))
    BY <1>3
  <2>5. CASE s[k + 1] \in gone
    <3>1. f[k + 1] = old
      BY <2>2, <2>5
    <3>2. Len(old) <= k + 1 /\ (before \cup {s[k + 1]}) \ gone = before \ gone
      BY <2>4, <2>5
    <3> HIDE DEF old, before
    <3>3. Right(k + 1)
      BY <2>3, <2>4, <3>1, <3>2
    <3> QED BY <2>1, <3>3
  <2>6. CASE s[k + 1] \notin gone
    <3>1. f[k + 1] = Append(old, s[k + 1])
      BY <2>2, <2>6
    <3>2. NoRepeats(s) => s[k + 1] \notin before
      <4>1. \A i \in 1 .. k : NoRepeats(s) => s[i] # s[k + 1]
        BY DEF NoRepeats
      <4> QED BY <4>1
    <3> HIDE DEF old, before
    <3>3. /\ Append(old, s[k + 1]) \in Seq(S) /\ Len(Append(old, s[k + 1])) <= k + 1
          /\ ToSet(Append(old, s[k + 1])) = ToSet(old) \cup {s[k + 1]}
      BY <2>1, <2>4, AppendedMembers
    <3>4. (before \cup {s[k + 1]}) \ gone = (before \ gone) \cup {s[k + 1]}
      BY <2>6
    <3>5. ASSUME NoRepeats(s) PROVE NoRepeats(Append(old, s[k + 1]))
      <4>1. s[k + 1] \notin ToSet(old)
        BY <2>4, <3>2, <3>5
      <4> QED BY <2>1, <2>4, <3>5, <4>1, AppendedOnce
    <3>6. Right(k + 1)
      BY <2>3, <2>4, <3>1, <3>3, <3>4, <3>5
    <3> QED BY <2>1, <3>6
  <2> QED BY <2>5, <2>6
<1>4. Len(s) \in good
  <2> HIDE DEF good
  <2>1. 0 .. Len(s) \subseteq good
    BY <1>2, <1>3, StepByStep
  <2> QED BY <2>1
<1>5. ToSet(s) = {s[i] : i \in 1 .. Len(s)}
  <2>1. DOMAIN s = 1 .. Len(s)
    OBVIOUS
  <2> QED BY <2>1 DEF ToSet
<1>6. Right(Len(s))
  BY <1>4
<1> QED BY <1>1, <1>5, <1>6

\* ... in the order it had.
LEMMA RestInOrder ==
    ASSUME NEW S, NEW s \in Seq(S), NEW gone, NEW x, NEW y, AheadOf(Without(s, gone), x, y)
    PROVE  AheadOf(s, x, y)
<1>1. PICK f : /\ Without(s, gone) = f[Len(s)] /\ f[0] = <<>>
               /\ \A n \in 1 .. Len(s) :
                     f[n] = IF s[n] \in gone THEN f[n - 1] ELSE Append(f[n - 1], s[n])
  BY WithoutOneByOne
<1> DEFINE Right(n) ==
              /\ f[n] \in Seq(S)
              /\ \A i \in DOMAIN f[n] : \E a \in 1 .. n : s[a] = f[n][i]
              /\ \A i, j \in DOMAIN f[n] :
                    i < j => \E a, b \in 1 .. n : a < b /\ s[a] = f[n][i] /\ s[b] = f[n][j]
           good == {k \in 0 .. Len(s) : Right(k)}
<1>2. 0 \in good
  <2>1. f[0] \in Seq(S) /\ DOMAIN f[0] = {}
    BY <1>1
  <2>2. Right(0)
    BY <2>1
  <2>3. 0 \in 0 .. Len(s)
    OBVIOUS
  <2> QED BY <2>2, <2>3
<1>3. ASSUME NEW k \in 0 .. Len(s) - 1, k \in good PROVE k + 1 \in good
  <2> DEFINE old == f[k]
  <2>1. k + 1 \in 1 .. Len(s) /\ (k + 1) - 1 = k /\ s[k + 1] \in S
    OBVIOUS
  <2>2. f[k + 1] = IF s[k + 1] \in gone THEN old ELSE Append(old, s[k + 1])
    BY <1>1, <2>1
  <2>3. /\ old \in Seq(S) /\ Len(old) \in Nat /\ DOMAIN old = 1 .. Len(old)
        /\ \A i \in DOMAIN old : \E a \in 1 .. k : s[a] = old[i]
        /\ \A i, j \in DOMAIN old :
              i < j => \E a, b \in 1 .. k : a < b /\ s[a] = old[i] /\ s[b] = old[j]
    BY <1>3
  <2>4. 1 .. k \subseteq 1 .. k + 1 /\ k + 1 \in 1 .. k + 1 /\ \A a \in 1 .. k : a < k + 1
    OBVIOUS
  <2> HIDE DEF old
  <2>5. CASE s[k + 1] \in gone
    <3>1. f[k + 1] = old
      BY <2>2, <2>5
    <3>2. \A i \in DOMAIN old : \E a \in 1 .. k + 1 : s[a] = old[i]
      BY <2>3, <2>4
    <3>3. \A i, j \in DOMAIN old :
             i < j => \E a, b \in 1 .. k + 1 : a < b /\ s[a] = old[i] /\ s[b] = old[j]
      BY <2>3, <2>4
    <3>4. Right(k + 1)
      BY <2>3, <3>1, <3>2, <3>3
    <3> QED BY <2>1, <3>4
  <2>6. CASE s[k + 1] \notin gone
    <3> DEFINE new == Append(old, s[k + 1])
    <3>1. f[k + 1] = new
      BY <2>2, <2>6
    <3>2. /\ new \in Seq(S) /\ DOMAIN new = (1 .. Len(old)) \cup {Len(old) + 1}
          /\ new[Len(old) + 1] = s[k + 1] /\ \A i \in 1 .. Len(old) : new[i] = old[i]
      BY <2>1, <2>3
    <3> HIDE DEF new
    <3>3. ASSUME NEW i \in DOMAIN new PROVE \E a \in 1 .. k + 1 : s[a] = new[i]
      <4>1. CASE i = Len(old) + 1
        BY <2>4, <3>2, <4>1
      <4>2. CASE i \in 1 .. Len(old)
        <5>1. i \in DOMAIN old /\ new[i] = old[i]
          BY <2>3, <3>2, <4>2
        <5> QED BY <2>3, <2>4, <5>1
      <4> QED BY <3>2, <4>1, <4>2
    <3>4. ASSUME NEW i \in DOMAIN new, NEW j \in DOMAIN new, i < j
          PROVE  \E a, b \in 1 .. k + 1 : a < b /\ s[a] = new[i] /\ s[b] = new[j]
      <4>1. i \in 1 .. Len(old)
        BY <2>3, <3>2, <3>4
      <4>2. CASE j = Len(old) + 1
        BY <2>3, <2>4, <3>2, <4>1, <4>2
      <4>3. CASE j \in 1 .. Len(old)
        <5>1. PICK a \in 1 .. k, b \in 1 .. k : a < b /\ s[a] = old[i] /\ s[b] = old[j]
          BY <2>3, <3>4, <4>1, <4>3
        <5> QED BY <2>4, <3>2, <4>1, <4>3, <5>1
      <4> QED BY <3>2, <4>2, <4>3
    <3>5. Right(k + 1)
      BY <3>1, <3>2, <3>3, <3>4
    <3> QED BY <2>1, <3>5
  <2> QED BY <2>5, <2>6
<1>4. Len(s) \in good
  <2> HIDE DEF good
  <2>1. 0 .. Len(s) \subseteq good
    BY <1>2, <1>3, StepByStep
  <2> QED BY <2>1
<1> DEFINE last == f[Len(s)]
<1>5. \A i, j \in DOMAIN last :
         i < j => \E a, b \in 1 .. Len(s) : a < b /\ s[a] = last[i] /\ s[b] = last[j]
  BY <1>4
<1>6. DOMAIN s = 1 .. Len(s) /\ Without(s, gone) = last
  BY <1>1
<1> HIDE DEF last
<1> QED BY <1>5, <1>6 DEF AheadOf

\* What taking the last of a list leaves.
LEMMA AllButTheLast ==
    ASSUME NEW S, NEW s \in Seq(S), s # <<>>, NoRepeats(s)
    PROVE  /\ Front(s) \in Seq(S) /\ Len(Front(s)) <= Len(s) /\ NoRepeats(Front(s))
           /\ Last(s) \in S /\ Last(s) \in ToSet(s) /\ ToSet(Front(s)) = ToSet(s) \ {Last(s)}
<1> DEFINE n == Len(s)
<1>1. n \in Nat \ {0} /\ Last(s) = s[n] /\ s[n] \in S /\ \A i \in 1 .. n : s[i] \in S
  BY DEF Last
<1> DEFINE f == SubSeq(s, 1, n - 1)
<1>2. f = Front(s)
  BY DEF Front
<1> HIDE DEF n
<1>3. f \in Seq(S) /\ Len(f) = n - 1 /\ \A i \in 1 .. n - 1 : f[i] = s[i]
  <2>1. 1 \in Int /\ n - 1 \in Int /\ \A i \in 1 .. n - 1 : s[i] \in S
    BY <1>1
  <2>2. /\ f \in Seq(S) /\ Len(f) = IF 1 <= n - 1 THEN (n - 1) - 1 + 1 ELSE 0
        /\ \A i \in 1 .. (n - 1) - 1 + 1 : f[i] = s[1 + i - 1]
    <3> HIDE DEF f
    <3> QED BY <2>1, SubSeqProperties DEF f
  <2> HIDE DEF f
  <2> QED BY <1>1, <2>2
<1>4. DOMAIN s = 1 .. n
  BY DEF n
<1>5. DOMAIN f = 1 .. n - 1
  BY <1>3
<1>6. 1 .. n = (1 .. n - 1) \cup {n}
  BY <1>1
<1> HIDE DEF f
<1>7. NoRepeats(f) /\ ToSet(f) = ToSet(s) \ {s[n]} /\ s[n] \in ToSet(s)
  BY <1>1, <1>3, <1>4, <1>5, <1>6 DEF NoRepeats, ToSet
<1>8. Len(f) <= Len(s)
  BY <1>1, <1>3 DEF n
<1> QED BY <1>1, <1>2, <1>3, <1>7, <1>8

\* What two lists make one after the other.
LEMMA JoinedMembers ==
    ASSUME NEW S, NEW a \in Seq(S), NEW b \in Seq(S)
    PROVE  /\ a \o b \in Seq(S) /\ ToSet(a \o b) = ToSet(a) \cup ToSet(b)
           /\ (NoRepeats(a) /\ NoRepeats(b) /\ ToSet(a) \cap ToSet(b) = {} => NoRepeats(a \o b))
<1> DEFINE c == a \o b
           m == Len(a)
           k == Len(b)
<1>1. m \in Nat /\ k \in Nat /\ DOMAIN a = 1 .. m /\ DOMAIN b = 1 .. k
  OBVIOUS
<1>2. /\ DOMAIN c = 1 .. m + k
      /\ \A i \in 1 .. m : c[i] = a[i]
      /\ \A n \in 1 .. k : c[m + n] = b[n]
  BY ConcatenationIs
<1>3. c \in Seq(S)
  OBVIOUS
<1> HIDE DEF c, m, k
<1>4. \A i \in 1 .. m + k : i \notin 1 .. m => i - m \in 1 .. k /\ i = m + (i - m)
  BY <1>1
<1>5. (1 .. m) \subseteq 1 .. m + k /\ \A n \in 1 .. k : m + n \in 1 .. m + k
  BY <1>1
<1>6. \A i \in 1 .. m + k : c[i] = IF i \in 1 .. m THEN a[i] ELSE b[i - m]
  BY <1>2, <1>4
<1>7. ToSet(c) = ToSet(a) \cup ToSet(b)
  <2>1. \A i \in 1 .. m + k : c[i] \in ToSet(a) \cup ToSet(b)
    BY <1>1, <1>4, <1>6 DEF ToSet
  <2>2. \A i \in 1 .. m : a[i] \in ToSet(c)
    BY <1>2, <1>5 DEF ToSet
  <2>3. \A n \in 1 .. k : b[n] \in ToSet(c)
    BY <1>2, <1>5 DEF ToSet
  <2> QED BY <1>1, <1>2, <2>1, <2>2, <2>3 DEF ToSet
<1>8. ASSUME NoRepeats(a), NoRepeats(b), ToSet(a) \cap ToSet(b) = {} PROVE NoRepeats(c)
  <2> SUFFICES ASSUME NEW i \in 1 .. m + k, NEW j \in 1 .. m + k, c[i] = c[j] PROVE i = j
    BY <1>2 DEF NoRepeats
  <2>1. /\ i \in 1 .. m => c[i] = a[i] /\ a[i] \in ToSet(a)
        /\ j \in 1 .. m => c[j] = a[j] /\ a[j] \in ToSet(a)
        /\ i \notin 1 .. m => c[i] = b[i - m] /\ b[i - m] \in ToSet(b)
        /\ j \notin 1 .. m => c[j] = b[j - m] /\ b[j - m] \in ToSet(b)
    BY <1>1, <1>4, <1>6 DEF ToSet
  <2>2. CASE i \in 1 .. m /\ j \in 1 .. m
    BY <1>1, <1>8, <2>1, <2>2 DEF NoRepeats
  <2>3. CASE i \notin 1 .. m /\ j \notin 1 .. m
    <3>1. i - m = j - m
      BY <1>1, <1>4, <1>8, <2>1, <2>3 DEF NoRepeats
    <3> QED BY <1>1, <3>1
  <2>4. i \in 1 .. m <=> j \in 1 .. m
    BY <1>8, <2>1
  <2> QED BY <2>2, <2>3, <2>4
<1> QED BY <1>3, <1>7, <1>8 DEF c

LEMMA JoinedOrder ==
    ASSUME NEW S, NEW a \in Seq(S), NEW b \in Seq(S), NEW x, NEW y
    PROVE  AheadOf(a \o b, x, y) <=> \/ AheadOf(a, x, y) \/ AheadOf(b, x, y)
                                     \/ x \in ToSet(a) /\ y \in ToSet(b)
<1> DEFINE c == a \o b
           m == Len(a)
           k == Len(b)
<1>1. m \in Nat /\ k \in Nat /\ DOMAIN a = 1 .. m /\ DOMAIN b = 1 .. k
  OBVIOUS
<1>2. /\ DOMAIN c = 1 .. m + k
      /\ \A i \in 1 .. m : c[i] = a[i]
      /\ \A n \in 1 .. k : c[m + n] = b[n]
  BY ConcatenationIs
<1> HIDE DEF c, m, k
<1>3. \A i \in 1 .. m + k : i \notin 1 .. m => i - m \in 1 .. k /\ i = m + (i - m)
  BY <1>1
<1>4. (1 .. m) \subseteq 1 .. m + k /\ \A n \in 1 .. k : m + n \in 1 .. m + k
  BY <1>1
<1>5. ASSUME AheadOf(c, x, y)
      PROVE  \/ AheadOf(a, x, y) \/ AheadOf(b, x, y)
             \/ x \in ToSet(a) /\ y \in ToSet(b)
  <2>1. PICK i \in 1 .. m + k, j \in 1 .. m + k : i < j /\ c[i] = x /\ c[j] = y
    BY <1>2, <1>5 DEF AheadOf
  <2>2. CASE i \in 1 .. m /\ j \in 1 .. m
    <3>1. a[i] = x /\ a[j] = y
      BY <1>2, <2>1, <2>2
    <3>2. i \in DOMAIN a /\ j \in DOMAIN a
      BY <1>1, <2>2
    <3>3. AheadOf(a, x, y)
      BY <2>1, <3>1, <3>2, Zenon DEF AheadOf
    <3> QED BY <3>3, Zenon
  <2>3. CASE i \in 1 .. m /\ j \notin 1 .. m
    BY <1>1, <1>2, <1>3, <2>1, <2>3 DEF ToSet
  <2>4. CASE i \notin 1 .. m
    <3>1. j \notin 1 .. m /\ i - m < j - m
      BY <1>1, <2>1, <2>4
    <3>2. /\ i - m \in 1 .. k /\ i = m + (i - m)
          /\ j - m \in 1 .. k /\ j = m + (j - m)
      BY <1>3, <2>4, <3>1
    <3>3. PICK g \in 1 .. k, h \in 1 .. k : g < h /\ i = m + g /\ j = m + h
      BY <3>1, <3>2
    <3>4. b[g] = x /\ b[h] = y
      BY <1>2, <2>1, <3>3
    <3>5. g \in DOMAIN b /\ h \in DOMAIN b
      BY <1>1, <3>3
    <3>6. AheadOf(b, x, y)
      BY <3>3, <3>4, <3>5, Zenon DEF AheadOf
    <3> QED BY <3>6
  <2> QED BY <2>2, <2>3, <2>4
<1>6. ASSUME AheadOf(a, x, y) PROVE AheadOf(c, x, y)
  BY <1>1, <1>2, <1>4, <1>6 DEF AheadOf
<1>7. ASSUME AheadOf(b, x, y) PROVE AheadOf(c, x, y)
  <2>1. PICK i \in 1 .. k, j \in 1 .. k : i < j /\ b[i] = x /\ b[j] = y
    BY <1>1, <1>7 DEF AheadOf
  <2>2. m + i \in 1 .. m + k /\ m + j \in 1 .. m + k /\ m + i < m + j
    BY <1>1, <2>1
  <2> QED BY <1>2, <2>1, <2>2 DEF AheadOf
<1>8. ASSUME x \in ToSet(a), y \in ToSet(b) PROVE AheadOf(c, x, y)
  <2>1. PICK i \in 1 .. m, j \in 1 .. k : a[i] = x /\ b[j] = y
    BY <1>1, <1>8 DEF ToSet
  <2>2. i \in 1 .. m + k /\ m + j \in 1 .. m + k /\ i < m + j
    BY <1>1, <2>1
  <2> QED BY <1>2, <2>1, <2>2 DEF AheadOf
<1> QED BY <1>5, <1>6, <1>7, <1>8 DEF c

\* Lists are put together from the first to the last.
LEMMA FlattenedOneByOne ==
    ASSUME NEW S, NEW ss \in Seq(Seq(S)), ss # <<>>
    PROVE  \E f : /\ FlattenSeq(ss) = f[Len(ss)] /\ f[1] = ss[1]
                  /\ \A n \in 2 .. Len(ss) : f[n] = f[n - 1] \o ss[n]
<1> DEFINE Next1(q, n) == IF n = 1 THEN ss[n] ELSE q \o ss[n]
           Runs1(f, k) == f = [n \in 1 .. k |-> Next1(f[n - 1], n)]
           good == {k \in 0 .. Len(ss) : \E f : Runs1(f, k)}
           whole == CHOOSE f : Runs1(f, Len(ss))
           N == Len(ss)
<1>0. N \in Nat \ {0} /\ DOMAIN ss = 1 .. N
  OBVIOUS
<1>1. FlattenSeq(ss) = whole[N]
  BY <1>0 DEF FlattenSeq
<1>2. 0 \in good
  <2> DEFINE g == [n \in 1 .. 0 |-> <<>>]
  <2>1. g = [n \in 1 .. 0 |-> Next1(g[n - 1], n)]
    OBVIOUS
  <2> HIDE DEF g
  <2>2. \E f : Runs1(f, 0)
    BY <2>1
  <2>3. 0 \in 0 .. N
    BY <1>0
  <2> HIDE DEF Runs1
  <2> QED BY <2>2, <2>3
<1>3. ASSUME NEW k \in 0 .. N - 1, k \in good PROVE k + 1 \in good
  <2>1. k + 1 \in 0 .. N
    BY <1>0
  <2>2. PICK f : Runs1(f, k)
    BY <1>3
  <2> DEFINE g == [n \in 1 .. k + 1 |-> IF n = k + 1 THEN Next1(f[k], n) ELSE f[n]]
  <2>3. \A n \in 1 .. k : f[n] = Next1(f[n - 1], n)
    BY <2>2
  <2>4. ASSUME NEW n \in 1 .. k + 1 PROVE g[n] = Next1(g[n - 1], n)
    <3>1. CASE n = 1
      BY <2>3, <3>1
    <3>2. CASE n # 1
      <4>1. n - 1 \in 1 .. k /\ g[n - 1] = f[n - 1]
        BY <3>2
      <4> HIDE DEF Next1
      <4>2. CASE n = k + 1
        <5>1. n - 1 = k /\ g[n] = Next1(f[k], n)
          BY <4>2
        <5> QED BY <4>1, <5>1
      <4>3. CASE n # k + 1
        <5>1. n \in 1 .. k /\ g[n] = f[n]
          BY <4>3
        <5> QED BY <2>3, <4>1, <5>1
      <4> QED BY <4>2, <4>3
    <3> QED BY <3>1, <3>2
  <2>5. Runs1(g, k + 1)
    <3> HIDE DEF Next1
    <3> QED BY <2>4
  <2> HIDE DEF g
  <2>6. \E h : Runs1(h, k + 1)
    BY <2>5
  <2> QED BY <2>1, <2>6
<1>4. N \in good
  <2> HIDE DEF good
  <2>1. 0 .. N \subseteq good
    BY <1>0, <1>2, <1>3, StepByStep
  <2> QED BY <1>0, <2>1
<1>5. Runs1(whole, N)
  BY <1>4
<1>6. \A n \in 1 .. N : whole[n] = Next1(whole[n - 1], n)
  <2> HIDE DEF whole, Next1
  <2> QED BY <1>5
<1>7. whole[1] = ss[1] /\ \A n \in 2 .. N : whole[n] = whole[n - 1] \o ss[n]
  <2> HIDE DEF whole
  <2>1. ASSUME NEW n \in 2 .. N PROVE whole[n] = whole[n - 1] \o ss[n]
    <3>1. n \in 1 .. N /\ n # 1
      BY <1>0
    <3> QED BY <1>6, <3>1
  <2>2. whole[1] = ss[1]
    BY <1>0, <1>6
  <2> QED BY <2>1, <2>2
<1> HIDE DEF whole
<1> QED BY <1>1, <1>7

LEMMA FlattenedMembers ==
    ASSUME NEW S, NEW ss \in Seq(Seq(S))
    PROVE  /\ FlattenSeq(ss) \in Seq(S)
           /\ ToSet(FlattenSeq(ss)) = UNION {ToSet(ss[i]) : i \in DOMAIN ss}
           /\ ((\A i \in DOMAIN ss : NoRepeats(ss[i]))
               /\ (\A i, j \in DOMAIN ss : i # j => ToSet(ss[i]) \cap ToSet(ss[j]) = {})
                   => NoRepeats(FlattenSeq(ss)))
<1>1. CASE ss = <<>>
  <2>1. FlattenSeq(ss) = <<>>
    BY <1>1 DEF FlattenSeq
  <2>2. ToSet(<<>>) = {} /\ NoRepeats(<<>>) /\ <<>> \in Seq(S)
    BY DEF ToSet, NoRepeats
  <2>3. UNION {ToSet(ss[i]) : i \in DOMAIN ss} = {}
    BY <1>1
  <2> QED BY <2>1, <2>2, <2>3
<1>2. CASE ss # <<>>
  <2> DEFINE N == Len(ss)
             Upto(n) == UNION {ToSet(ss[i]) : i \in 1 .. n}
             Apart == /\ \A i \in DOMAIN ss : NoRepeats(ss[i])
                      /\ \A i, j \in DOMAIN ss : i # j => ToSet(ss[i]) \cap ToSet(ss[j]) = {}
  <2>1. PICK f : /\ FlattenSeq(ss) = f[N] /\ f[1] = ss[1]
                 /\ \A n \in 2 .. N : f[n] = f[n - 1] \o ss[n]
    BY <1>2, FlattenedOneByOne
  <2> DEFINE Right(n) == /\ f[n] \in Seq(S) /\ ToSet(f[n]) = Upto(n)
                         /\ (Apart => NoRepeats(f[n]))
             good == {k \in 0 .. N : k = 0 \/ Right(k)}
  <2>2. N \in Nat \ {0} /\ DOMAIN ss = 1 .. N /\ \A i \in 1 .. N : ss[i] \in Seq(S)
    BY <1>2
  <2>3. 0 \in good
    BY <2>2
  <2>4. ASSUME NEW k \in 0 .. N - 1, k \in good PROVE k + 1 \in good
    <3>1. k + 1 \in 1 .. N /\ k + 1 \in 0 .. N
      BY <2>2
    <3>2. Upto(k + 1) = Upto(k) \cup ToSet(ss[k + 1])
      <4>1. 1 .. k + 1 = (1 .. k) \cup {k + 1}
        OBVIOUS
      <4> QED BY <4>1
    <3>3. CASE k = 0
      <4>1. Upto(k + 1) = ToSet(ss[1]) /\ f[k + 1] = ss[1]
        BY <2>1, <3>3
      <4>2. ss[1] \in Seq(S) /\ (Apart => NoRepeats(ss[1]))
        BY <2>2
      <4>3. Right(k + 1)
        <5> HIDE DEF Upto, Apart
        <5> QED BY <4>1, <4>2
      <4> HIDE DEF Right
      <4> QED BY <3>1, <4>3
    <3>4. CASE k # 0
      <4> DEFINE old == f[k]
      <4>1. k + 1 \in 2 .. N /\ (k + 1) - 1 = k
        BY <2>2, <3>4
      <4>2. f[k + 1] = old \o ss[k + 1]
        BY <2>1, <4>1
      <4>3. /\ old \in Seq(S) /\ ToSet(old) = Upto(k) /\ (Apart => NoRepeats(old))
            /\ ss[k + 1] \in Seq(S)
        BY <2>2, <2>4, <3>1, <3>4
      <4>4. Apart => NoRepeats(ss[k + 1]) /\ Upto(k) \cap ToSet(ss[k + 1]) = {}
        <5>1. ASSUME Apart, NEW i \in 1 .. k PROVE ToSet(ss[i]) \cap ToSet(ss[k + 1]) = {}
          <6>1. i \in 1 .. N /\ i # k + 1
            BY <2>2
          <6> QED BY <2>2, <3>1, <5>1, <6>1
        <5> QED BY <2>2, <3>1, <5>1
      <4> HIDE DEF old, Upto, Apart
      <4>5. /\ old \o ss[k + 1] \in Seq(S)
            /\ ToSet(old \o ss[k + 1]) = ToSet(old) \cup ToSet(ss[k + 1])
            /\ (NoRepeats(old) /\ NoRepeats(ss[k + 1]) /\ ToSet(old) \cap ToSet(ss[k + 1]) = {}
                  => NoRepeats(old \o ss[k + 1]))
        BY <4>3, JoinedMembers
      <4>6. Right(k + 1)
        BY <3>2, <4>2, <4>3, <4>4, <4>5
      <4> HIDE DEF Right
      <4> QED BY <3>1, <4>6
    <3> QED BY <3>3, <3>4
  <2>5. N \in good
    <3> HIDE DEF good, N
    <3>1. 0 .. N \subseteq good
      BY <2>2, <2>3, <2>4, StepByStep
    <3> QED BY <2>2, <3>1
  <2>6. Right(N)
    <3> HIDE DEF Right
    <3> QED BY <2>2, <2>5
  <2> QED BY <2>1, <2>2, <2>6
<1> QED BY <1>1, <1>2

LEMMA FlattenedOrder ==
    ASSUME NEW S, NEW ss \in Seq(Seq(S)), NEW a \in DOMAIN ss, NEW b \in DOMAIN ss, a < b,
           NEW x \in ToSet(ss[a]), NEW y \in ToSet(ss[b])
    PROVE  AheadOf(FlattenSeq(ss), x, y)
<1> DEFINE N == Len(ss)
<1>1. ss # <<>> /\ N \in Nat \ {0} /\ DOMAIN ss = 1 .. N /\ \A i \in 1 .. N : ss[i] \in Seq(S)
  OBVIOUS
<1>2. PICK f : /\ FlattenSeq(ss) = f[N] /\ f[1] = ss[1]
               /\ \A n \in 2 .. N : f[n] = f[n - 1] \o ss[n]
  BY <1>1, FlattenedOneByOne
<1> DEFINE Right(n) == /\ f[n] \in Seq(S)
                       /\ (a <= n => x \in ToSet(f[n]))
                       /\ (b <= n => AheadOf(f[n], x, y))
           good == {k \in 0 .. N : k = 0 \/ Right(k)}
<1>3. 0 \in good
  BY <1>1
<1>4. ASSUME NEW k \in 0 .. N - 1, k \in good PROVE k + 1 \in good
  <2>1. k + 1 \in 1 .. N /\ k + 1 \in 0 .. N /\ a \in 1 .. N /\ b \in 1 .. N
    BY <1>1
  <2>2. CASE k = 0
    <3>1. f[1] \in Seq(S) /\ (a <= 1 => a = 1) /\ ~(b <= 1)
      BY <1>1, <1>2, <2>1
    <3>2. Right(1)
      BY <1>2, <3>1
    <3> QED BY <2>1, <2>2, <3>2
  <2>3. CASE k # 0
    <3> DEFINE old == f[k]
               new == ss[k + 1]
    <3>1. k + 1 \in 2 .. N /\ (k + 1) - 1 = k
      BY <1>1, <2>3
    <3>2. f[k + 1] = old \o new
      BY <1>2, <3>1
    <3>3. /\ old \in Seq(S) /\ (a <= k => x \in ToSet(old)) /\ (b <= k => AheadOf(old, x, y))
          /\ new \in Seq(S)
      BY <1>1, <1>4, <2>1, <2>3
    <3>4. /\ (a <= k + 1 => a <= k \/ x \in ToSet(new))
          /\ (b <= k + 1 => b <= k \/ (a <= k /\ y \in ToSet(new)))
      BY <2>1
    <3> HIDE DEF old, new
    <3>5. old \o new \in Seq(S) /\ ToSet(old \o new) = ToSet(old) \cup ToSet(new)
      BY <3>3, JoinedMembers
    <3>6. AheadOf(old \o new, x, y) <=> \/ AheadOf(old, x, y) \/ AheadOf(new, x, y)
                                        \/ x \in ToSet(old) /\ y \in ToSet(new)
      BY <3>3, JoinedOrder
    <3>7. Right(k + 1)
      BY <3>2, <3>3, <3>4, <3>5, <3>6
    <3> HIDE DEF Right
    <3> QED BY <2>1, <3>7
  <2> QED BY <2>2, <2>3
<1>5. N \in good
  <2> HIDE DEF good, N
  <2>1. 0 .. N \subseteq good
    BY <1>1, <1>3, <1>4, StepByStep
  <2> QED BY <1>1, <2>1
<1>6. Right(N)
  <2> HIDE DEF Right
  <2> QED BY <1>1, <1>5
<1>7. b <= N
  BY <1>1
<1> QED BY <1>2, <1>6, <1>7

-----------------------------------------------------------------------------
(***************************************************************************)
(* The first member of a list that is in a set, lists of one member, lists *)
(* whose members are not looked at.                                        *)
(***************************************************************************)
LEMMA FirstIsOne ==
    ASSUME NEW I, I \subseteq Nat, I # {}
    PROVE  Min(I) \in I
<1>1. \E m \in I : \A n \in I : m <= n
  BY SmallestMember
<1> QED BY <1>1 DEF Min

PlacesIn(rows, W) == {i \in 1 .. Len(rows) : rows[i] \in W}
FirstIn(rows, W) == rows[IF PlacesIn(rows, W) # {} THEN Min(PlacesIn(rows, W)) ELSE 0]

LEMMA FirstInIs ==
    ASSUME NEW S, NEW rows \in Seq(S), NEW W, ToSet(rows) \cap W # {}
    PROVE  /\ FirstIn(rows, W) \in ToSet(rows) \cap W
           /\ \A r \in ToSet(rows) \cap W :
                 r = FirstIn(rows, W) \/ AheadOf(rows, FirstIn(rows, W), r)
<1> DEFINE I == PlacesIn(rows, W)
           m == Min(I)
<1>1. DOMAIN rows = 1 .. Len(rows) /\ Len(rows) \in Nat
  OBVIOUS
<1>2. I # {} /\ I \subseteq Nat
  BY <1>1 DEF ToSet, PlacesIn
<1>3. m \in I /\ \A n \in I : m <= n
  <2>1. \E k \in I : \A n \in I : k <= n
    BY <1>2, SmallestMember
  <2> QED BY <2>1 DEF Min
<1>4. FirstIn(rows, W) = rows[m]
  BY <1>2 DEF FirstIn
<1> HIDE DEF m
<1>5. m \in DOMAIN rows /\ rows[m] \in W
  BY <1>1, <1>3 DEF PlacesIn
<1>6. ASSUME NEW r \in ToSet(rows) \cap W PROVE r = rows[m] \/ AheadOf(rows, rows[m], r)
  <2>1. PICK n \in DOMAIN rows : rows[n] = r
    BY DEF ToSet
  <2>2. n \in I
    BY <1>1, <2>1 DEF PlacesIn
  <2>3. m = n \/ m < n
    BY <1>2, <1>3, <2>2
  <2> QED BY <1>5, <2>1, <2>3 DEF AheadOf
<1> QED BY <1>4, <1>5, <1>6 DEF ToSet

LEMMA OneInAList ==
    ASSUME NEW S, NEW x \in S
    PROVE  <<x>> \in Seq(S) /\ ToSet(<<x>>) = {x} /\ \A a, b : ~AheadOf(<<x>>, a, b)
<1>1. <<x>> \in Seq(S) /\ DOMAIN <<x>> = {1} /\ <<x>>[1] = x
  OBVIOUS
<1> QED BY <1>1 DEF ToSet, AheadOf

LEMMA AheadOfAList ==
    ASSUME NEW S, NEW x \in S, NEW g \in Seq(S)
    PROVE  /\ <<x>> \o g \in Seq(S) /\ ToSet(<<x>> \o g) = {x} \cup ToSet(g)
           /\ \A a, b : AheadOf(<<x>> \o g, a, b) <=>
                 AheadOf(g, a, b) \/ (a = x /\ b \in ToSet(g))
<1> DEFINE one == <<x>>
<1>1. one \in Seq(S) /\ ToSet(one) = {x} /\ \A a, b : ~AheadOf(one, a, b)
  BY OneInAList
<1> HIDE DEF one
<1>2. one \o g \in Seq(S) /\ ToSet(one \o g) = ToSet(one) \cup ToSet(g)
  BY <1>1, JoinedMembers
<1>3. \A a, b : AheadOf(one \o g, a, b) <=> \/ AheadOf(one, a, b) \/ AheadOf(g, a, b)
                                            \/ a \in ToSet(one) /\ b \in ToSet(g)
  BY <1>1, JoinedOrder
<1>4. ASSUME NEW a, NEW b
      PROVE  AheadOf(one \o g, a, b) <=> AheadOf(g, a, b) \/ (a = x /\ b \in ToSet(g))
  <2>1. a \in ToSet(one) <=> a = x
    BY <1>1
  <2> QED BY <1>1, <1>3, <2>1
<1>5. one \o g \in Seq(S) /\ ToSet(one \o g) = {x} \cup ToSet(g)
  BY <1>1, <1>2
<1> QED BY <1>4, <1>5 DEF one

\* Lists without members, one after the other.
LEMMA NothingFlattened ==
    ASSUME NEW n \in Nat, NEW ss, ss = [i \in 1 .. n |-> <<>>]
    PROVE  FlattenSeq(ss) = <<>>
<1>1. ss \in Seq(Seq({})) /\ DOMAIN ss = 1 .. n /\ \A i \in DOMAIN ss : ss[i] = <<>>
  OBVIOUS
<1>2. FlattenSeq(ss) \in Seq({})
  <2>1. \A i \in DOMAIN ss : NoRepeats(ss[i]) /\ ToSet(ss[i]) = {}
    BY <1>1 DEF NoRepeats, ToSet
  <2> QED BY <1>1, <2>1, FlattenedMembers
<1> QED BY <1>2

IsList(s) == s \in Seq(ToSet(s))

LEMMA ListsAre ==
    /\ \A S : \A s \in Seq(S) : IsList(s)
    /\ IsList(<<>>)
<1>1. ASSUME NEW S, NEW s \in Seq(S) PROVE IsList(s)
  <2>1. s = [i \in 1 .. Len(s) |-> s[i]] /\ Len(s) \in Nat /\ DOMAIN s = 1 .. Len(s)
    OBVIOUS
  <2>2. \A i \in 1 .. Len(s) : s[i] \in ToSet(s)
    BY <2>1 DEF ToSet
  <2> QED BY <2>1, <2>2 DEF IsList
<1>2. <<>> \in Seq({})
  OBVIOUS
<1> QED BY <1>1, <1>2

LEMMA ListsJoin == ASSUME NEW a, NEW b, IsList(a), IsList(b) PROVE IsList(a \o b)
<1> DEFINE S == ToSet(a) \cup ToSet(b)
<1>1. a \in Seq(S) /\ b \in Seq(S)
  BY DEF IsList
<1> HIDE DEF S
<1>2. a \o b \in Seq(S)
  BY <1>1
<1> QED BY <1>2, ListsAre

LEMMA ListsFlatten ==
    ASSUME NEW n \in Nat, NEW ss, ss = [i \in 1 .. n |-> ss[i]], \A i \in 1 .. n : IsList(ss[i])
    PROVE  IsList(FlattenSeq(ss))
<1> DEFINE S == UNION {ToSet(ss[i]) : i \in 1 .. n}
<1>1. \A i \in 1 .. n : ss[i] \in Seq(S)
  <2>1. ASSUME NEW i \in 1 .. n PROVE ss[i] \in Seq(S)
    <3>1. ToSet(ss[i]) \subseteq S
      OBVIOUS
    <3> HIDE DEF S
    <3> QED BY <3>1 DEF IsList
  <2> QED BY <2>1
<1> HIDE DEF S
<1>2. ss \in Seq(Seq(S))
  BY <1>1
<1>3. FlattenSeq(ss) \in Seq(S)
  BY <1>2, FlattenedMembers
<1> QED BY <1>3, ListsAre
==============================================================================
