--------------------------- MODULE RegisterMapProofs ---------------------------
(***************************************************************************)
(* What RegisterMap promises of the registers between a simulator and its  *)
(* gateway, for every sample file, every fleet and every order in which    *)
(* the two sides start, stop and read the catalogue.                       *)
(***************************************************************************)
EXTENDS RegisterMap, FiniteSetTheorems, WellFoundedInduction, TLAPS

USE FleetAssumption, BlockAssumption, BoundsAssumption
    DEF FleetAssumption, BlockAssumption, BoundsAssumption

-------------------------------------------------------------------------------
(* Finite sets of numbers.                                                 *)

\* A set of numbers has a least one: < is well founded.
LEMMA Least ==
    ASSUME NEW T, T \subseteq Nat, T # {}
    PROVE  \E x \in T : \A y \in T : x <= y
<1>1. PICK x \in T : \A y \in T : ~(<<y, x>> \in OpToRel(<, Nat))
  BY NatLessThanWellFounded, WFMin
<1>2. \A y \in T : ~(y < x)
  BY <1>1, Zenon DEF OpToRel
<1>3. QED
  BY <1>2, SMT

HasExtremes(S) == \E lo, hi \in S : \A x \in S : lo <= x /\ x <= hi

\* The smallest set without a least or greatest number would lose it with any
\* of its members.
LEMMA Extremes ==
    ASSUME NEW S, IsFiniteSet(S), S \subseteq Int, S # {}
    PROVE  HasExtremes(S)
<1> DEFINE Bad  == {R \in SUBSET S : R # {} /\ ~HasExtremes(R)}
           Size == {Cardinality(R) : R \in Bad}
<1>1. SUFFICES ASSUME Bad # {} PROVE FALSE
  OBVIOUS
<1>2. PICK R \in Bad : \A Q \in Bad : Cardinality(R) <= Cardinality(Q)
  <2>1. Size \subseteq Nat
    BY FS_Subset, FS_CardinalityType
  <2>2. Size # {}
    BY <1>1
  <2> HIDE DEF Size
  <2>3. PICK n \in Size : \A m \in Size : n <= m
    BY <2>1, <2>2, Least
  <2>4. QED
    BY <2>3 DEF Size
<1>3. R \subseteq Int /\ R # {} /\ IsFiniteSet(R) /\ ~HasExtremes(R) /\ R \in SUBSET S
  BY <1>2, FS_Subset
<1>4. PICK r \in R : TRUE
  BY <1>3
<1> DEFINE Q == R \ {r}
<1>5. Q # {}
  <2>1. ASSUME Q = {}
        PROVE  HasExtremes(R)
    BY <1>3, <1>4, <2>1 DEF HasExtremes
  <2>2. QED
    BY <1>3, <2>1
<1>6. HasExtremes(Q)
  <2>1. IsFiniteSet(Q) /\ Cardinality(Q) = Cardinality(R) - 1
    BY <1>3, <1>4, FS_RemoveElement
  <2>2. Cardinality(R) \in Nat
    BY <1>3, FS_CardinalityType
  <2>3. Q \in SUBSET S
    BY <1>3
  <2> HIDE DEF Q
  <2>4. ~(Cardinality(R) <= Cardinality(Q))
    BY <2>1, <2>2
  <2>5. Q \notin Bad
    BY <1>2, <2>4
  <2>6. QED
    BY <1>5, <2>3, <2>5
<1>7. HasExtremes(R)
  <2>1. PICK lo \in Q, hi \in Q : \A x \in Q : lo <= x /\ x <= hi
    BY <1>6 DEF HasExtremes
  <2> DEFINE low == IF r < lo THEN r ELSE lo
             high == IF hi < r THEN r ELSE hi
  <2>2. low \in R /\ high \in R
    BY <1>4, <2>1
  <2>3. ASSUME NEW x \in R
        PROVE  low <= x /\ x <= high
    <3>1. /\ r \in Int /\ lo \in Int /\ hi \in Int /\ x \in Int
          /\ x = r \/ (lo <= x /\ x <= hi)
      BY <1>3, <1>4, <2>1
    <3>2. QED
      BY <3>1
  <2>4. QED
    BY <2>2, <2>3 DEF HasExtremes
<1>8. QED
  BY <1>3, <1>7

LEMMA MaxOfFinite ==
    ASSUME NEW S, IsFiniteSet(S), S \subseteq Int, S # {}
    PROVE  Max(S) \in S /\ \A x \in S : x <= Max(S)
<1>1. \E m \in S : \A x \in S : m >= x
  <2>1. PICK lo \in S, hi \in S : \A x \in S : lo <= x /\ x <= hi
    BY Extremes DEF HasExtremes
  <2>2. \A x \in S : hi >= x
    BY <2>1
  <2>3. QED
    BY <2>2
<1>2. Max(S) \in S /\ \A x \in S : Max(S) >= x
  BY <1>1, Zenon DEF Max
<1> DEFINE m == Max(S)
<1> HIDE DEF m
<1>3. m \in S /\ \A x \in S : m >= x
  BY <1>2 DEF m
<1>4. m \in S /\ \A x \in S : x <= m
  BY <1>3
<1>5. QED
  BY <1>4 DEF m

LEMMA MinOfFinite ==
    ASSUME NEW S, IsFiniteSet(S), S \subseteq Int, S # {}
    PROVE  Min(S) \in S /\ \A x \in S : Min(S) <= x
<1>1. \E m \in S : \A x \in S : m <= x
  BY Extremes DEF HasExtremes
<1>2. QED
  BY <1>1, Zenon DEF Min

\* The greater of two numbers.
LEMMA MaxOfTwo ==
    ASSUME NEW a \in Int, NEW b \in Int
    PROVE  Max({a, b}) = IF a >= b THEN a ELSE b
<1>1. IsFiniteSet({a, b})
  <2>1. IsFiniteSet({a})
    BY FS_Singleton
  <2>2. IsFiniteSet({a} \cup {b}) /\ {a} \cup {b} = {a, b}
    BY <2>1, FS_AddElement
  <2>3. QED
    BY <2>2
<1>2. Max({a, b}) \in {a, b} /\ \A x \in {a, b} : x <= Max({a, b})
  BY <1>1, MaxOfFinite
<1> DEFINE m == Max({a, b})
<1> HIDE DEF m
<1>3. m \in {a, b} /\ \A x \in {a, b} : x <= m
  BY <1>2 DEF m
<1>4. m = IF a >= b THEN a ELSE b
  BY <1>3
<1>5. QED
  BY <1>4 DEF m

-------------------------------------------------------------------------------
(* The fleet is numbered through.                                          *)

Flattens(f, seqs, n) ==
    f = [i \in 1 .. n |-> IF i = 1 THEN seqs[i] ELSE f[i - 1] \o seqs[i]]

LEMMA FlatteningExists ==
    ASSUME NEW seqs, NEW n \in Nat
    PROVE  \E f : Flattens(f, seqs, n)
<1> DEFINE T == {m \in Nat : ~ \E f : Flattens(f, seqs, m)}
<1>1. SUFFICES ASSUME T # {} PROVE FALSE
  OBVIOUS
<1>2. PICK m \in T : \A y \in T : m <= y
  <2>1. T \subseteq Nat
    OBVIOUS
  <2> HIDE DEF T
  <2>2. QED
    BY <1>1, <2>1, Least
<1>3. m # 0
  <2>1. Flattens(<<>>, seqs, 0)
    BY DEF Flattens
  <2>2. QED
    BY <1>2, <2>1
<1>4. m - 1 \in Nat /\ m - 1 \notin T
  BY <1>2, <1>3
<1>5. PICK f : Flattens(f, seqs, m - 1)
  BY <1>4
<1>6. \A i \in 1 .. m - 1 : f[i] = IF i = 1 THEN seqs[i] ELSE f[i - 1] \o seqs[i]
  BY <1>5, Zenon DEF Flattens
<1> DEFINE g == [i \in 1 .. m |-> IF i = 1 THEN seqs[i] ELSE f[i - 1] \o seqs[i]]
<1>7. \A i \in 1 .. m : g[i] = IF i = 1 THEN seqs[i] ELSE f[i - 1] \o seqs[i]
  OBVIOUS
<1>8. g = [i \in 1 .. m |-> g[i]]
  OBVIOUS
<1> HIDE DEF g
<1>9. \A i \in 1 .. m - 1 : i \in 1 .. m
  BY <1>4
<1>10. \A i \in 1 .. m - 1 : g[i] = f[i]
  BY <1>6, <1>7, <1>9, Zenon
<1>11. \A i \in 1 .. m : i # 1 => i - 1 \in 1 .. m - 1
  BY <1>4
<1>12. \A i \in 1 .. m : g[i] = IF i = 1 THEN seqs[i] ELSE g[i - 1] \o seqs[i]
  BY <1>7, <1>10, <1>11, Zenon
<1>13. Flattens(g, seqs, m)
  BY <1>8, <1>12, Zenon DEF Flattens
<1>14. QED
  BY <1>2, <1>13

LEMMA FlattenIsSeq ==
    ASSUME NEW S, NEW n \in Nat, NEW seqs, Len(seqs) = n, n # 0,
           \A i \in 1 .. n : seqs[i] \in Seq(S)
    PROVE  FlattenSeq(seqs) \in Seq(S)
<1> DEFINE f == CHOOSE g : Flattens(g, seqs, n)
<1>1. Flattens(f, seqs, n)
  BY FlatteningExists, Zenon
<1>2. FlattenSeq(seqs) = f[n]
  BY Zenon DEF FlattenSeq, Flattens
<1> HIDE DEF f
<1>3. \A i \in 1 .. n : f[i] = IF i = 1 THEN seqs[i] ELSE f[i - 1] \o seqs[i]
  BY <1>1, Zenon DEF Flattens
<1> DEFINE T == {i \in 1 .. n : f[i] \notin Seq(S)}
<1>4. T = {}
  <2>1. SUFFICES ASSUME T # {} PROVE FALSE
    OBVIOUS
  <2>2. PICK i \in T : \A y \in T : i <= y
    <3>1. T \subseteq Nat
      OBVIOUS
    <3> HIDE DEF T
    <3>2. QED
      BY <2>1, <3>1, Least
  <2>3. i \in 1 .. n /\ f[i] \notin Seq(S)
    BY <2>2
  <2>4. i # 1
    BY <1>3, <2>3
  <2>5. i - 1 \in 1 .. n /\ f[i - 1] \in Seq(S)
    BY <2>2, <2>3, <2>4
  <2>6. f[i] = f[i - 1] \o seqs[i]
    BY <1>3, <2>3, <2>4
  <2>7. QED
    BY <2>3, <2>5, <2>6
<1>5. QED
  BY <1>2, <1>4

LEMMA FleetRows ==
    ASSUME NEW r \in 1 .. Len(Fleet)
    PROVE  Fleet[r].building \in Nat /\ Fleet[r].type \in Nat /\ Fleet[r].count \in Nat
<1> DEFINE R == [building : Nat, type : Nat, count : Nat]
<1>1. Fleet \in Seq(R)
  OBVIOUS
<1> HIDE DEF R
<1>2. Fleet[r] \in R
  BY <1>1
<1>3. QED
  BY <1>2 DEF R

LEMMA MachinesAreListed == Machines \in Seq(Int)
<1> DEFINE block(r) == [n \in 1 .. Fleet[r].count |->
                           10000 * Fleet[r].building + 100 * Fleet[r].type + n]
           seqs == [r \in DOMAIN Fleet |-> block(r)]
<1>1. Len(Fleet) \in Nat /\ DOMAIN Fleet = 1 .. Len(Fleet)
  OBVIOUS
<1>2. ASSUME NEW r \in 1 .. Len(Fleet)
      PROVE  seqs[r] \in Seq(Int)
  <2> DEFINE c == Fleet[r].count
             b == Fleet[r].building
             t == Fleet[r].type
  <2>2. c \in Nat /\ b \in Nat /\ t \in Nat
    BY FleetRows
  <2>3. seqs[r] = [n \in 1 .. c |-> 10000 * b + 100 * t + n]
    BY <1>1
  <2> HIDE DEF seqs, b, c, t
  <2>4. [n \in 1 .. c |-> 10000 * b + 100 * t + n] \in Seq(Int)
    BY <2>2
  <2>5. QED
    BY <2>3, <2>4
<1>3. Len(seqs) = Len(Fleet)
  BY <1>1
<1>4. Machines = FlattenSeq(seqs)
  BY DEF Machines
<1>5. CASE Len(Fleet) = 0
  <2>1. seqs \in Seq(Int) /\ Len(seqs) = 0
    BY <1>1, <1>3, <1>5
  <2> HIDE DEF seqs
  <2>2. FlattenSeq(seqs) = seqs
    BY <2>1, Zenon DEF FlattenSeq
  <2>3. QED
    BY <1>4, <2>1, <2>2
<1>6. CASE Len(Fleet) # 0
  <2> HIDE DEF seqs
  <2>1. QED
    BY <1>1, <1>2, <1>3, <1>4, <1>6, FlattenIsSeq
<1>7. QED
  BY <1>5, <1>6
-------------------------------------------------------------------------------
(* Places and order.                                                       *)

\* Two members have different places, from 1 to the size of the set.
LEMMA RankFacts ==
    ASSUME NEW S, IsFiniteSet(S), S \subseteq Int, NEW n \in S
    PROVE  /\ Rank(S, n) \in 1 .. Cardinality(S)
           /\ \A m \in S : m < n => Rank(S, m) < Rank(S, n)
<1> DEFINE Upto(m) == {x \in S : x <= m}
<1>1. ASSUME NEW m
      PROVE  /\ IsFiniteSet(Upto(m)) /\ Cardinality(Upto(m)) \in Nat
             /\ Cardinality(Upto(m)) <= Cardinality(S)
  <2>1. Upto(m) \in SUBSET S
    OBVIOUS
  <2> HIDE DEF Upto
  <2>2. QED
    BY <2>1, FS_Subset, FS_CardinalityType
<1>2. Cardinality(S) \in Nat
  BY FS_CardinalityType
<1>3. Cardinality(Upto(n)) # 0
  <2>1. n \in Upto(n)
    OBVIOUS
  <2> HIDE DEF Upto
  <2>2. QED
    BY <1>1, <2>1, FS_EmptySet
<1>4. ASSUME NEW m \in S, m < n
      PROVE  Cardinality(Upto(m)) < Cardinality(Upto(n))
  <2>1. Upto(m) \in SUBSET Upto(n) /\ n \in Upto(n) /\ n \notin Upto(m)
    <3>1. m \in Int /\ n \in Int /\ \A x \in S : x \in Int
      OBVIOUS
    <3>2. ~(n <= m) /\ n <= n /\ \A x \in S : x <= m => x <= n
      BY <1>4, <3>1
    <3>3. QED
      BY <3>2
  <2> HIDE DEF Upto
  <2>2. /\ Cardinality(Upto(m)) <= Cardinality(Upto(n))
        /\ Cardinality(Upto(m)) # Cardinality(Upto(n))
    BY <1>1, <2>1, FS_Subset
  <2>3. QED
    BY <1>1, <2>2
<1>5. \A m : Rank(S, m) = Cardinality(Upto(m))
  BY DEF Rank
<1> HIDE DEF Upto
<1>6. QED
  BY <1>1, <1>2, <1>3, <1>4, <1>5

LEMMA RankIsInjective ==
    ASSUME NEW S, IsFiniteSet(S), S \subseteq Int, NEW m \in S, NEW n \in S,
           Rank(S, m) = Rank(S, n)
    PROVE  m = n
<1>1. Rank(S, m) \in Int /\ Rank(S, n) \in Int
  <2>1. Cardinality(S) \in Nat
    BY FS_CardinalityType
  <2>2. Rank(S, m) \in 1 .. Cardinality(S) /\ Rank(S, n) \in 1 .. Cardinality(S)
    BY RankFacts
  <2>3. QED
    BY <2>1, <2>2
<1>2. ~(m < n) /\ ~(n < m)
  <2>1. m < n => Rank(S, m) < Rank(S, n)
    BY RankFacts
  <2>2. n < m => Rank(S, n) < Rank(S, m)
    BY RankFacts
  <2>3. QED
    BY <1>1, <2>1, <2>2
<1>3. m \in Int /\ n \in Int
  OBVIOUS
<1>4. QED
  BY <1>2, <1>3

\* Sorted(S) lists the members of S from the least to the greatest.
LEMMA SortedFacts ==
    ASSUME NEW S, IsFiniteSet(S), S \subseteq Int
    PROVE  /\ Cardinality(S) \in Nat /\ Len(Sorted(S)) = Cardinality(S)
           /\ DOMAIN Sorted(S) = 1 .. Cardinality(S)
           /\ \A i \in 1 .. Cardinality(S) : Sorted(S)[i] \in S /\ Rank(S, Sorted(S)[i]) = i
           /\ ToSet(Sorted(S)) = S /\ Sorted(S) \in Seq(S)
<1> DEFINE c == Cardinality(S)
           f == [n \in S |-> Rank(S, n)]
<1>1. c \in Nat
  BY FS_CardinalityType
<1>2. f \in Injection(S, 1 .. c)
  <2>1. f \in [S -> 1 .. c]
    BY RankFacts
  <2>2. \A m, n \in S : f[m] = f[n] => m = n
    BY RankIsInjective
  <2> HIDE DEF f, c
  <2>3. QED
    BY <2>1, <2>2 DEF Injection, IsInjective
<1>3. IsFiniteSet(1 .. c) /\ Cardinality(1 .. c) = c
  <2> HIDE DEF c
  <2>1. /\ IsFiniteSet(1 .. c) /\ Cardinality(1 .. c) = IF 1 > c THEN 0 ELSE c - 1 + 1
    BY <1>1, FS_Interval
  <2>2. QED
    BY <1>1, <2>1
<1>4. f \in Surjection(S, 1 .. c)
  <2> HIDE DEF f
  <2>1. QED
    BY <1>2, <1>3, FS_Injection
<1>5. \A i \in 1 .. c : \E n \in S : Rank(S, n) = i
  BY <1>4 DEF Surjection
<1> HIDE DEF c, f
<1>6. Sorted(S) = [i \in 1 .. c |-> CHOOSE n \in S : Rank(S, n) = i]
  BY DEF Sorted, c
<1>7. \A i \in 1 .. c : Sorted(S)[i] \in S /\ Rank(S, Sorted(S)[i]) = i
  BY <1>5, <1>6, Zenon
<1>8. Len(Sorted(S)) = c /\ DOMAIN Sorted(S) = 1 .. c /\ Sorted(S) \in Seq(S)
  <2> DEFINE s == [i \in 1 .. c |-> CHOOSE n \in S : Rank(S, n) = i]
  <2>1. DOMAIN s = 1 .. c
    BY Zenon
  <2> HIDE DEF s
  <2>2. DOMAIN Sorted(S) = 1 .. c
    BY <1>6, <2>1 DEF s
  <2>3. Sorted(S) = [i \in 1 .. c |-> Sorted(S)[i]]
    BY <1>6, <2>2, Zenon
  <2>4. Sorted(S) \in [1 .. c -> S]
    BY <1>7, <2>2, <2>3, Zenon
  <2>5. QED
    BY <1>1, <2>2, <2>4
<1>9. ToSet(Sorted(S)) = S
  <2>1. ASSUME NEW n \in S
        PROVE  \E i \in DOMAIN Sorted(S) : Sorted(S)[i] = n
    <3>1. Rank(S, n) \in 1 .. c
      BY RankFacts DEF c
    <3>2. Sorted(S)[Rank(S, n)] \in S /\ Rank(S, Sorted(S)[Rank(S, n)]) = Rank(S, n)
      BY <1>7, <3>1
    <3>3. Sorted(S)[Rank(S, n)] = n
      BY <3>2, RankIsInjective
    <3>4. QED
      BY <1>8, <3>1, <3>3
  <2>2. QED
    BY <1>7, <1>8, <2>1 DEF ToSet
<1>10. QED
  BY <1>1, <1>7, <1>8, <1>9 DEF c

-------------------------------------------------------------------------------
(* The catalogue.                                                          *)

AllKeys == UNION {DOMAIN row.numbers : row \in Rows}

LEMMA AllKeysFacts ==
    IsFiniteSet(AllKeys) /\ AllKeys \subseteq Int /\ 2 * Cardinality(AllKeys) <= 125
BY RowsAssumption, WidestAssumption DEF RowsAssumption, WidestAssumption, AllKeys

LEMMA FiniteImage ==
    ASSUME NEW D, IsFiniteSet(D), NEW f, DOMAIN f = D
    PROVE  IsFiniteSet({f[i] : i \in D})
<1> DEFINE g == [i \in D |-> f[i]]
           I == {f[i] : i \in D}
<1>1. g \in [D -> I] /\ \A x \in I : \E i \in D : g[i] = x
  OBVIOUS
<1> HIDE DEF g, I
<1>2. g \in Surjection(D, I)
  BY <1>1 DEF Surjection
<1>3. IsFiniteSet(I)
  BY <1>2, FS_Surjection
<1>4. QED
  BY <1>3 DEF I

LEMMA FileFacts ==
    ASSUME NEW rows \in Seq(Rows)
    PROVE  /\ IsFiniteSet(DOMAIN rows)
           /\ \A i \in DOMAIN rows :
                  /\ rows[i] \in Rows /\ rows[i].name \in Int /\ rows[i].parses \in BOOLEAN
                  /\ \A k \in DOMAIN rows[i].numbers : rows[i].numbers[k] \in Int
<1>1. Len(rows) \in Nat /\ DOMAIN rows = 1 .. Len(rows)
  OBVIOUS
<1>2. IsFiniteSet(DOMAIN rows)
  BY <1>1, FS_Interval
<1>3. \A i \in DOMAIN rows : rows[i] \in Rows
  BY <1>1
<1>4. QED
  BY <1>2, <1>3, RowsAssumption DEF RowsAssumption

LEMMA SampledFacts ==
    ASSUME NEW rows \in Seq(Rows)
    PROVE  IsFiniteSet(Sampled(rows)) /\ Sampled(rows) \subseteq Int
<1> DEFINE D == {j \in DOMAIN rows : rows[j].parses}
           f == [i \in D |-> rows[i].name]
<1>1. IsFiniteSet(D)
  BY FileFacts, FS_Subset
<1>2. DOMAIN f = D /\ Sampled(rows) = {f[i] : i \in D}
  BY DEF Sampled
<1> HIDE DEF f, D
<1>3. IsFiniteSet(Sampled(rows))
  BY <1>1, <1>2, FiniteImage
<1>4. Sampled(rows) \subseteq Int
  BY FileFacts DEF Sampled
<1>5. QED
  BY <1>3, <1>4

LEMMA KeysFacts ==
    ASSUME NEW rows \in Seq(Rows), NEW n
    PROVE  /\ IsFiniteSet(KeysOf(rows, n)) /\ KeysOf(rows, n) \subseteq Int
           /\ 2 * Cardinality(KeysOf(rows, n)) <= 125
<1>1. KeysOf(rows, n) \in SUBSET AllKeys
  BY FileFacts DEF KeysOf, Named, AllKeys
<1>2. /\ IsFiniteSet(KeysOf(rows, n))
      /\ Cardinality(KeysOf(rows, n)) <= Cardinality(AllKeys)
  BY <1>1, AllKeysFacts, FS_Subset
<1>3. Cardinality(KeysOf(rows, n)) \in Nat /\ Cardinality(AllKeys) \in Nat
  BY <1>2, AllKeysFacts, FS_CardinalityType
<1>4. KeysOf(rows, n) \subseteq Int
  BY <1>1, AllKeysFacts
<1>5. 2 * Cardinality(AllKeys) <= 125
  BY AllKeysFacts
<1>6. 2 * Cardinality(KeysOf(rows, n)) <= 125
  BY <1>2, <1>3, <1>5
<1>7. QED
  BY <1>2, <1>4, <1>6

\* Every device has its own unit, and its metrics fit into one read.
Catalogue(devices, from) ==
    /\ \A n \in DOMAIN devices :
           LET keys == devices[n].keys
           IN /\ keys \in Seq(Int) /\ Len(keys) \in Nat /\ DOMAIN keys = 1 .. Len(keys)
              /\ 2 * Len(keys) <= 125
              /\ from = "ems" => keys = <<Power, Energy>>
    /\ \A m, n \in DOMAIN devices : devices[m].unit = devices[n].unit => m = n

LEMMA BmsIsCatalogue ==
    ASSUME NEW rows \in Seq(Rows)
    PROVE  Catalogue(BmsCatalogue(rows), "bms")
<1> DEFINE devices == BmsCatalogue(rows)
<1>1. /\ DOMAIN devices = Sampled(rows)
      /\ \A n \in Sampled(rows) : /\ devices[n].unit = Rank(Sampled(rows), n)
                                  /\ devices[n].keys = Sorted(KeysOf(rows, n))
  BY DEF BmsCatalogue, Metrics
<1> HIDE DEF devices
<1>2. ASSUME NEW n \in DOMAIN devices
      PROVE  /\ devices[n].keys \in Seq(Int) /\ Len(devices[n].keys) \in Nat
             /\ DOMAIN devices[n].keys = 1 .. Len(devices[n].keys)
             /\ 2 * Len(devices[n].keys) <= 125
  <2> DEFINE S == KeysOf(rows, n)
             s == Sorted(S)
  <2>1. IsFiniteSet(S) /\ S \subseteq Int /\ 2 * Cardinality(S) <= 125
    BY KeysFacts
  <2> HIDE DEF S
  <2>2. Len(s) = Cardinality(S) /\ Len(s) \in Nat /\ DOMAIN s = 1 .. Len(s) /\ s \in Seq(S)
    BY <2>1, SortedFacts
  <2>3. devices[n].keys = s
    BY <1>1 DEF S
  <2> HIDE DEF s
  <2>4. s \in Seq(Int)
    <3>1. ASSUME NEW i \in 1 .. Len(s)
          PROVE  s[i] \in Int
      <4>1. s[i] \in S
        BY <2>2
      <4>2. QED
        BY <2>1, <4>1
    <3>2. s = [i \in 1 .. Len(s) |-> s[i]]
      BY <2>2
    <3>3. s \in [1 .. Len(s) -> Int]
      BY <3>1, <3>2
    <3>4. QED
      BY <2>2, <3>3
  <2>5. QED
    BY <2>1, <2>2, <2>3, <2>4
<1>3. \A m, n \in DOMAIN devices : devices[m].unit = devices[n].unit => m = n
  BY <1>1, SampledFacts, RankIsInjective
<1>4. QED
  BY <1>2, <1>3 DEF Catalogue, devices

LEMMA EmsIsCatalogue == Catalogue(EmsCatalogue, "ems")
<1> DEFINE devices == EmsCatalogue
<1>1. /\ DOMAIN devices = ToSet(Machines)
      /\ \A m \in ToSet(Machines) : /\ devices[m].unit = EmsUnit(m)
                                    /\ devices[m].keys = <<Power, Energy>>
  BY DEF EmsCatalogue
<1> HIDE DEF devices
<1>2. ASSUME NEW m \in ToSet(Machines)
      PROVE  Machines[EmsUnit(m)] = m
  <2> DEFINE at == {i \in DOMAIN Machines : Machines[i] = m}
  <2>1. DOMAIN Machines = 1 .. Len(Machines) /\ Len(Machines) \in Nat
    BY MachinesAreListed
  <2>2. IsFiniteSet(at) /\ at \subseteq Int /\ at # {}
    <3>1. at \in SUBSET (1 .. Len(Machines))
      BY <2>1
    <3>2. IsFiniteSet(1 .. Len(Machines))
      BY <2>1, FS_Interval
    <3>3. at # {}
      BY DEF ToSet
    <3>4. at \subseteq Int
      BY <3>1
    <3> HIDE DEF at
    <3>5. QED
      BY <3>1, <3>2, <3>3, <3>4, FS_Subset
  <2>3. Max(at) \in at
    <3> HIDE DEF at
    <3>1. QED
      BY <2>2, MaxOfFinite
  <2>4. EmsUnit(m) = Max(at)
    BY DEF EmsUnit
  <2>5. QED
    BY <2>3, <2>4
<1>3. ASSUME NEW m \in DOMAIN devices, NEW n \in DOMAIN devices,
             devices[m].unit = devices[n].unit
      PROVE  m = n
  BY <1>1, <1>2, <1>3
<1>4. ASSUME NEW n \in DOMAIN devices
      PROVE  LET keys == devices[n].keys
             IN /\ keys \in Seq(Int) /\ Len(keys) \in Nat /\ DOMAIN keys = 1 .. Len(keys)
                /\ 2 * Len(keys) <= 125 /\ keys = <<Power, Energy>>
  <2>1. devices[n].keys = <<Power, Energy>>
    BY <1>1
  <2>2. /\ Len(<<Power, Energy>>) = 2 /\ DOMAIN <<Power, Energy>> = 1 .. 2
        /\ <<Power, Energy>> \in Seq(Int)
    OBVIOUS
  <2> DEFINE keys == <<Power, Energy>>
  <2> HIDE DEF keys
  <2>3. Len(keys) = 2 /\ DOMAIN keys = 1 .. 2 /\ keys \in Seq(Int)
    BY <2>2 DEF keys
  <2>4. devices[n].keys = keys
    BY <2>1 DEF keys
  <2>5. QED
    BY <2>1, <2>3, <2>4
<1>5. QED
  BY <1>3, <1>4 DEF Catalogue, devices

LEMMA DevicesAreCatalogue ==
    ASSUME NEW rows \in Seq(Rows), NEW from \in {"bms", "ems"}
    PROVE  Catalogue(DevicesFor(from, rows), from)
BY BmsIsCatalogue, EmsIsCatalogue DEF DevicesFor
-------------------------------------------------------------------------------
(* The registers.                                                          *)

IsBlock(block) ==
    /\ Len(block) \in Nat /\ DOMAIN block = 1 .. Len(block)
    /\ BlockRegisters <= Len(block)

\* The block begins with the metrics of device n from refresh pass p.
Holds(block, n, keys, p) ==
    /\ 2 * Len(keys) <= Len(block)
    /\ \A i \in 1 .. Len(keys) : /\ block[2 * i - 1] = Word(Cell(n, keys[i], p), "hi")
                                 /\ block[2 * i] = Word(Cell(n, keys[i], p), "lo")

LEMMA TupleFacts ==
    ASSUME NEW c \in Nat, NEW s, DOMAIN s = 1 .. c, s = [i \in 1 .. c |-> s[i]]
    PROVE  Len(s) = c
<1> DEFINE S == {s[i] : i \in 1 .. c}
<1>1. s \in [1 .. c -> S]
  OBVIOUS
<1> HIDE DEF S
<1>2. QED
  BY <1>1

\* encode_metrics(): two registers per value, in order.
LEMMA Encoded ==
    ASSUME NEW cells, NEW c \in Nat, Len(cells) = c
    PROVE  /\ Len(EncodeMetrics(cells)) = 2 * c /\ DOMAIN EncodeMetrics(cells) = 1 .. 2 * c
           /\ \A i \in 1 .. c : /\ EncodeMetrics(cells)[2 * i - 1] = Word(cells[i], "hi")
                                /\ EncodeMetrics(cells)[2 * i] = Word(cells[i], "lo")
<1> DEFINE words == EncodeMetrics(cells)
<1>1. words = [i \in 1 .. 2 * c |->
                  Word(cells[(i + 1) \div 2], IF i % 2 = 1 THEN "hi" ELSE "lo")]
  BY DEF EncodeMetrics
<1>2. DOMAIN words = 1 .. 2 * c /\ words = [i \in 1 .. 2 * c |-> words[i]]
  BY <1>1
<1>3. Len(words) = 2 * c
  <2> HIDE DEF words
  <2>1. 2 * c \in Nat
    OBVIOUS
  <2>2. QED
    BY <1>2, <2>1, TupleFacts
<1>4. ASSUME NEW i \in 1 .. c
      PROVE  words[2 * i - 1] = Word(cells[i], "hi") /\ words[2 * i] = Word(cells[i], "lo")
  <2>1. /\ 2 * i - 1 \in 1 .. 2 * c /\ 2 * i \in 1 .. 2 * c
        /\ (2 * i - 1 + 1) \div 2 = i /\ (2 * i + 1) \div 2 = i
        /\ (2 * i - 1) % 2 = 1 /\ (2 * i) % 2 = 0
    OBVIOUS
  <2> HIDE DEF words
  <2>2. words[2 * i - 1] = Word(cells[i], "hi")
    BY <1>1, <2>1, Zenon
  <2>3. words[2 * i] = Word(cells[i], "lo")
    <3>1. ~(0 = 1)
      OBVIOUS
    <3>2. QED
      BY <1>1, <2>1, <3>1, Zenon
  <2>4. QED
    BY <2>2, <2>3
<1>5. QED
  BY <1>2, <1>3, <1>4

\* setValues(): the block begins with the words, and is as long as before or
\* as they are.
LEMMA ValuesSet ==
    ASSUME NEW block, IsBlock(block), NEW words, Len(words) \in Nat
    PROVE  /\ IsBlock(SetValues(block, words))
           /\ Len(words) <= Len(SetValues(block, words))
           /\ \A i \in 1 .. Len(words) : SetValues(block, words)[i] = words[i]
<1> DEFINE m == Max({Len(words), Len(block)})
           b == SetValues(block, words)
<1>1. m \in Nat /\ Len(words) <= m /\ Len(block) <= m
  <2>1. Len(words) \in Int /\ Len(block) \in Int /\ Len(words) \in Nat /\ Len(block) \in Nat
    BY DEF IsBlock
  <2>2. m = IF Len(words) >= Len(block) THEN Len(words) ELSE Len(block)
    BY <2>1, MaxOfTwo
  <2> HIDE DEF m
  <2>3. QED
    BY <2>1, <2>2
<1>2. b = [i \in 1 .. m |-> IF i <= Len(words) THEN words[i] ELSE block[i]]
  BY DEF SetValues
<1> HIDE DEF m, b
<1>3. DOMAIN b = 1 .. m /\ b = [i \in 1 .. m |-> b[i]]
  BY <1>2
<1>4. Len(b) = m
  BY <1>1, <1>3, TupleFacts
<1>5. \A i \in 1 .. Len(words) : b[i] = words[i]
  BY <1>1, <1>2
<1>6. IsBlock(b)
  BY <1>1, <1>3, <1>4 DEF IsBlock
<1>7. QED
  BY <1>1, <1>4, <1>5, <1>6 DEF b

\* decode_metrics() reads back what encode_metrics() wrote.
LEMMA Decoded ==
    ASSUME NEW block, NEW n, NEW keys, NEW p, Len(keys) \in Nat, Holds(block, n, keys, p),
           NEW i \in 1 .. Len(keys)
    PROVE  DecodeMetrics(block, Len(keys))[i] = Cell(n, keys[i], p)
<1> DEFINE cell == Cell(n, keys[i], p)
<1>1. block[2 * i - 1] = Word(cell, "hi") /\ block[2 * i] = Word(cell, "lo")
  BY DEF Holds
<1> HIDE DEF cell
<1>2. block[2 * i - 1].cell = cell
  BY <1>1 DEF Word
<1>3. DecodeMetrics(block, Len(keys))[i] =
          IF /\ block[2 * i - 1] = Word(block[2 * i - 1].cell, "hi")
             /\ block[2 * i] = Word(block[2 * i - 1].cell, "lo")
          THEN block[2 * i - 1].cell ELSE Garbled
  BY Zenon DEF DecodeMetrics
<1>4. QED
  BY <1>1, <1>2, <1>3 DEF cell

\* _compute_values() follows the metrics of the device, in order.
LEMMA ValuesInOrder ==
    ASSUME NEW devices, Catalogue(devices, source), NEW n \in DOMAIN devices, NEW p
    PROVE  /\ Len(Values(devices, n, p)) = Len(devices[n].keys)
           /\ \A i \in 1 .. Len(devices[n].keys) :
                  Values(devices, n, p)[i] = Cell(n, devices[n].keys[i], p)
<1> DEFINE keys == devices[n].keys
           values == Values(devices, n, p)
<1>1. CASE source = "ems"
  <2>1. keys = <<Power, Energy>>
    BY <1>1 DEF Catalogue
  <2>2. values = <<Cell(n, Power, p), Cell(n, Energy, p)>>
    BY <1>1 DEF Values
  <2> HIDE DEF values
  <2>3. Len(keys) = 2 /\ keys[1] = Power /\ keys[2] = Energy
    BY <2>1
  <2>4. Len(values) = 2 /\ values[1] = Cell(n, Power, p) /\ values[2] = Cell(n, Energy, p)
    BY <2>2
  <2>5. QED
    BY <2>3, <2>4 DEF values
<1>2. CASE source # "ems"
  <2>1. Len(keys) \in Nat /\ DOMAIN keys = 1 .. Len(keys)
    BY DEF Catalogue
  <2>2. values = [i \in DOMAIN keys |-> Cell(n, keys[i], p)]
    BY <1>2, Zenon DEF Values
  <2> HIDE DEF values, keys
  <2>3. DOMAIN values = 1 .. Len(keys) /\ values = [i \in 1 .. Len(keys) |-> values[i]]
    BY <2>1, <2>2
  <2>4. Len(values) = Len(keys)
    BY <2>1, <2>3, TupleFacts
  <2>5. QED
    BY <2>1, <2>2, <2>4 DEF values, keys
<1>3. QED
  BY <1>1, <1>2

\* After a pass every unit holds the metrics of its own device.
AllHold(blocks, devices, p) ==
    /\ DOMAIN blocks = {devices[n].unit : n \in DOMAIN devices}
    /\ \A u \in DOMAIN blocks : IsBlock(blocks[u])
    /\ \A n \in DOMAIN devices : Holds(blocks[devices[n].unit], n, devices[n].keys, p)

LEMMA RefreshHolds ==
    ASSUME NEW devices, Catalogue(devices, source), NEW p, NEW blocks,
           DOMAIN blocks = {devices[n].unit : n \in DOMAIN devices},
           \A u \in DOMAIN blocks : IsBlock(blocks[u])
    PROVE  AllHold(Refreshed(blocks, devices, p), devices, p)
<1> DEFINE after == Refreshed(blocks, devices, p)
<1>1. /\ DOMAIN after = DOMAIN blocks
      /\ \A u \in DOMAIN blocks :
             after[u] = SetValues(blocks[u], EncodeMetrics(Values(devices,
                            CHOOSE m \in DOMAIN devices : devices[m].unit = u, p)))
  BY Zenon DEF Refreshed
<1> HIDE DEF after
<1>2. ASSUME NEW n \in DOMAIN devices
      PROVE  /\ IsBlock(after[devices[n].unit])
             /\ Holds(after[devices[n].unit], n, devices[n].keys, p)
  <2> DEFINE u == devices[n].unit
             c == Len(devices[n].keys)
             words == EncodeMetrics(Values(devices, n, p))
  <2>1. u \in DOMAIN blocks
    OBVIOUS
  <2>2. n = CHOOSE m \in DOMAIN devices : devices[m].unit = u
    <3>1. \A m \in DOMAIN devices : devices[m].unit = u => m = n
      BY DEF Catalogue
    <3>2. QED
      BY <3>1
  <2>3. after[u] = SetValues(blocks[u], words)
    BY <1>1, <2>1, <2>2, Zenon
  <2>4. c \in Nat
    BY DEF Catalogue
  <2>5. /\ Len(words) = 2 * c
        /\ \A i \in 1 .. c : /\ words[2 * i - 1] = Word(Cell(n, devices[n].keys[i], p), "hi")
                             /\ words[2 * i] = Word(Cell(n, devices[n].keys[i], p), "lo")
    <3> DEFINE values == Values(devices, n, p)
    <3>1. /\ Len(values) = c
          /\ \A i \in 1 .. c : values[i] = Cell(n, devices[n].keys[i], p)
      BY ValuesInOrder
    <3> HIDE DEF values, c
    <3>2. /\ Len(EncodeMetrics(values)) = 2 * c
          /\ \A i \in 1 .. c : /\ EncodeMetrics(values)[2 * i - 1] = Word(values[i], "hi")
                               /\ EncodeMetrics(values)[2 * i] = Word(values[i], "lo")
      BY <2>4, <3>1, Encoded
    <3>3. words = EncodeMetrics(values)
      BY DEF values
    <3> HIDE DEF words
    <3>4. QED
      BY <3>1, <3>2, <3>3
  <2> HIDE DEF u, c, words
  <2>6. /\ IsBlock(after[u]) /\ Len(words) <= Len(after[u])
        /\ \A i \in 1 .. Len(words) : after[u][i] = words[i]
    <3>1. IsBlock(blocks[u]) /\ Len(words) \in Nat
      BY <2>1, <2>4, <2>5
    <3>2. QED
      BY <2>3, <3>1, ValuesSet
  <2>7. \A i \in 1 .. c : 2 * i - 1 \in 1 .. Len(words) /\ 2 * i \in 1 .. Len(words)
    BY <2>4, <2>5
  <2>8. Holds(after[u], n, devices[n].keys, p)
    BY <2>5, <2>6, <2>7 DEF Holds, c
  <2>9. QED
    BY <2>6, <2>8 DEF u
<1>3. QED
  BY <1>1, <1>2 DEF AllHold, after
-------------------------------------------------------------------------------
(* The invariant.                                                          *)

MapInv ==
    /\ TypeOK
    /\ Catalogue(sim, source) /\ Catalogue(gw, source)
    /\ AllHold(regs, sim, pass)
    /\ simUp => pass >= 1
    /\ UnderItsName

LEMMA NoDevicesHold ==
    /\ Catalogue(NoDevices, source)
    /\ \A p : AllHold(NoDevices, NoDevices, p)
    /\ {NoDevices[n].unit : n \in DOMAIN NoDevices} = {} /\ DOMAIN NoDevices = {}
BY DEF Catalogue, AllHold, NoDevices

LEMMA BlankFacts ==
    ASSUME NEW devices
    PROVE  /\ DOMAIN Blank(devices) = {devices[n].unit : n \in DOMAIN devices}
           /\ \A u \in DOMAIN Blank(devices) : IsBlock(Blank(devices)[u])
<1> DEFINE half == BlockRegisters \div 2
           cells == [i \in 1 .. half |-> Zero]
           block == EncodeMetrics(cells)
<1>1. half \in Nat /\ 2 * half = BlockRegisters
  OBVIOUS
<1>2. DOMAIN cells = 1 .. half /\ cells = [i \in 1 .. half |-> cells[i]]
  OBVIOUS
<1>3. \A u \in {devices[n].unit : n \in DOMAIN devices} : Blank(devices)[u] = block
  BY Zenon DEF Blank
<1>4. DOMAIN Blank(devices) = {devices[n].unit : n \in DOMAIN devices}
  BY Zenon DEF Blank
<1> HIDE DEF half, cells
<1>5. Len(cells) = half
  BY <1>1, <1>2, TupleFacts
<1>6. Len(block) = 2 * half /\ DOMAIN block = 1 .. 2 * half
  BY <1>1, <1>5, Encoded
<1> HIDE DEF block
<1>7. IsBlock(block)
  BY <1>1, <1>6 DEF IsBlock
<1>8. QED
  BY <1>3, <1>4, <1>7

LEMMA TypeFromHold ==
    ASSUME NEW devices, NEW p, NEW blocks, AllHold(blocks, devices, p)
    PROVE  /\ DOMAIN blocks = {devices[n].unit : n \in DOMAIN devices}
           /\ \A u \in DOMAIN blocks : Len(blocks[u]) >= BlockRegisters
BY DEF AllHold, IsBlock

LEMMA InitInv == Init => MapInv
<1> SUFFICES ASSUME Init PROVE MapInv
  OBVIOUS
<1>1. /\ sim = NoDevices /\ gw = NoDevices /\ regs = NoDevices /\ pass = 0
      /\ file = <<>> /\ simUp = FALSE /\ gwUp = FALSE /\ source \in {"bms", "ems"}
      /\ reading.agreed = FALSE
  BY DEF Init, NoReading
<1>2. Catalogue(sim, source) /\ Catalogue(gw, source) /\ AllHold(regs, sim, pass)
  BY <1>1, NoDevicesHold
<1>3. TypeOK
  <2>1. /\ DOMAIN regs = {sim[n].unit : n \in DOMAIN sim}
        /\ \A u \in DOMAIN regs : Len(regs[u]) >= BlockRegisters
    BY <1>2, TypeFromHold
  <2>2. file \in Seq(Rows)
    BY <1>1
  <2>3. pass \in 0 .. MaxPass
    BY <1>1
  <2>4. QED
    BY <1>1, <2>1, <2>2, <2>3 DEF TypeOK
<1>4. QED
  BY <1>1, <1>2, <1>3 DEF MapInv, UnderItsName

\* A step that leaves the gateway's last message alone keeps the invariant if
\* it leaves catalogues on both sides and registers that hold the simulator's.
LEMMA SilentStep ==
    ASSUME MapInv, UNCHANGED <<source, reading>>,
           simUp' \in BOOLEAN, gwUp' \in BOOLEAN,
           file' \in Seq(Rows), pass' \in 0 .. MaxPass, simUp' => pass' >= 1,
           Catalogue(sim', source), Catalogue(gw', source), AllHold(regs', sim', pass')
    PROVE  MapInv'
<1>1. /\ DOMAIN regs' = {sim'[n].unit : n \in DOMAIN sim'}
      /\ \A u \in DOMAIN regs' : Len(regs'[u]) >= BlockRegisters
  BY TypeFromHold
<1>2. TypeOK'
  BY <1>1 DEF MapInv, TypeOK
<1>3. UnderItsName'
  BY DEF MapInv, UnderItsName
<1>4. QED
  BY <1>2, <1>3 DEF MapInv

LEMMA SimStartsStep ==
    ASSUME MapInv, SimStarts
    PROVE  MapInv'
<1>1. /\ sim' = DevicesFor(source, file) /\ simUp' = TRUE /\ pass' = 1
      /\ regs' = Refreshed(Blank(sim'), sim', 1)
      /\ UNCHANGED <<source, file, gwUp, gw, reading>>
  BY DEF SimStarts
<1>2. file \in Seq(Rows) /\ source \in {"bms", "ems"} /\ gwUp \in BOOLEAN
  BY DEF MapInv, TypeOK
<1>3. Catalogue(sim', source) /\ Catalogue(gw', source)
  BY <1>1, <1>2, DevicesAreCatalogue DEF MapInv
<1>4. AllHold(regs', sim', 1)
  BY <1>1, <1>3, BlankFacts, RefreshHolds
<1>5. 1 \in 0 .. MaxPass /\ 1 >= 1
  OBVIOUS
<1>6. QED
  BY <1>1, <1>2, <1>3, <1>4, <1>5, SilentStep

LEMMA RefreshStep ==
    ASSUME MapInv, Refresh
    PROVE  MapInv'
<1>1. /\ simUp /\ pass < MaxPass /\ pass' = pass + 1
      /\ regs' = Refreshed(regs, sim, pass')
      /\ UNCHANGED <<source, file, simUp, sim, gwUp, gw, reading>>
  BY DEF Refresh
<1>2. /\ file \in Seq(Rows) /\ pass \in 0 .. MaxPass
      /\ simUp \in BOOLEAN /\ gwUp \in BOOLEAN
      /\ Catalogue(sim, source) /\ Catalogue(gw, source) /\ AllHold(regs, sim, pass)
  BY DEF MapInv, TypeOK
<1>3. AllHold(regs', sim, pass')
  BY <1>1, <1>2, RefreshHolds DEF AllHold
<1>4. pass' \in 0 .. MaxPass /\ pass' >= 1
  BY <1>1, <1>2
<1>5. QED
  BY <1>1, <1>2, <1>3, <1>4, SilentStep

LEMMA StopAndStartStep ==
    ASSUME MapInv, SimStops \/ GatewayStarts \/ GatewayStops
    PROVE  MapInv'
<1>1. /\ file \in Seq(Rows) /\ source \in {"bms", "ems"} /\ pass \in 0 .. MaxPass
      /\ simUp \in BOOLEAN /\ gwUp \in BOOLEAN /\ (simUp => pass >= 1)
      /\ Catalogue(sim, source) /\ Catalogue(gw, source) /\ AllHold(regs, sim, pass)
  BY DEF MapInv, TypeOK
<1>2. CASE SimStops
  <2>1. /\ simUp' = FALSE /\ sim' = NoDevices /\ regs' = NoDevices /\ pass' = 0
        /\ UNCHANGED <<source, file, gwUp, gw, reading>>
    BY <1>2 DEF SimStops
  <2>2. 0 \in 0 .. MaxPass
    OBVIOUS
  <2>3. Catalogue(sim', source) /\ AllHold(regs', sim', pass')
    BY <2>1, NoDevicesHold
  <2>4. QED
    BY <1>1, <2>1, <2>2, <2>3, SilentStep
<1>3. CASE GatewayStarts \/ GatewayStops
  <2>1. /\ gwUp' \in BOOLEAN /\ gw' \in {DevicesFor(source, file), NoDevices}
        /\ UNCHANGED <<source, file, simUp, sim, pass, regs, reading>>
    BY <1>3 DEF GatewayStarts, GatewayStops
  <2>2. Catalogue(gw', source)
    BY <1>1, <2>1, DevicesAreCatalogue, NoDevicesHold
  <2>3. QED
    BY <1>1, <2>1, <2>2, SilentStep
<1>4. QED
  BY <1>2, <1>3

LEMMA AddRowStep ==
    ASSUME MapInv, NEW row \in Rows, AddRow(row)
    PROVE  MapInv'
<1>1. /\ file' = Append(file, row)
      /\ UNCHANGED <<source, simUp, sim, pass, regs, gwUp, gw, reading>>
  BY DEF AddRow
<1>2. /\ file \in Seq(Rows) /\ pass \in 0 .. MaxPass
      /\ simUp \in BOOLEAN /\ gwUp \in BOOLEAN /\ (simUp => pass >= 1)
      /\ Catalogue(sim, source) /\ Catalogue(gw, source) /\ AllHold(regs, sim, pass)
  BY DEF MapInv, TypeOK
<1>3. file' \in Seq(Rows)
  BY <1>1, <1>2
<1>4. QED
  BY <1>1, <1>2, <1>3, SilentStep

\* What a poll decodes is what the simulator's last pass wrote for the same
\* device, if both have it alike.
LEMMA PollStep ==
    ASSUME MapInv, NEW n \in DOMAIN gw, Poll(n)
    PROVE  MapInv'
<1> DEFINE keys   == gw[n].keys
           floats == DecodeMetrics(regs[gw[n].unit], Len(keys))
           place(k) == CHOOSE i \in DOMAIN keys : keys[i] = k
<1>1. /\ Answers(n)
      /\ reading' = [name |-> n, value |-> [k \in ToSet(keys) |-> floats[place(k)]],
                     agreed |-> SameEntry(n)]
      /\ UNCHANGED <<source, file, simUp, sim, pass, regs, gwUp, gw>>
  BY Zenon DEF Poll
<1>2. /\ reading'.name = n /\ reading'.agreed = SameEntry(n)
      /\ DOMAIN reading'.value = ToSet(keys)
      /\ \A k \in ToSet(keys) : reading'.value[k] = floats[place(k)]
  BY <1>1, Zenon
<1>3. SameEntry(n) \in BOOLEAN
  BY DEF SameEntry
<1>4. TypeOK'
  BY <1>1, <1>2, <1>3 DEF MapInv, TypeOK
<1>5. ASSUME SameEntry(n), NEW k \in ToSet(keys)
      PROVE  floats[place(k)] = Cell(n, k, pass)
  <2>1. n \in DOMAIN sim /\ sim[n].unit = gw[n].unit /\ sim[n].keys = keys
    BY <1>5 DEF SameEntry
  <2>2. Holds(regs[gw[n].unit], n, keys, pass)
    BY <2>1 DEF MapInv, AllHold
  <2>3. Len(keys) \in Nat /\ DOMAIN keys = 1 .. Len(keys)
    BY DEF MapInv, Catalogue
  <2> DEFINE i == place(k)
             block == regs[gw[n].unit]
  <2>4. i \in DOMAIN keys /\ keys[i] = k
    BY DEF ToSet
  <2>5. floats[i] = DecodeMetrics(block, Len(keys))[i]
    OBVIOUS
  <2> HIDE DEF keys, floats, place, i, block
  <2>6. i \in 1 .. Len(keys)
    BY <2>3, <2>4
  <2>7. Holds(block, n, keys, pass)
    BY <2>2 DEF block
  <2>8. DecodeMetrics(block, Len(keys))[i] = Cell(n, keys[i], pass)
    BY <2>3, <2>6, <2>7, Decoded
  <2>9. QED
    BY <2>4, <2>5, <2>8 DEF i
<1>6. pass \in 1 .. MaxPass
  <2>1. simUp /\ pass \in 0 .. MaxPass
    BY <1>1 DEF Answers, MapInv, TypeOK
  <2>2. QED
    BY <2>1 DEF MapInv
<1> HIDE DEF keys, floats, place
<1>7. UnderItsName'
  BY <1>2, <1>5, <1>6 DEF UnderItsName
<1>8. QED
  BY <1>1, <1>4, <1>7 DEF MapInv

LEMMA MapStep ==
    ASSUME MapInv, [Next]_vars
    PROVE  MapInv'
<1>1. CASE SimStarts
  BY <1>1, SimStartsStep
<1>2. CASE Refresh
  BY <1>2, RefreshStep
<1>3. CASE SimStops \/ GatewayStarts \/ GatewayStops
  BY <1>3, StopAndStartStep
<1>4. CASE \E n \in DOMAIN gw : Poll(n)
  BY <1>4, PollStep
<1>5. CASE \E row \in Rows : AddRow(row)
  BY <1>5, AddRowStep
<1>6. CASE UNCHANGED vars
  BY <1>6 DEF vars, MapInv, TypeOK, UnderItsName
<1>7. QED
  BY <1>1, <1>2, <1>3, <1>4, <1>5, <1>6 DEF Next

-------------------------------------------------------------------------------
(* What follows.                                                           *)

\* The invariant holds in every reachable state: the registers hold the
\* metrics of each device from the last refresh pass (modbus_server.py).
THEOREM MapInvariant == Spec => []MapInv
<1>1. Init => MapInv
  BY InitInv
<1>2. MapInv /\ [Next]_vars => MapInv'
  BY MapStep
<1>3. QED
  BY <1>1, <1>2, PTL DEF Spec

\* One block of registers for every device, never shorter than it began.
THEOREM TypeCorrect == Spec => []TypeOK
<1>1. MapInv => TypeOK
  BY DEF MapInv
<1>2. QED
  BY <1>1, MapInvariant, PTL

\* Whatever the file was when each side read it, a device that both have
\* alike is published with its own values, each under its own name.
THEOREM PublishedUnderItsName == Spec => []UnderItsName
<1>1. MapInv => UnderItsName
  BY DEF MapInv
<1>2. QED
  BY <1>1, MapInvariant, PTL

\* A device that both sides have alike can be polled.
THEOREM AgreedIsAnswered == Spec => []Answered
<1>1. MapInv => Answered
  <2> SUFFICES ASSUME MapInv, simUp, gwUp, NEW n \in DOMAIN gw,
                      SameEntry(n), gw[n].keys # <<>>
               PROVE  Answers(n)
    BY DEF Answered
  <2> DEFINE keys == gw[n].keys
             block == regs[gw[n].unit]
  <2>1. n \in DOMAIN sim /\ sim[n].unit = gw[n].unit /\ sim[n].keys = keys
    BY DEF SameEntry
  <2>2. gw[n].unit \in DOMAIN regs /\ 2 * Len(keys) <= Len(block)
    BY <2>1 DEF MapInv, AllHold, Holds
  <2>3. keys \in Seq(Int) /\ Len(keys) \in Nat /\ 2 * Len(keys) <= 125 /\ keys # <<>>
    BY DEF MapInv, Catalogue
  <2> HIDE DEF keys
  <2>4. Len(keys) # 0
    BY <2>3
  <2>5. 2 * Len(keys) \in 1 .. 125
    <3> DEFINE c == Len(keys)
    <3>1. c \in Nat /\ c # 0 /\ 2 * c <= 125
      BY <2>3, <2>4
    <3> HIDE DEF c
    <3>2. 2 * c \in 1 .. 125
      BY <3>1
    <3>3. QED
      BY <3>2 DEF c
  <2>6. QED
    BY <2>2, <2>5 DEF Answers, keys, block
<1>2. QED
  BY <1>1, MapInvariant, PTL

-------------------------------------------------------------------------------
(* The sample file.                                                        *)

\* What a device was seen to show of one of its metrics.
LEMMA ObservedFacts ==
    ASSUME NEW rows \in Seq(Rows), NEW n, NEW k \in KeysOf(rows, n)
    PROVE  /\ IsFiniteSet(Observed(rows, n, k)) /\ Observed(rows, n, k) \subseteq Int
           /\ Observed(rows, n, k) # {}
<1> DEFINE D == {j \in Named(rows, n) : k \in DOMAIN rows[j].numbers}
           f == [i \in D |-> rows[i].numbers[k]]
<1>1. IsFiniteSet(D)
  <2>1. D \in SUBSET DOMAIN rows
    BY DEF Named
  <2> HIDE DEF D
  <2>2. QED
    BY <2>1, FileFacts, FS_Subset
<1>2. DOMAIN f = D /\ Observed(rows, n, k) = {f[i] : i \in D}
  BY DEF Observed
<1>3. D # {}
  BY DEF KeysOf
<1>4. \A i \in D : f[i] \in Int
  BY FileFacts DEF Named
<1> HIDE DEF f, D
<1>5. IsFiniteSet(Observed(rows, n, k))
  BY <1>1, <1>2, FiniteImage
<1>6. QED
  BY <1>2, <1>3, <1>4, <1>5

\* A range has room on both sides of the nominal value and holds the sample.
LEMMA RangeIsOpen ==
    ASSUME NEW rows \in Seq(Rows), NEW n, NEW k \in KeysOf(rows, n)
    PROVE  LET spec == MetricSpec(rows, n, k) IN
           /\ spec.lo < spec.nominal /\ spec.nominal < spec.hi
           /\ \A v \in Observed(rows, n, k) : spec.lo <= 40 * v /\ 40 * v <= spec.hi
<1> DEFINE seen == Observed(rows, n, k)
           lo == Min(seen)
           hi == Max(seen)
           range == Widened(lo, hi)
<1>1. /\ seen \subseteq Int /\ lo \in seen /\ hi \in seen
      /\ \A v \in seen : lo <= v /\ v <= hi
  BY ObservedFacts, MinOfFinite, MaxOfFinite
<1>2. MetricSpec(rows, n, k) =
          [lo |-> range[1], hi |-> range[2], nominal |-> (range[1] + range[2]) \div 2]
  BY Zenon DEF MetricSpec
<1> HIDE DEF seen, lo, hi
<1>3. lo \in Int /\ hi \in Int /\ lo <= hi
  BY <1>1
<1>4. /\ range[1] \in Int /\ range[2] \in Int
      /\ range[1] <= 40 * lo /\ 40 * hi <= range[2] /\ range[2] - range[1] >= 40
  <2>1. CASE lo # hi
    <3>1. range[1] = 40 * lo /\ range[2] = 40 * hi
      BY <2>1 DEF Widened
    <3> HIDE DEF range
    <3>2. QED
      BY <1>3, <2>1, <3>1
  <2>2. CASE lo = hi
    <3> DEFINE abs == Max({lo, -lo})
    <3>1. /\ range[1] = 40 * lo - (2 * abs + 20)
          /\ range[2] = 40 * hi + (2 * abs + 20)
      BY <2>2 DEF Widened
    <3>2. abs \in Int /\ abs >= 0
      <4>1. -lo \in Int
        BY <1>3
      <4>2. abs = IF lo >= -lo THEN lo ELSE -lo
        BY <1>3, <4>1, MaxOfTwo
      <4> HIDE DEF abs
      <4>3. QED
        BY <1>3, <4>2
    <3> HIDE DEF range, abs
    <3>3. QED
      BY <1>3, <2>2, <3>1, <3>2
  <2>3. QED
    BY <2>1, <2>2
<1> HIDE DEF range
<1>5. /\ range[1] < (range[1] + range[2]) \div 2
      /\ (range[1] + range[2]) \div 2 < range[2]
  <2> DEFINE a == range[1]
             b == range[2]
  <2>1. a \in Int /\ b \in Int /\ b - a >= 40
    BY <1>4
  <2> HIDE DEF a, b
  <2>2. a < (a + b) \div 2 /\ (a + b) \div 2 < b
    BY <2>1
  <2>3. QED
    BY <2>2 DEF a, b
<1>6. \A v \in seen : range[1] <= 40 * v /\ 40 * v <= range[2]
  <2>1. ASSUME NEW v \in seen
        PROVE  range[1] <= 40 * v /\ 40 * v <= range[2]
    <3>1. v \in Int /\ lo <= v /\ v <= hi
      BY <1>1
    <3>2. QED
      BY <1>3, <1>4, <3>1
  <2>2. QED
    BY <2>1
<1>7. QED
  BY <1>2, <1>5, <1>6 DEF seen

\* The generator of every metric has room to move, whatever the sample shows.
THEOREM EveryRangeIsOpen == Spec => []RangesOpen
<1>1. TypeOK => RangesOpen
  <2> SUFFICES ASSUME TypeOK, NEW n \in Sampled(file), NEW k \in KeysOf(file, n)
               PROVE  LET spec == MetricSpec(file, n, k) IN
                      /\ spec.lo < spec.nominal /\ spec.nominal < spec.hi
                      /\ \A v \in Observed(file, n, k) :
                             spec.lo <= 40 * v /\ 40 * v <= spec.hi
    BY DEF RangesOpen
  <2>1. file \in Seq(Rows)
    BY DEF TypeOK
  <2>2. QED
    BY <2>1, RangeIsOpen
<1>2. QED
  BY <1>1, TypeCorrect, PTL

\* A row with nothing new to name changes neither the devices nor their
\* metrics.
LEMMA CalibrationRow ==
    ASSUME NEW rows \in Seq(Rows), NEW row \in Rows,
           row.name \in Sampled(rows), DOMAIN row.numbers \subseteq KeysOf(rows, row.name)
    PROVE  BmsCatalogue(Append(rows, row)) = BmsCatalogue(rows)
<1> DEFINE longer == Append(rows, row)
           last == Len(rows) + 1
<1>1. /\ Len(rows) \in Nat /\ DOMAIN rows = 1 .. Len(rows)
      /\ DOMAIN longer = 1 .. last /\ longer[last] = row
      /\ \A i \in 1 .. Len(rows) : longer[i] = rows[i]
  OBVIOUS
<1>2. DOMAIN longer = DOMAIN rows \cup {last}
  BY <1>1
<1> HIDE DEF longer, last
<1>3. Sampled(longer) = Sampled(rows)
  BY <1>1, <1>2 DEF Sampled
<1>4. ASSUME NEW n
      PROVE  KeysOf(longer, n) = KeysOf(rows, n)
  <2>1. \A i \in Named(rows, n) : i \in Named(longer, n) /\ longer[i] = rows[i]
    BY <1>1, <1>2 DEF Named
  <2>2. \A i \in Named(longer, n) :
            (i \in Named(rows, n) /\ longer[i] = rows[i]) \/ (longer[i] = row /\ n = row.name)
    BY <1>1, <1>2 DEF Named
  <2>3. KeysOf(rows, n) \subseteq KeysOf(longer, n)
    BY <2>1 DEF KeysOf
  <2>4. KeysOf(longer, n) \subseteq KeysOf(rows, n)
    BY <2>2 DEF KeysOf
  <2>5. QED
    BY <2>3, <2>4
<1>5. BmsCatalogue(longer) = BmsCatalogue(rows)
  BY <1>3, <1>4, Zenon DEF BmsCatalogue, Metrics
<1>6. QED
  BY <1>5 DEF longer

\* One side may be restarted without the other after a row that shows only
\* another value (registry.py collects devices and keys over all rows).
THEOREM CalibrationIsSilent == Spec => CalibrationKeepsTheMap
<1>1. TypeOK /\ [Next]_vars =>
          [\A row \in Rows :
               (/\ file' = Append(file, row)
                /\ row.name \in Sampled(file)
                /\ DOMAIN row.numbers \subseteq KeysOf(file, row.name))
                   => BmsCatalogue(file') = BmsCatalogue(file)]_vars
  <2>1. ASSUME TypeOK, NEW row \in Rows, file' = Append(file, row),
               row.name \in Sampled(file),
               DOMAIN row.numbers \subseteq KeysOf(file, row.name)
        PROVE  BmsCatalogue(file') = BmsCatalogue(file)
    <3>1. file \in Seq(Rows)
      BY <2>1 DEF TypeOK
    <3>2. BmsCatalogue(Append(file, row)) = BmsCatalogue(file)
      BY <2>1, <3>1, CalibrationRow
    <3>3. QED
      BY <2>1, <3>2
  <2>2. QED
    BY <2>1
<1>2. QED
  BY <1>1, TypeCorrect, PTL DEF Spec, CalibrationKeepsTheMap
===============================================================================
