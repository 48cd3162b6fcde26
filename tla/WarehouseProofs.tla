---------------------------- MODULE WarehouseProofs ----------------------------
(***************************************************************************)
(* Proofs about WarehouseBuild, for every set of machines and work orders, *)
(* any number of upserts, builds and refreshes, and any number of slots.   *)
(***************************************************************************)
EXTENDS WarehouseBuild, SequenceTheorems, TLAPS

USE BoundsAssumption DEF BoundsAssumption

-------------------------------------------------------------------------------
(* Tables as sequences.                                                    *)

Row == Machines \cup Orders

\* A table of rows of dimension d, none of them twice.
Table(d) == {s \in Seq(Row) : IsInjective(s) /\ ToSet(s) \subseteq RowsOf(d)}

LEMMA TableFacts ==
    ASSUME NEW d \in Dims, NEW s \in Table(d)
    PROVE  /\ s \in Seq(Row) /\ Len(s) \in Nat /\ DOMAIN s = 1 .. Len(s)
           /\ \A i \in DOMAIN s : s[i] \in RowsOf(d) /\ s[i] \in Row
           /\ \A i, j \in DOMAIN s : s[i] = s[j] => i = j
BY LenProperties, ElementOfSeq DEF Table, IsInjective, ToSet

LEMMA TableIntro ==
    ASSUME NEW d \in Dims, NEW s \in Seq(Row),
           \A i \in DOMAIN s : s[i] \in RowsOf(d),
           \A i, j \in DOMAIN s : s[i] = s[j] => i = j
    PROVE  s \in Table(d)
BY DEF Table, IsInjective, ToSet

LEMMA EmptyTable ==
    ASSUME NEW d \in Dims
    PROVE  <<>> \in Table(d) /\ Len(<<>>) = 0
BY EmptySeq DEF Table, IsInjective, ToSet

\* An insert.
LEMMA AppendedTable ==
    ASSUME NEW d \in Dims, NEW s \in Table(d), NEW r \in RowsOf(d), r \notin ToSet(s)
    PROVE  Append(s, r) \in Table(d) /\ Len(Append(s, r)) = Len(s) + 1
<1> DEFINE t == Append(s, r)
<1>1. /\ s \in Seq(Row) /\ Len(s) \in Nat /\ DOMAIN s = 1 .. Len(s) /\ r \in Row
      /\ \A i \in DOMAIN s : s[i] \in RowsOf(d) /\ s[i] # r
      /\ \A i, j \in DOMAIN s : s[i] = s[j] => i = j
  BY TableFacts DEF ToSet, RowsOf, Row
<1>2. /\ t \in Seq(Row) /\ Len(t) = Len(s) + 1 /\ DOMAIN t = 1 .. Len(s) + 1
      /\ \A i \in 1 .. Len(s) : t[i] = s[i]
      /\ t[Len(s) + 1] = r
  BY <1>1, AppendProperties, LenProperties
<1> HIDE DEF t
<1>3. \A i \in DOMAIN t : t[i] \in RowsOf(d)
  BY <1>1, <1>2
<1>4. ASSUME NEW i \in DOMAIN t, NEW j \in DOMAIN t, t[i] = t[j]
      PROVE  i = j
  <2>1. i \in DOMAIN s \/ i = Len(s) + 1
    BY <1>1, <1>2
  <2>2. j \in DOMAIN s \/ j = Len(s) + 1
    BY <1>1, <1>2
  <2>3. QED
    BY <1>1, <1>2, <1>4, <2>1, <2>2
<1>5. QED
  BY <1>2, <1>3, <1>4, TableIntro DEF t

\* An update that moves a row: where the row in each place was before.
Before(i, place, k) ==
    LET rest == IF k < place THEN k ELSE k - 1
    IN IF k = place THEN i ELSE IF rest < i THEN rest ELSE rest + 1

Moved(s, i, place) == InsertAt(RemoveAt(s, i), place, s[i])

LEMMA MovedRow ==
    ASSUME NEW S, NEW s \in Seq(S), NEW i \in 1 .. Len(s), NEW place \in 1 .. Len(s)
    PROVE  /\ Moved(s, i, place) \in Seq(S) /\ Len(Moved(s, i, place)) = Len(s)
           /\ \A k \in 1 .. Len(s) : Moved(s, i, place)[k] = s[Before(i, place, k)]
<1> DEFINE n == Len(s)
           a == SubSeq(s, 1, i - 1)
           b == SubSeq(s, i + 1, n)
           rest == a \o b
           c == SubSeq(rest, 1, place - 1)
           e == SubSeq(rest, place, Len(rest))
           m == c \o <<s[i]>>
           t == m \o e
<1>1. n \in Nat /\ \A k \in 1 .. n : s[k] \in S
  BY LenProperties, ElementOfSeq
<1>2. /\ a \in Seq(S) /\ Len(a) = i - 1
      /\ \A k \in 1 .. i - 1 : a[k] = s[k]
  <2>1. \A k \in 1 .. i - 1 : s[k] \in S
    BY <1>1
  <2>2. i - 1 \in Int /\ 1 \in Int
    BY <1>1
  <2>3. /\ a \in Seq(S) /\ Len(a) = IF 1 <= i - 1 THEN (i - 1) - 1 + 1 ELSE 0
        /\ \A k \in 1 .. (i - 1) - 1 + 1 : a[k] = s[1 + k - 1]
    BY <2>1, <2>2, SubSeqProperties
  <2>4. QED
    BY <1>1, <2>3
<1>3. /\ b \in Seq(S) /\ Len(b) = n - i
      /\ \A k \in 1 .. n - i : b[k] = s[i + k]
  <2>1. \A k \in i + 1 .. n : s[k] \in S
    BY <1>1
  <2>2. i + 1 \in Int /\ n \in Int
    BY <1>1
  <2>3. /\ b \in Seq(S) /\ Len(b) = IF i + 1 <= n THEN n - (i + 1) + 1 ELSE 0
        /\ \A k \in 1 .. n - (i + 1) + 1 : b[k] = s[(i + 1) + k - 1]
    BY <2>1, <2>2, SubSeqProperties
  <2>4. QED
    BY <1>1, <2>3
<1> HIDE DEF a, b
<1>4. /\ rest \in Seq(S) /\ Len(rest) = n - 1
      /\ \A k \in 1 .. n - 1 : rest[k] = IF k < i THEN s[k] ELSE s[k + 1]
  <2>1. /\ rest \in Seq(S) /\ Len(rest) = Len(a) + Len(b)
        /\ \A k \in 1 .. Len(a) + Len(b) :
               rest[k] = IF k <= Len(a) THEN a[k] ELSE b[k - Len(a)]
    BY <1>2, <1>3, ConcatProperties
  <2>2. Len(a) + Len(b) = n - 1
    BY <1>1, <1>2, <1>3
  <2>3. ASSUME NEW k \in 1 .. n - 1
        PROVE  rest[k] = IF k < i THEN s[k] ELSE s[k + 1]
    <3>1. CASE k < i
      BY <1>1, <1>2, <2>1, <2>2, <3>1
    <3>2. CASE ~(k < i)
      <4>1. k \in 1 .. Len(a) + Len(b) /\ ~(k <= Len(a)) /\ Len(a) = i - 1
        BY <1>1, <1>2, <2>2, <3>2
      <4>2. k - (i - 1) \in 1 .. n - i /\ i + (k - (i - 1)) = k + 1
        BY <1>1, <3>2
      <4>3. rest[k] = b[k - (i - 1)]
        BY <2>1, <4>1
      <4>4. b[k - (i - 1)] = s[i + (k - (i - 1))]
        BY <1>3, <4>2
      <4>5. QED
        BY <3>2, <4>2, <4>3, <4>4
    <3>3. QED
      BY <3>1, <3>2
  <2>4. QED
    BY <2>1, <2>2, <2>3
<1>5. \A k \in 1 .. n - 1 : rest[k] \in S
  BY <1>4, LenProperties, ElementOfSeq
<1> HIDE DEF rest
<1>6. /\ c \in Seq(S) /\ Len(c) = place - 1
      /\ \A k \in 1 .. place - 1 : c[k] = rest[k]
  <2>1. \A k \in 1 .. place - 1 : rest[k] \in S
    BY <1>1, <1>5
  <2>2. place - 1 \in Int /\ 1 \in Int
    BY <1>1
  <2>3. /\ c \in Seq(S) /\ Len(c) = IF 1 <= place - 1 THEN (place - 1) - 1 + 1 ELSE 0
        /\ \A k \in 1 .. (place - 1) - 1 + 1 : c[k] = rest[1 + k - 1]
    BY <2>1, <2>2, SubSeqProperties
  <2>4. QED
    BY <1>1, <2>3
<1>7. /\ e \in Seq(S) /\ Len(e) = n - place
      /\ \A k \in 1 .. n - place : e[k] = rest[place + k - 1]
  <2>1. \A k \in place .. n - 1 : rest[k] \in S
    BY <1>1, <1>5
  <2>2. place \in Int /\ n - 1 \in Int /\ Len(rest) = n - 1
    BY <1>1, <1>4
  <2>3. /\ e \in Seq(S) /\ Len(e) = IF place <= n - 1 THEN n - 1 - place + 1 ELSE 0
        /\ \A k \in 1 .. n - 1 - place + 1 : e[k] = rest[place + k - 1]
    BY <2>1, <2>2, SubSeqProperties
  <2>4. QED
    BY <1>1, <2>3
<1> HIDE DEF c, e
<1>8. /\ m \in Seq(S) /\ Len(m) = place
      /\ \A k \in 1 .. place : m[k] = IF k < place THEN rest[k] ELSE s[i]
  <2>1. m = Append(c, s[i])
    BY <1>1, <1>6, AppendIsConcat
  <2>2. QED
    BY <1>1, <1>6, <2>1, AppendProperties
<1> HIDE DEF m
<1>9. /\ t \in Seq(S) /\ Len(t) = n
      /\ \A k \in 1 .. n : t[k] = IF k <= place THEN m[k] ELSE e[k - place]
  <2>1. /\ t \in Seq(S) /\ Len(t) = Len(m) + Len(e)
        /\ \A k \in 1 .. Len(m) + Len(e) : t[k] = IF k <= Len(m) THEN m[k] ELSE e[k - Len(m)]
    BY <1>7, <1>8, ConcatProperties
  <2>2. Len(m) + Len(e) = n
    BY <1>1, <1>7, <1>8
  <2>3. QED
    BY <1>8, <2>1, <2>2
<1>10. t = Moved(s, i, place)
  BY DEF t, m, c, e, rest, a, b, Moved, InsertAt, RemoveAt
<1> HIDE DEF t
<1>11. ASSUME NEW k \in 1 .. n
       PROVE  t[k] = s[Before(i, place, k)]
  <2>1. CASE k < place
    <3>1. t[k] = rest[k] /\ k \in 1 .. n - 1
      BY <1>1, <1>8, <1>9, <2>1
    <3>2. QED
      BY <1>1, <1>4, <2>1, <3>1 DEF Before
  <2>2. CASE k = place
    BY <1>1, <1>8, <1>9, <2>2 DEF Before
  <2>3. CASE k > place
    <3>1. t[k] = e[k - place] /\ k - place \in 1 .. n - place
      BY <1>1, <1>9, <2>3
    <3>2. t[k] = rest[k - 1] /\ k - 1 \in 1 .. n - 1
      BY <1>1, <1>7, <2>3, <3>1
    <3>3. QED
      BY <1>1, <1>4, <2>3, <3>2 DEF Before
  <2>4. QED
    BY <1>1, <2>1, <2>2, <2>3
<1>12. QED
  BY <1>9, <1>10, <1>11

LEMMA BeforeIsOneToOne ==
    ASSUME NEW n \in Nat, NEW i \in 1 .. n, NEW place \in 1 .. n
    PROVE  /\ \A k \in 1 .. n : Before(i, place, k) \in 1 .. n
           /\ \A k, l \in 1 .. n : Before(i, place, k) = Before(i, place, l) => k = l
BY DEF Before

LEMMA MovedTable ==
    ASSUME NEW d \in Dims, NEW s \in Table(d), NEW i \in DOMAIN s, NEW place \in DOMAIN s
    PROVE  Moved(s, i, place) \in Table(d) /\ Len(Moved(s, i, place)) = Len(s)
<1> DEFINE t == Moved(s, i, place)
<1>1. /\ s \in Seq(Row) /\ Len(s) \in Nat /\ DOMAIN s = 1 .. Len(s)
      /\ \A k \in DOMAIN s : s[k] \in RowsOf(d)
      /\ \A k, l \in DOMAIN s : s[k] = s[l] => k = l
  BY TableFacts
<1>2. /\ t \in Seq(Row) /\ Len(t) = Len(s)
      /\ \A k \in 1 .. Len(s) : t[k] = s[Before(i, place, k)]
  <2>1. i \in 1 .. Len(s) /\ place \in 1 .. Len(s) /\ s \in Seq(Row)
    BY <1>1
  <2> HIDE DEF Row
  <2>2. QED
    BY <2>1, MovedRow
<1>3. DOMAIN t = 1 .. Len(s)
  BY <1>2, LenProperties
<1> HIDE DEF t
<1>4. /\ \A k \in 1 .. Len(s) : Before(i, place, k) \in 1 .. Len(s)
      /\ \A k, l \in 1 .. Len(s) : Before(i, place, k) = Before(i, place, l) => k = l
  BY <1>1, BeforeIsOneToOne
<1>5. t \in Table(d)
  BY <1>1, <1>2, <1>3, <1>4, TableIntro
<1>6. QED
  BY <1>2, <1>5 DEF t

-------------------------------------------------------------------------------
(* The inductive invariant.                                                *)

\* erp_raw never has fewer rows than the dimension that was built from it.
DimsFollowRaw == \A d \in Dims : Len(dim[d]) <= Len(raw[d])

\* dbt has built every dimension a finished fact has keys of, in this run.
FactsAfterDims == \A f \in Facts : node[f] = "done" => \A d \in KeysOf(f) : node[d] = "done"

IInv == TypeOK /\ DimsFollowRaw /\ FactsAfterDims /\ KeysExist /\ MismatchExplained

\* TypeOK in the words of Table.
LEMMA TablesTyping ==
    ASSUME TypeOK
    PROVE  \A d \in Dims : raw[d] \in Table(d) /\ dim[d] \in Table(d)
BY DEF TypeOK, Table, Row

Tables == \A d \in Dims : raw[d] \in Table(d) /\ dim[d] \in Table(d)

LEMMA TablesFacts ==
    ASSUME TypeOK
    PROVE  /\ Tables
           /\ \A d \in Dims : /\ Len(raw[d]) \in Nat /\ DOMAIN raw[d] = 1 .. Len(raw[d])
                              /\ Len(dim[d]) \in Nat /\ DOMAIN dim[d] = 1 .. Len(dim[d])
BY TablesTyping, TableFacts DEF Tables

LEMMA NodeNames ==
    /\ Dims \cap Facts = {} /\ View \notin Dims /\ View \notin Facts
    /\ Dims \subseteq Nodes /\ Facts \subseteq Nodes /\ View \in Nodes
BY DEF Dims, Facts, View, Nodes

LEMMA Initially ==
    ASSUME Init
    PROVE  IInv
<1>1. Tables
  BY EmptyTable DEF Init, Tables
<1>2. raw \in [Dims -> Seq(Row)] /\ dim \in [Dims -> Seq(Row)]
  BY EmptySeq DEF Init
<1>3. /\ fact = [f \in Facts |-> [d \in KeysOf(f) |-> fact[f][d]]]
      /\ \A f \in Facts : \A d \in KeysOf(f) : fact[f][d] = {}
  BY DEF Init
<1>4. TypeOK
  <2>1. /\ \A d \in Dims : IsInjective(raw[d]) /\ ToSet(raw[d]) \subseteq RowsOf(d)
        /\ \A d \in Dims : IsInjective(dim[d]) /\ ToSet(dim[d]) \subseteq RowsOf(d)
    BY <1>1 DEF Tables, Table
  <2>2. node \in [Nodes -> {"todo", "done", "failed", "skipped"}]
    BY DEF Init
  <2>3. landed \in BOOLEAN /\ serving \in BOOLEAN /\ refreshed \in BOOLEAN
    BY DEF Init
  <2>6. /\ phase \in {"idle", "queued", "run", "test"} /\ tries \in 0 .. Retries
        /\ builds \in 0 .. MaxBuilds /\ refreshes \in 0 .. MaxRefreshes
        /\ upserts \in 0 .. MaxUpserts
    BY DEF Init, Retries
  <2>4. \A f \in Facts : \A d \in KeysOf(f) : fact[f][d] \subseteq RowsOf(d) \X Nat
    BY <1>3
  <2>5. QED
    BY <1>2, <1>3, <2>1, <2>2, <2>3, <2>4, <2>6 DEF TypeOK, Row
<1>5. DimsFollowRaw /\ FactsAfterDims
  <2>1. \A d \in Dims : raw[d] = <<>> /\ dim[d] = <<>>
    BY DEF Init
  <2>2. Len(<<>>) <= Len(<<>>)
    BY EmptyTable
  <2>3. \A f \in Facts : node[f] = "todo"
    BY NodeNames DEF Init
  <2>4. QED
    BY <2>1, <2>2, <2>3 DEF DimsFollowRaw, FactsAfterDims
<1>6. KeysExist /\ MismatchExplained
  BY <1>3 DEF KeysExist, MismatchExplained, Agrees
<1>7. QED
  BY <1>4, <1>5, <1>6 DEF IInv

-------------------------------------------------------------------------------
(* The steps.                                                              *)

\* The sink leaves the star schema alone, and every table as long as it was
\* or longer.
LEMMA SinkStep ==
    ASSUME IInv, NEW d \in Dims, NEW s \in Table(d), Len(raw[d]) <= Len(s),
           raw' = [raw EXCEPT ![d] = s],
           UNCHANGED <<landed, dim, fact, build, refreshes, refreshed>>,
           upserts' \in 0 .. MaxUpserts
    PROVE  IInv'
<1>1. TypeOK /\ Tables /\ UNCHANGED <<phase, serving, node, tries, builds>>
  BY TablesFacts DEF IInv, build
<1>2. raw'[d] = s /\ \A e \in Dims \ {d} : raw'[e] = raw[e]
  BY <1>1 DEF TypeOK
<1>3. raw' \in [Dims -> Seq(Row)]
  BY <1>1, TableFacts DEF TypeOK, Row
<1>4. Tables'
  BY <1>1, <1>2 DEF Tables
<1>5. TypeOK'
  BY <1>1, <1>3, <1>4 DEF TypeOK, Tables, Table, Row
<1>6. DimsFollowRaw'
  <2>1. \A e \in Dims : Len(raw[e]) \in Nat /\ Len(dim[e]) \in Nat
    BY <1>1, TablesFacts
  <2>2. Len(s) \in Nat
    BY TableFacts
  <2>3. QED
    BY <1>2, <2>1, <2>2 DEF IInv, DimsFollowRaw
<1>7. FactsAfterDims' /\ KeysExist' /\ MismatchExplained'
  BY <1>1 DEF IInv, FactsAfterDims, KeysExist, MismatchExplained, Agrees
<1>8. QED
  BY <1>5, <1>6, <1>7 DEF IInv

LEMMA ArrivesStep ==
    ASSUME IInv, NEW d \in Dims, NEW r \in RowsOf(d), Arrives(d, r)
    PROVE  IInv'
<1>1. raw[d] \in Table(d) /\ Len(raw[d]) \in Nat /\ upserts \in 0 .. MaxUpserts
  BY TablesFacts DEF IInv, TypeOK, Tables
<1>2. /\ raw' = [raw EXCEPT ![d] = Append(raw[d], r)] /\ r \notin ToSet(raw[d])
      /\ UNCHANGED <<landed, dim, fact, build, refreshes, refreshed, upserts>>
  BY DEF Arrives
<1>3. Append(raw[d], r) \in Table(d) /\ Len(raw[d]) <= Len(Append(raw[d], r))
  BY <1>1, <1>2, AppendedTable
<1>4. QED
  BY <1>1, <1>2, <1>3, SinkStep

LEMMA UpsertStep ==
    ASSUME IInv, NEW d \in Dims, NEW r \in RowsOf(d), Upsert(d, r)
    PROVE  IInv'
<1>1. raw[d] \in Table(d) /\ Len(raw[d]) \in Nat /\ upserts' \in 0 .. MaxUpserts
  <2>1. upserts \in 0 .. MaxUpserts
    BY DEF IInv, TypeOK
  <2>2. upserts < MaxUpserts /\ upserts' = upserts + 1
    BY DEF Upsert
  <2>3. upserts' \in 0 .. MaxUpserts
    BY <2>1, <2>2
  <2>4. raw[d] \in Table(d) /\ Len(raw[d]) \in Nat
    BY TablesFacts DEF IInv, TypeOK, Tables
  <2>5. QED
    BY <2>3, <2>4
<1>2. PICK i, place \in DOMAIN raw[d] :
          /\ raw[d][i] = r
          /\ raw' = [raw EXCEPT ![d] = InsertAt(RemoveAt(raw[d], i), place, r)]
  BY DEF Upsert
<1>3. UNCHANGED <<landed, dim, fact, build, refreshes, refreshed>>
  BY DEF Upsert
<1> DEFINE t == Moved(raw[d], i, place)
<1>4. t \in Table(d) /\ Len(raw[d]) <= Len(t)
  BY <1>1, MovedTable
<1>5. raw' = [raw EXCEPT ![d] = t]
  BY <1>2 DEF Moved
<1> HIDE DEF t
<1>6. QED
  BY <1>1, <1>3, <1>4, <1>5, SinkStep

LEMMA DepsCoverKeys ==
    ASSUME NEW f \in Facts
    PROVE  KeysOf(f) \subseteq Deps(f) /\ KeysOf(f) \subseteq Dims
BY DEF Facts, KeysOf, Deps, Dims, View

\* A dimension is replaced by the rows of erp_raw, while dbt builds it or by
\* the refresh, and only then.
LEMMA ReplaceDim ==
    ASSUME IInv, NEW d \in Dims, dim' = [dim EXCEPT ![d] = raw[d]],
           UNCHANGED <<raw, landed, fact, tries, builds, upserts, serving, phase>>,
           node' \in [Nodes -> {"todo", "done", "failed", "skipped"}],
           refreshes' \in 0 .. MaxRefreshes, refreshed' \in BOOLEAN
    PROVE  /\ TypeOK' /\ DimsFollowRaw' /\ KeysExist'
           /\ \A e \in Dims \ {d} : dim'[e] = dim[e]
<1>1. TypeOK /\ Tables
  BY TablesFacts DEF IInv
<1>2. dim'[d] = raw[d] /\ \A e \in Dims \ {d} : dim'[e] = dim[e]
  BY <1>1 DEF TypeOK
<1>3. dim' \in [Dims -> Seq(Row)] /\ raw \in [Dims -> Seq(Row)]
  BY <1>1 DEF TypeOK, Row
<1>4. Tables'
  BY <1>1, <1>2 DEF Tables
<1>5. TypeOK'
  BY <1>1, <1>3, <1>4 DEF TypeOK, Tables, Table, Row
<1>6. \A e \in Dims : /\ Len(raw[e]) \in Nat /\ Len(dim[e]) \in Nat
                      /\ DOMAIN raw[e] = 1 .. Len(raw[e]) /\ DOMAIN dim[e] = 1 .. Len(dim[e])
                      /\ Len(dim[e]) <= Len(raw[e])
  BY <1>1, TablesFacts DEF IInv, DimsFollowRaw
<1>7. DimsFollowRaw'
  BY <1>2, <1>6 DEF DimsFollowRaw
<1>8. \A e \in Dims : DOMAIN dim[e] \subseteq DOMAIN dim'[e]
  BY <1>2, <1>6
<1>9. KeysExist'
  BY <1>8, DepsCoverKeys DEF IInv, KeysExist
<1>10. QED
  BY <1>2, <1>5, <1>7, <1>9

LEMMA BuildDimStep ==
    ASSUME IInv, NEW d \in Dims, BuildDim(d)
    PROVE  IInv'
<1>1. TypeOK /\ phase = "run" /\ node[d] = "todo"
  BY DEF IInv, BuildDim, Ready
<1>2. UNCHANGED <<raw, landed, fact, phase, serving, tries, builds, refreshes, upserts>>
  BY DEF BuildDim
<1>3. /\ node' \in [Nodes -> {"todo", "done", "failed", "skipped"}]
      /\ \A n \in Nodes \ {d} : node'[n] = node[n]
  BY <1>1, NodeNames DEF BuildDim, Becomes, TypeOK
<1>4. \A f \in Facts : d \in KeysOf(f) => node[f] # "done"
  BY <1>1 DEF IInv, FactsAfterDims
<1>5. \A f \in Facts : node'[f] = node[f]
  BY <1>3, NodeNames
<1>6. FactsAfterDims'
  <2>1. ASSUME NEW f \in Facts, node'[f] = "done", NEW e \in KeysOf(f)
        PROVE  node'[e] = "done"
    <3>1. node[f] = "done" /\ e # d
      BY <1>4, <1>5, <2>1
    <3>2. node[e] = "done" /\ e \in Nodes
      BY <2>1, <3>1, DepsCoverKeys, NodeNames DEF IInv, FactsAfterDims
    <3>3. QED
      BY <1>3, <3>1, <3>2
  <2>2. QED
    BY <2>1 DEF FactsAfterDims
<1>7. CASE raw[d] = <<>>
  <2>1. UNCHANGED <<dim, refreshed>>
    BY <1>7 DEF BuildDim
  <2>2. TypeOK' /\ DimsFollowRaw' /\ KeysExist'
    BY <1>1, <1>2, <1>3, <2>1 DEF IInv, TypeOK, DimsFollowRaw, KeysExist
  <2>3. MismatchExplained'
    BY <1>2, <1>5, <2>1 DEF IInv, MismatchExplained, Agrees
  <2>4. QED
    BY <1>6, <2>2, <2>3 DEF IInv
<1>8. CASE raw[d] # <<>>
  <2>1. /\ dim' = [dim EXCEPT ![d] = raw[d]]
        /\ refreshed' = (refreshed /\ d # "dim_machine") /\ refreshed' \in BOOLEAN
    BY <1>1, <1>8 DEF BuildDim, TypeOK
  <2>2. /\ TypeOK' /\ DimsFollowRaw' /\ KeysExist'
        /\ \A e \in Dims \ {d} : dim'[e] = dim[e]
    <3>1. refreshes' \in 0 .. MaxRefreshes
      BY <1>1, <1>2 DEF TypeOK
    <3>2. QED
      BY <1>2, <1>3, <2>1, <3>1, ReplaceDim
  <2>3. ASSUME NEW f \in Facts, NEW e \in KeysOf(f)
        PROVE  \/ Agrees(f, e)'
               \/ node'[f] # "done"
               \/ e = "dim_machine" /\ refreshed'
    <3>1. CASE e = d
      BY <1>4, <1>5, <3>1
    <3>2. CASE e # d
      <4>1. dim'[e] = dim[e] /\ fact' = fact /\ node'[f] = node[f]
        BY <1>2, <1>5, <2>2, <3>2, DepsCoverKeys
      <4>2. e = "dim_machine" /\ refreshed => refreshed'
        BY <2>1, <3>2
      <4>3. QED
        BY <4>1, <4>2 DEF IInv, MismatchExplained, Agrees
    <3>3. QED
      BY <3>1, <3>2
  <2>4. QED
    BY <1>6, <2>2, <2>3 DEF IInv, MismatchExplained
<1>9. QED
  BY <1>7, <1>8

\* Truncated and filled again, in one transaction.
LEMMA RefreshStep ==
    ASSUME IInv, Refresh
    PROVE  IInv'
<1>1. TypeOK /\ "dim_machine" \in Dims
  BY DEF IInv, Dims
<1>2. /\ dim' = [dim EXCEPT !["dim_machine"] = raw["dim_machine"]]
      /\ UNCHANGED <<raw, landed, fact, tries, builds, upserts, serving, phase, node>>
      /\ refreshed' = TRUE
  BY DEF Refresh, build
<1>3. /\ refreshes' \in 0 .. MaxRefreshes
      /\ node' \in [Nodes -> {"todo", "done", "failed", "skipped"}]
  BY <1>1, <1>2 DEF Refresh, TypeOK
<1>4. /\ TypeOK' /\ DimsFollowRaw' /\ KeysExist'
      /\ \A e \in Dims \ {"dim_machine"} : dim'[e] = dim[e]
  BY <1>1, <1>2, <1>3, ReplaceDim
<1>5. FactsAfterDims'
  BY <1>2 DEF IInv, FactsAfterDims
<1>6. MismatchExplained'
  BY <1>2, <1>4, DepsCoverKeys DEF IInv, MismatchExplained, Agrees
<1>7. QED
  BY <1>4, <1>5, <1>6 DEF IInv

\* A step that changes what became of the nodes and no table: a fact is done
\* only if it was.
LEMMA NodeStep ==
    ASSUME IInv, UNCHANGED <<raw, landed, dim, fact, refreshes, upserts, refreshed>>,
           node' \in [Nodes -> {"todo", "done", "failed", "skipped"}],
           phase' \in {"idle", "queued", "run", "test"}, serving' \in BOOLEAN,
           tries' \in 0 .. Retries, builds' \in 0 .. MaxBuilds,
           \A f \in Facts : node'[f] = "done" =>
               node[f] = "done" /\ \A d \in KeysOf(f) : node'[d] = node[d]
    PROVE  IInv'
<1>1. TypeOK'
  BY DEF IInv, TypeOK
<1>2. DimsFollowRaw' /\ FactsAfterDims' /\ KeysExist'
  BY DEF IInv, DimsFollowRaw, FactsAfterDims, KeysExist
<1>3. MismatchExplained'
  BY DEF IInv, MismatchExplained, Agrees
<1>4. QED
  BY <1>1, <1>2, <1>3 DEF IInv

\* Of these only Skip, BuildView and RunTask change a node.
LEMMA ControlStep ==
    ASSUME IInv, BuildStarts \/ RunTask \/ RunFails \/ RunSucceeds \/ Test
                 \/ BuildView \/ \E n \in Nodes : Skip(n)
    PROVE  IInv'
<1>1. /\ TypeOK /\ node \in [Nodes -> {"todo", "done", "failed", "skipped"}]
      /\ tries \in 0 .. Retries /\ builds \in 0 .. MaxBuilds /\ serving \in BOOLEAN
      /\ phase \in {"idle", "queued", "run", "test"}
  BY DEF IInv, TypeOK
<1>2. CASE BuildStarts
  <2>1. 0 \in 0 .. Retries /\ builds' \in 0 .. MaxBuilds
    BY <1>1, <1>2 DEF BuildStarts, Retries
  <2>2. QED
    BY <1>1, <1>2, <2>1, NodeStep DEF BuildStarts
<1>3. CASE RunTask
  <2>1. \A f \in Facts : node'[f] = "todo"
    BY <1>3, NodeNames DEF RunTask
  <2>2. node' \in [Nodes -> {"todo", "done", "failed", "skipped"}]
    BY <1>3 DEF RunTask
  <2>3. QED
    BY <1>1, <1>3, <2>1, <2>2, NodeStep DEF RunTask
<1>4. CASE RunFails
  <2>1. tries' \in 0 .. Retries /\ phase' \in {"idle", "queued", "run", "test"}
    BY <1>1, <1>4 DEF RunFails, Retries
  <2>2. QED
    BY <1>1, <1>4, <2>1, NodeStep DEF RunFails, RunFailed
<1>5. CASE RunSucceeds
  BY <1>1, <1>5, NodeStep DEF RunSucceeds
<1>6. CASE Test
  BY <1>1, <1>6, NodeStep DEF Test
<1>7. CASE BuildView
  <2>1. /\ node' \in [Nodes -> {"todo", "done", "failed", "skipped"}]
        /\ \A n \in Nodes \ {View} : node'[n] = node[n]
    BY <1>1, <1>7, NodeNames DEF BuildView, Becomes
  <2>2. QED
    BY <1>1, <1>7, <2>1, NodeNames, DepsCoverKeys, NodeStep DEF BuildView
<1>8. ASSUME NEW n \in Nodes, Skip(n)
      PROVE  IInv'
  <2>1. /\ node' = [node EXCEPT ![n] = "skipped"] /\ node[n] = "todo"
        /\ UNCHANGED <<raw, landed, dim, fact, phase, serving, tries, builds, refreshes,
                       upserts, refreshed>>
    BY <1>8 DEF Skip, Becomes
  <2>2. /\ node' \in [Nodes -> {"todo", "done", "failed", "skipped"}]
        /\ \A m \in Nodes : m # n => node'[m] = node[m]
        /\ node'[n] = "skipped"
    BY <1>1, <2>1
  <2>3. ASSUME NEW f \in Facts, node'[f] = "done"
        PROVE  node[f] = "done" /\ \A d \in KeysOf(f) : node'[d] = node[d]
    <3>1. f \in Nodes /\ f # n /\ node[f] = "done"
      BY <2>2, <2>3, NodeNames
    <3>2. \A d \in KeysOf(f) : d \in Nodes /\ node[d] = "done"
      BY <3>1, DepsCoverKeys, NodeNames DEF IInv, FactsAfterDims
    <3>3. QED
      BY <2>1, <2>2, <3>1, <3>2
  <2>4. QED
    BY <1>1, <2>1, <2>2, <2>3, NodeStep
<1>9. QED
  BY <1>2, <1>3, <1>4, <1>5, <1>6, <1>7, <1>8

LEMMA BuildFactStep ==
    ASSUME IInv, NEW f \in Facts, BuildFact(f)
    PROVE  IInv'
<1>1. TypeOK /\ Tables
  BY TablesFacts DEF IInv
<1>2. /\ UNCHANGED <<raw, landed, dim, phase, serving, tries, builds, refreshes, upserts, refreshed>>
      /\ fact' = [fact EXCEPT ![f] = KeyPairs(f)]
      /\ node' = [node EXCEPT ![f] = "done"]
      /\ \A m \in Deps(f) : node[m] = "done"
  BY DEF BuildFact, Becomes, Ready
<1>3. /\ node' \in [Nodes -> {"todo", "done", "failed", "skipped"}]
      /\ \A n \in Nodes \ {f} : node'[n] = node[n]
  BY <1>1, <1>2, NodeNames DEF TypeOK
<1>4. /\ fact'[f] = KeyPairs(f)
      /\ \A g \in Facts \ {f} : fact'[g] = fact[g]
      /\ DOMAIN fact' = Facts
  BY <1>1, <1>2 DEF TypeOK
<1>5. \A d \in KeysOf(f) : fact'[f][d] = {<<dim[d][k], k>> : k \in DOMAIN dim[d]}
  BY <1>4 DEF KeyPairs
<1>6. \A d \in Dims : \A k \in DOMAIN dim[d] : dim[d][k] \in RowsOf(d) /\ k \in Nat
  BY <1>1, TableFacts DEF Tables
<1>7. fact' = [g \in Facts |-> [d \in KeysOf(g) |-> fact'[g][d]]]
  <2>1. fact = [g \in Facts |-> [d \in KeysOf(g) |-> fact[g][d]]]
    BY <1>1 DEF TypeOK
  <2>2. \A g \in Facts : fact[g] = [d \in KeysOf(g) |-> fact[g][d]]
    BY <2>1
  <2>3. fact'[f] = [d \in KeysOf(f) |-> fact'[f][d]]
    BY <1>4 DEF KeyPairs
  <2>4. \A g \in Facts : fact'[g] = [d \in KeysOf(g) |-> fact'[g][d]]
    BY <1>4, <2>2, <2>3
  <2>5. fact' = [g \in Facts |-> fact'[g]]
    BY <1>2, <1>4, <2>1
  <2>6. QED
    BY <2>4, <2>5
<1>8. \A g \in Facts : \A d \in KeysOf(g) : fact'[g][d] \subseteq RowsOf(d) \X Nat
  <2>1. ASSUME NEW d \in KeysOf(f)
        PROVE  fact'[f][d] \subseteq RowsOf(d) \X Nat
    BY <1>5, <1>6, <2>1, DepsCoverKeys
  <2>2. QED
    BY <1>1, <1>4, <2>1 DEF TypeOK
<1>9. TypeOK'
  BY <1>1, <1>2, <1>3, <1>7, <1>8 DEF TypeOK
<1>10. DimsFollowRaw'
  BY <1>2 DEF IInv, DimsFollowRaw
<1>11. FactsAfterDims'
  BY <1>2, <1>3, DepsCoverKeys, NodeNames DEF IInv, FactsAfterDims
<1>12. ASSUME NEW d \in KeysOf(f)
       PROVE  /\ \A pair \in fact'[f][d] : pair[2] \in DOMAIN dim'[d]
              /\ Agrees(f, d)'
  BY <1>2, <1>5, <1>12 DEF Agrees
<1>13. KeysExist'
  BY <1>2, <1>4, <1>12 DEF IInv, KeysExist
<1>14. MismatchExplained'
  <2>1. ASSUME NEW g \in Facts \ {f}, NEW d \in KeysOf(g)
        PROVE  \/ Agrees(g, d)'
               \/ node'[g] # "done"
               \/ d = "dim_machine" /\ refreshed'
    BY <1>2, <1>3, <1>4, <2>1, NodeNames DEF IInv, MismatchExplained, Agrees
  <2>2. QED
    BY <1>12, <2>1 DEF MismatchExplained
<1>15. QED
  BY <1>9, <1>10, <1>11, <1>13, <1>14 DEF IInv

-------------------------------------------------------------------------------
(* The theorems.                                                           *)

LEMMA Inductive ==
    ASSUME IInv, [Next]_vars
    PROVE  IInv'
<1>1. CASE UNCHANGED vars
  BY <1>1 DEF vars, build, IInv, TypeOK, DimsFollowRaw, FactsAfterDims, KeysExist,
              MismatchExplained, Agrees
<1>2. CASE Lands
  BY <1>2 DEF Lands, build, IInv, TypeOK, DimsFollowRaw, FactsAfterDims, KeysExist,
              MismatchExplained, Agrees
<1>3. QED
  BY <1>1, <1>2, ArrivesStep, UpsertStep, BuildDimStep, BuildFactStep, RefreshStep, ControlStep
     DEF Next, Sink, Build

\* The invariant of the star schema.
THEOREM WarehouseInvariant == Spec => []IInv
BY Initially, Inductive, PTL DEF Spec

\* Types of the tables and of the DAG run's state: among others no table has
\* a row twice, whatever the sink does to the stored order.
THEOREM TypeCorrect == Spec => []TypeOK
<1>1. IInv => TypeOK
  BY DEF IInv
<1>2. QED
  BY <1>1, WarehouseInvariant, PTL

\* The relationships tests would pass at any moment (schema.yml), although
\* dimensions are replaced under the facts by two DAGs.
THEOREM NoDanglingKey == Spec => []KeysExist
<1>1. IInv => KeysExist
  BY DEF IInv
<1>2. QED
  BY <1>1, WarehouseInvariant, PTL

\* A key in a fact that leads to another row is the refresh's doing
\* (erp_api_batch.py), or that of a build which did not get to the fact.
THEOREM NoUnexplainedMismatch == Spec => []MismatchExplained
<1>1. IInv => MismatchExplained
  BY DEF IInv
<1>2. QED
  BY <1>1, WarehouseInvariant, PTL
===============================================================================
