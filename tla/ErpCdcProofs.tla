----------------------------- MODULE ErpCdcProofs -----------------------------
(***************************************************************************)
(* What ErpCdc promises of the copied tables, for every number of rows,    *)
(* changes and restarts: the copy of a row never falls behind what its     *)
(* stored offset accounts for, equals the source whenever nothing is under *)
(* way, and goes back to an earlier version only after a restart.          *)
(*                                                                         *)
(* A version is the greatest place of a key in the log, and the invariant  *)
(* speaks of the last event of a key in its topic.  The lemmas say what    *)
(* these two are without Max, and how they move when a log or topic grows. *)
(***************************************************************************)
EXTENDS ErpCdc, WellFoundedInduction, FiniteSetTheorems, TLAPS

USE KeysAssumption, BoundAssumption DEF KeysAssumption, BoundAssumption

-------------------------------------------------------------------------------
(* The last version of a key.                                              *)

\* The last of the first n places of log that holds k, or 0.
LastPlace(log, k, n) == Max({0} \cup {i \in 1 .. n : log[i] = k})

\* v is what the last of the first n events of row k says, or 0.
IsLast(v, events, n, k) ==
    \/ v = 0 /\ \A i \in 1 .. n : events[i].key # k
    \/ \E i \in 1 .. n : /\ events[i].key = k /\ events[i].version = v
                         /\ \A j \in i + 1 .. n : events[j].key # k

\* A set of numbers has a least, and a bounded one a greatest: they are well
\* founded.
LEMMA Least ==
    ASSUME NEW T, T \subseteq Nat, T # {}
    PROVE  \E x \in T : \A y \in T : x <= y
<1>1. PICK x \in T : \A y \in T : ~(<<y, x>> \in OpToRel(<, Nat))
  BY NatLessThanWellFounded, WFMin
<1>2. \A y \in T : ~(y < x)
  BY <1>1, Zenon DEF OpToRel
<1>3. QED
  BY <1>2, SMT

LEMMA MaxIsGreatest ==
    ASSUME NEW n \in Nat, NEW S, S \subseteq 0 .. n, S # {}
    PROVE  Max(S) \in S /\ \A x \in S : Max(S) >= x
<1> DEFINE T == {d \in Nat : n - d \in S}
<1>1. T # {}
  <2>1. PICK x \in S : TRUE
    OBVIOUS
  <2>2. n - x \in Nat /\ n - (n - x) \in S
    BY <2>1
  <2>3. QED
    BY <2>2
<1>2. PICK d \in T : \A e \in T : d <= e
  <2> HIDE DEF T
  <2>1. T \subseteq Nat
    BY DEF T
  <2>2. QED
    BY <1>1, <2>1, Least
<1>3. ASSUME NEW x \in S
      PROVE  n - d >= x
  <2>1. n - x \in Nat /\ n - (n - x) \in S
    OBVIOUS
  <2>2. QED
    BY <1>2, <2>1
<1>4. \E m \in S : \A x \in S : m >= x
  BY <1>2, <1>3
<1>5. QED
  BY <1>4, Zenon DEF Max

\* The last place without Max.
LEMMA LastPlaceFacts ==
    ASSUME NEW log, NEW k, NEW n \in Nat
    PROVE  /\ LastPlace(log, k, n) \in 0 .. n
           /\ LastPlace(log, k, n) # 0 => log[LastPlace(log, k, n)] = k
           /\ \A i \in 1 .. n : log[i] = k => i <= LastPlace(log, k, n)
<1> DEFINE S == {0} \cup {i \in 1 .. n : log[i] = k}
<1>1. S \subseteq 0 .. n /\ S # {}
  OBVIOUS
<1>2. Max(S) \in S /\ \A x \in S : Max(S) >= x
  <2> HIDE DEF S
  <2>1. QED
    BY <1>1, MaxIsGreatest
<1>3. LastPlace(log, k, n) = Max(S)
  BY DEF LastPlace
<1> DEFINE m == Max(S)
<1> HIDE DEF m
<1>4. m \in S /\ \A x \in S : m >= x
  BY <1>2 DEF m
<1>5. LastPlace(log, k, n) = m
  BY <1>3 DEF m
<1>6. QED
  BY <1>4, <1>5

LEMMA LastPlaceIs ==
    ASSUME NEW log, NEW k, NEW n \in Nat, NEW v \in 0 .. n,
           v # 0 => log[v] = k,
           \A i \in 1 .. n : log[i] = k => i <= v
    PROVE  LastPlace(log, k, n) = v
BY LastPlaceFacts

LEMMA AppendFacts ==
    ASSUME NEW S, NEW s \in Seq(S), NEW e \in S
    PROVE  /\ Append(s, e) \in Seq(S) /\ Len(s) \in Nat
           /\ Len(Append(s, e)) = Len(s) + 1
           /\ \A i \in 1 .. Len(s) : Append(s, e)[i] = s[i]
           /\ Append(s, e)[Len(s) + 1] = e
OBVIOUS

\* A change leaves every earlier version what it was, and the last place of
\* every other key where it was.
LEMMA LastPlaceBefore ==
    ASSUME NEW log \in Seq(Keys), NEW key \in Keys, NEW k, NEW n \in 0 .. Len(log)
    PROVE  LastPlace(Append(log, key), k, n) = LastPlace(log, k, n)
<1> DEFINE longer == Append(log, key)
           v == LastPlace(log, k, n)
<1>1. Len(log) \in Nat /\ \A i \in 1 .. Len(log) : longer[i] = log[i]
  BY AppendFacts
<1>2. /\ v \in 0 .. n /\ (v # 0 => log[v] = k)
      /\ \A i \in 1 .. n : log[i] = k => i <= v
  BY <1>1, LastPlaceFacts
<1> HIDE DEF longer, v
<1>3. (v # 0 => longer[v] = k) /\ \A i \in 1 .. n : longer[i] = k => i <= v
  BY <1>1, <1>2
<1>4. LastPlace(longer, k, n) = v
  BY <1>1, <1>2, <1>3, LastPlaceIs
<1>5. QED
  BY <1>4 DEF longer, v

LEMMA LastPlaceAppended ==
    ASSUME NEW log \in Seq(Keys), NEW key \in Keys, NEW k
    PROVE  LastPlace(Append(log, key), k, Len(log) + 1) =
               IF k = key THEN Len(log) + 1 ELSE LastPlace(log, k, Len(log))
<1> DEFINE longer == Append(log, key)
           v == LastPlace(log, k, Len(log))
           w == IF k = key THEN Len(log) + 1 ELSE v
<1>1. /\ Len(log) \in Nat
      /\ \A i \in 1 .. Len(log) : longer[i] = log[i]
      /\ longer[Len(log) + 1] = key
  BY AppendFacts
<1>2. /\ v \in 0 .. Len(log) /\ (v # 0 => log[v] = k)
      /\ \A i \in 1 .. Len(log) : log[i] = k => i <= v
  BY <1>1, LastPlaceFacts
<1> HIDE DEF longer, v
<1>3. /\ w \in 0 .. Len(log) + 1 /\ (w # 0 => longer[w] = k)
      /\ \A i \in 1 .. Len(log) + 1 : longer[i] = k => i <= w
  BY <1>1, <1>2
<1> HIDE DEF w
<1>4. LastPlace(longer, k, Len(log) + 1) = w
  BY <1>1, <1>3, LastPlaceIs
<1>5. QED
  BY <1>4 DEF longer, v, w

-------------------------------------------------------------------------------
(* The last event of a row.                                                *)

LEMMA LastIsUnique ==
    ASSUME NEW events, NEW n \in Nat, NEW k, NEW v, NEW w,
           IsLast(v, events, n, k), IsLast(w, events, n, k)
    PROVE  v = w
BY DEF IsLast

\* One event more: it is the last of its row, and of no other.
LEMMA LastOfNext ==
    ASSUME NEW events, NEW n \in Nat, NEW k
    PROVE  /\ events[n + 1].key = k => IsLast(events[n + 1].version, events, n + 1, k)
           /\ \A v : IsLast(v, events, n, k) /\ events[n + 1].key # k =>
                  IsLast(v, events, n + 1, k)
<1>1. ASSUME events[n + 1].key = k
      PROVE  IsLast(events[n + 1].version, events, n + 1, k)
  BY <1>1 DEF IsLast
<1>2. ASSUME NEW v, IsLast(v, events, n, k), events[n + 1].key # k
      PROVE  IsLast(v, events, n + 1, k)
  BY <1>2 DEF IsLast
<1>3. QED
  BY <1>1, <1>2

\* The events before an appended one stay what they were.
LEMMA LastOfPrefix ==
    ASSUME NEW S, NEW events \in Seq(S), NEW e \in S, NEW k, NEW v,
           NEW n \in 0 .. Len(events), IsLast(v, events, n, k)
    PROVE  IsLast(v, Append(events, e), n, k)
<1>1. \A i \in 1 .. n : Append(events, e)[i] = events[i]
  BY AppendFacts
<1> DEFINE longer == Append(events, e)
<1>2. \A i \in 1 .. n : longer[i] = events[i]
  BY <1>1
<1> HIDE DEF longer
<1>3. IsLast(v, longer, n, k)
  BY <1>2 DEF IsLast
<1>4. QED
  BY <1>3 DEF longer

-------------------------------------------------------------------------------
(* The invariant.                                                          *)

\* The task is never ahead of the log, and nothing is sent before it runs.
Positions ==
    /\ slot <= Len(wal) /\ pos <= Len(wal)
    /\ mode = "stream" => slot <= pos
    /\ mode = "absent" => \A t \in Tables : topic[t] = <<>>

\* An event is in the topic of its table and tells of a change in the log.
EventsAreChanges ==
    \A t \in Tables : \A i \in 1 .. Len(topic[t]) :
        LET event == topic[t][i]
        IN /\ TableOf(event.key) = t
           /\ event.version <= Len(wal) /\ wal[event.version] = event.key

\* A row the snapshot is done with was sent as it was when it began.
SnapshotIsTaken ==
    mode = "snapshot" =>
        \A k \in Keys :
            IF k \in todo THEN LastPlace(wal, k, slot) # 0
            ELSE LET s == topic[TableOf(k)] IN IsLast(LastPlace(wal, k, slot), s, Len(s), k)

\* A row's last change is still to be streamed, or the last event tells it.
NothingIsSkipped ==
    mode = "stream" =>
        \A k \in Keys :
            \/ LastPlace(wal, k, Len(wal)) > pos
            \/ LET s == topic[TableOf(k)] IN IsLast(LastPlace(wal, k, Len(wal)), s, Len(s), k)

\* The copy of a row is what some event at the sink's place or later says.
CopyAtOrAfterGot ==
    \A k \in Keys :
        LET t == TableOf(k)
        IN \E n \in got[t] .. Len(topic[t]) : IsLast(copy[k], topic[t], n, k)

\* Before any restart a topic tells a row's versions in their order, and the
\* copy is not ahead of the events that are still to be written.
SentInOrder ==
    restarts = 0 =>
        \A t \in Tables : \A j \in 1 .. Len(topic[t]) :
            LET event == topic[t][j]
            IN /\ \A i \in 1 .. j :
                      topic[t][i].key = event.key => topic[t][i].version <= event.version
               /\ j > got[t] => copy[event.key] <= event.version

\* Nor is anything sent that the task has not come to.
SentSoFar ==
    restarts = 0 =>
        \A t \in Tables : \A j \in 1 .. Len(topic[t]) :
            LET event == topic[t][j]
            IN /\ mode = "stream" => event.version <= pos
               /\ mode = "snapshot" => event.version <= slot /\ event.key \notin todo

CdcInv == /\ TypeOK /\ Positions /\ EventsAreChanges /\ SnapshotIsTaken
          /\ NothingIsSkipped /\ CopyAtOrAfterGot /\ SentInOrder /\ SentSoFar

-------------------------------------------------------------------------------
(* Facts of one state.                                                     *)

LEMMA TableOfKey ==
    ASSUME NEW k \in Keys
    PROVE  TableOf(k) \in Tables
BY DEF TableOf, Tables, Keys

LEMMA TypeFacts ==
    ASSUME TypeOK
    PROVE  /\ wal \in Seq(Keys) /\ Len(wal) \in Nat /\ Len(wal) <= MaxChanges
           /\ slot \in Nat /\ pos \in Nat
           /\ \A i \in 1 .. Len(wal) : wal[i] \in Keys
           /\ \A t \in Tables :
                  /\ topic[t] \in Seq(Event) /\ Len(topic[t]) \in Nat
                  /\ got[t] \in Nat /\ stored[t] \in Nat
                  /\ stored[t] <= got[t] /\ got[t] <= Len(topic[t])
                  /\ \A i \in 1 .. Len(topic[t]) : topic[t][i] \in Event
           /\ \A k \in Keys : copy[k] \in Nat
BY DEF TypeOK, Version

LEMMA EventFacts ==
    ASSUME NEW e \in Event
    PROVE  e.key \in Keys /\ e.version \in Nat /\ e.version >= 1
BY DEF Event, Version

\* The copy says what some event of its topic says, or nothing.
LEMMA CopyWasSent ==
    ASSUME TypeOK, CopyAtOrAfterGot, NEW k \in Keys
    PROVE  \/ copy[k] = 0
           \/ \E i \in 1 .. Len(topic[TableOf(k)]) :
                  /\ topic[TableOf(k)][i].key = k
                  /\ topic[TableOf(k)][i].version = copy[k]
<1> DEFINE s == topic[TableOf(k)]
<1>1. Len(s) \in Nat /\ got[TableOf(k)] \in Nat
  BY TypeFacts, TableOfKey
<1>2. PICK n \in got[TableOf(k)] .. Len(s) : IsLast(copy[k], s, n, k)
  BY DEF CopyAtOrAfterGot
<1> HIDE DEF s
<1>3. \/ copy[k] = 0
      \/ \E i \in 1 .. Len(s) : s[i].key = k /\ s[i].version = copy[k]
  BY <1>1, <1>2 DEF IsLast
<1>4. QED
  BY <1>3 DEF s

-------------------------------------------------------------------------------
(* The initial state.                                                      *)

LEMMA InitInv == Init => CdcInv
<1> SUFFICES ASSUME Init PROVE CdcInv
  OBVIOUS
<1>1. /\ wal \in Seq(Keys) /\ Len(wal) \in Nat /\ Len(wal) <= MaxChanges
  <2>1. Cardinality(Seeds) \in Nat
    BY FS_CardinalityType
  <2>2. wal \in [1 .. Cardinality(Seeds) -> Keys]
    BY DEF Init, Keys
  <2>3. wal \in Seq(Keys) /\ Len(wal) = Cardinality(Seeds)
    BY <2>1, <2>2
  <2>4. QED
    BY <2>1, <2>3
<1>2. \A t \in Tables : topic[t] = <<>> /\ got[t] = 0 /\ stored[t] = 0
  BY DEF Init
<1>3. TypeOK
  <2>1. 0 \in Version /\ 0 \in Nat /\ Len(<<>>) = 0 /\ <<>> \in Seq(Event)
    BY DEF Version
  <2>2. topic \in [Tables -> Seq(Event)]
    BY <2>1, Zenon DEF Init
  <2>3. /\ got \in [Tables -> Nat] /\ stored \in [Tables -> Nat]
        /\ copy \in [Keys -> Version] /\ restarts \in 0 .. MaxRestarts
    BY <2>1 DEF Init
  <2>4. \A t \in Tables : stored[t] <= got[t] /\ got[t] <= Len(topic[t])
    BY <1>2, <2>1
  <2>5. QED
    BY <1>1, <2>1, <2>2, <2>3, <2>4 DEF TypeOK, Init
<1>4. Positions /\ SnapshotIsTaken /\ NothingIsSkipped
  BY <1>1, <1>2 DEF Positions, SnapshotIsTaken, NothingIsSkipped, Init
<1>5. EventsAreChanges /\ SentInOrder /\ SentSoFar
  BY <1>2 DEF EventsAreChanges, SentInOrder, SentSoFar
<1>6. CopyAtOrAfterGot
  <2> SUFFICES ASSUME NEW k \in Keys
               PROVE  \E n \in got[TableOf(k)] .. Len(topic[TableOf(k)]) :
                          IsLast(copy[k], topic[TableOf(k)], n, k)
    BY DEF CopyAtOrAfterGot
  <2>1. got[TableOf(k)] = 0 /\ Len(topic[TableOf(k)]) = 0 /\ copy[k] = 0
    BY <1>2, TableOfKey DEF Init
  <2>2. IsLast(0, topic[TableOf(k)], 0, k)
    BY DEF IsLast
  <2>3. QED
    BY <2>1, <2>2
<1>7. QED
  BY <1>3, <1>4, <1>5, <1>6 DEF CdcInv
-------------------------------------------------------------------------------
(* An event is sent.                                                       *)

\* It tells of a change in the log; nothing else of the state moves but the
\* task's own progress.
Sends(k, v) ==
    /\ k \in Keys /\ v \in 1 .. Len(wal) /\ wal[v] = k
    /\ Send(k, v)
    /\ UNCHANGED <<wal, sink, got, stored, copy, restarts>>

LEMMA SentEvent ==
    ASSUME TypeOK, NEW k \in Keys, NEW v \in Version, v # 0, Send(k, v)
    PROVE  LET t == TableOf(k)
               e == [key |-> k, version |-> v]
           IN /\ t \in Tables /\ e \in Event
              /\ topic' \in [Tables -> Seq(Event)]
              /\ \A u \in Tables : u # t => topic'[u] = topic[u]
              /\ topic'[t] = Append(topic[t], e)
              /\ Len(topic'[t]) = Len(topic[t]) + 1
              /\ topic'[t][Len(topic[t]) + 1] = e
              /\ \A i \in 1 .. Len(topic[t]) : topic'[t][i] = topic[t][i]
<1> DEFINE t == TableOf(k)
           e == [key |-> k, version |-> v]
           s == Append(topic[t], e)
<1>1. t \in Tables
  BY TableOfKey
<1>2. e \in Event
  BY DEF Event
<1>3. topic[t] \in Seq(Event)
  BY <1>1 DEF TypeOK
<1>4. /\ s \in Seq(Event) /\ Len(s) = Len(topic[t]) + 1
      /\ s[Len(topic[t]) + 1] = e
      /\ \A i \in 1 .. Len(topic[t]) : s[i] = topic[t][i]
  BY <1>2, <1>3, AppendFacts
<1>5. topic' = [topic EXCEPT ![t] = s]
  BY Zenon DEF Send
<1> HIDE DEF s, t, e
<1>6. /\ topic' \in [Tables -> Seq(Event)] /\ topic'[t] = s
      /\ \A u \in Tables : u # t => topic'[u] = topic[u]
  BY <1>1, <1>4, <1>5 DEF TypeOK
<1>7. QED
  BY <1>1, <1>2, <1>4, <1>6 DEF s, t, e

LEMMA SendKeeps ==
    ASSUME TypeOK, EventsAreChanges, CopyAtOrAfterGot, NEW k, NEW v, Sends(k, v)
    PROVE  /\ topic' \in [Tables -> Seq(Event)]
           /\ \A u \in Tables : got'[u] <= Len(topic'[u])
           /\ EventsAreChanges' /\ CopyAtOrAfterGot'
<1> DEFINE t == TableOf(k)
           e == [key |-> k, version |-> v]
           n == Len(topic[t])
<1>1. /\ k \in Keys /\ v \in Nat /\ 1 <= v /\ v <= Len(wal) /\ wal[v] = k
      /\ v \in Version /\ v # 0 /\ Send(k, v)
      /\ wal' = wal /\ got' = got /\ copy' = copy
  BY TypeFacts DEF Sends, Version
<1>2. /\ t \in Tables /\ e \in Event
      /\ topic' \in [Tables -> Seq(Event)]
      /\ \A u \in Tables : u # t => topic'[u] = topic[u]
      /\ topic'[t] = Append(topic[t], e)
      /\ Len(topic'[t]) = n + 1 /\ topic'[t][n + 1] = e
      /\ \A i \in 1 .. n : topic'[t][i] = topic[t][i]
  BY <1>1, SentEvent
<1>3. e.key = k /\ e.version = v
  OBVIOUS
<1> HIDE DEF e
<1>4. /\ \A u \in Tables : got[u] \in Nat /\ Len(topic[u]) \in Nat /\ got[u] <= Len(topic[u])
      /\ topic[t] \in Seq(Event)
  BY <1>2, TypeFacts
<1>5. ASSUME NEW u \in Tables
      PROVE  got'[u] <= Len(topic'[u])
  <2>1. got'[u] = got[u] /\ got[u] <= Len(topic[u])
    BY <1>1, <1>4
  <2>2. CASE u # t
    BY <1>2, <2>1, <2>2
  <2>3. CASE u = t
    BY <1>2, <1>4, <2>1, <2>3
  <2>4. QED
    BY <2>2, <2>3
<1>6. EventsAreChanges'
  <2> SUFFICES ASSUME NEW u \in Tables, NEW i \in 1 .. Len(topic'[u])
               PROVE  /\ TableOf(topic'[u][i].key) = u
                      /\ topic'[u][i].version <= Len(wal)
                      /\ wal[topic'[u][i].version] = topic'[u][i].key
    BY <1>1 DEF EventsAreChanges
  <2>1. CASE u # t
    BY <1>2, <2>1 DEF EventsAreChanges
  <2>2. CASE u = t /\ i \in 1 .. n
    BY <1>2, <2>2 DEF EventsAreChanges
  <2>3. CASE u = t /\ i = n + 1
    BY <1>1, <1>2, <1>3, <2>3
  <2>4. QED
    BY <1>2, <1>4, <2>1, <2>2, <2>3
<1>7. CopyAtOrAfterGot'
  <2> SUFFICES ASSUME NEW j \in Keys
               PROVE  \E m \in got[TableOf(j)] .. Len(topic'[TableOf(j)]) :
                          IsLast(copy[j], topic'[TableOf(j)], m, j)
    BY <1>1 DEF CopyAtOrAfterGot
  <2>1. PICK m \in got[TableOf(j)] .. Len(topic[TableOf(j)]) :
            IsLast(copy[j], topic[TableOf(j)], m, j)
    BY DEF CopyAtOrAfterGot
  <2>2. CASE TableOf(j) # t
    BY <1>2, <2>1, <2>2, TableOfKey
  <2>3. CASE TableOf(j) = t
    <3>1. m \in 0 .. Len(topic[t]) /\ m \in got[t] .. Len(topic'[t])
      BY <1>2, <1>4, <2>1, <2>3
    <3>2. IsLast(copy[j], topic'[t], m, j)
      BY <1>2, <1>4, <2>1, <2>3, <3>1, LastOfPrefix
    <3>3. QED
      BY <2>3, <3>1, <3>2
  <2>4. QED
    BY <2>2, <2>3
<1>8. QED
  BY <1>2, <1>5, <1>6, <1>7

\* It is the last of its row, and the last of every other row stays.
LEMMA LastAfterSend ==
    ASSUME TypeOK, NEW k, NEW v, Sends(k, v), NEW j \in Keys
    PROVE  /\ j = k => IsLast(v, topic'[TableOf(j)], Len(topic'[TableOf(j)]), j)
           /\ \A w : j # k /\ IsLast(w, topic[TableOf(j)], Len(topic[TableOf(j)]), j) =>
                         IsLast(w, topic'[TableOf(j)], Len(topic'[TableOf(j)]), j)
<1> DEFINE t == TableOf(k)
           e == [key |-> k, version |-> v]
           n == Len(topic[t])
<1>1. k \in Keys /\ v \in Version /\ v # 0 /\ Send(k, v)
  BY TypeFacts DEF Sends, Version
<1>2. /\ t \in Tables /\ e \in Event
      /\ \A u \in Tables : u # t => topic'[u] = topic[u]
      /\ topic'[t] = Append(topic[t], e)
      /\ Len(topic'[t]) = n + 1 /\ topic'[t][n + 1] = e
  BY <1>1, SentEvent
<1>3. e.key = k /\ e.version = v
  OBVIOUS
<1> HIDE DEF e
<1>4. topic[t] \in Seq(Event) /\ n \in Nat
  BY <1>2, TypeFacts
<1>5. ASSUME j = k
      PROVE  IsLast(v, topic'[TableOf(j)], Len(topic'[TableOf(j)]), j)
  <2>1. IsLast(topic'[t][n + 1].version, topic'[t], n + 1, k)
    BY <1>2, <1>3, <1>4, LastOfNext
  <2>2. QED
    BY <1>2, <1>3, <1>5, <2>1
<1>6. ASSUME NEW w, j # k, IsLast(w, topic[TableOf(j)], Len(topic[TableOf(j)]), j)
      PROVE  IsLast(w, topic'[TableOf(j)], Len(topic'[TableOf(j)]), j)
  <2>1. CASE TableOf(j) # t
    BY <1>2, <1>6, <2>1, TableOfKey
  <2>2. CASE TableOf(j) = t
    <3>1. n \in 0 .. Len(topic[t]) /\ IsLast(w, topic[t], n, j)
      BY <1>4, <1>6, <2>2
    <3>2. IsLast(w, topic'[t], n, j)
      BY <1>2, <1>4, <3>1, LastOfPrefix
    <3>3. IsLast(w, topic'[t], n + 1, j)
      BY <1>2, <1>3, <1>4, <1>6, <3>2, LastOfNext
    <3>4. QED
      BY <1>2, <2>2, <3>3
  <2>3. QED
    BY <2>1, <2>2
<1>7. QED
  BY <1>5, <1>6

\* If it is not older than what was sent of its row, the order stays.
LEMMA OrderAfterSend ==
    ASSUME TypeOK, SentInOrder, NEW k, NEW v, Sends(k, v),
           restarts = 0 => copy[k] <= v,
           restarts = 0 => \A i \in 1 .. Len(topic[TableOf(k)]) :
               topic[TableOf(k)][i].key = k => topic[TableOf(k)][i].version <= v
    PROVE  SentInOrder'
<1> DEFINE t == TableOf(k)
           e == [key |-> k, version |-> v]
           n == Len(topic[t])
<1>1. /\ k \in Keys /\ v \in Nat /\ v \in Version /\ v # 0 /\ Send(k, v)
      /\ got' = got /\ copy' = copy /\ restarts' = restarts
  BY TypeFacts DEF Sends, Version
<1>2. /\ t \in Tables /\ e \in Event
      /\ \A u \in Tables : u # t => topic'[u] = topic[u]
      /\ Len(topic'[t]) = n + 1 /\ topic'[t][n + 1] = e
      /\ \A i \in 1 .. n : topic'[t][i] = topic[t][i]
  BY <1>1, SentEvent
<1>3. e.key = k /\ e.version = v
  OBVIOUS
<1> HIDE DEF e
<1>4. n \in Nat
  BY <1>2, TypeFacts
<1>5. SUFFICES ASSUME restarts = 0, NEW u \in Tables, NEW j \in 1 .. Len(topic'[u])
               PROVE  /\ \A i \in 1 .. j :
                             topic'[u][i].key = topic'[u][j].key =>
                                 topic'[u][i].version <= topic'[u][j].version
                      /\ j > got[u] => copy[topic'[u][j].key] <= topic'[u][j].version
  BY <1>1 DEF SentInOrder
<1>6. CASE u # t
  BY <1>2, <1>5, <1>6 DEF SentInOrder
<1>7. CASE u = t /\ j \in 1 .. n
  <2>1. \A i \in 1 .. j : i \in 1 .. n
    BY <1>4, <1>7
  <2>2. QED
    BY <1>2, <1>5, <1>7, <2>1 DEF SentInOrder
<1>8. CASE u = t /\ j = n + 1
  <2>1. topic'[u][j].key = k /\ topic'[u][j].version = v
    BY <1>2, <1>3, <1>8
  <2>2. ASSUME NEW i \in 1 .. j, topic'[u][i].key = k
        PROVE  topic'[u][i].version <= v
    <3>1. CASE i = n + 1
      BY <1>1, <1>8, <2>1, <3>1
    <3>2. CASE i # n + 1
      <4>1. i \in 1 .. n /\ topic'[u][i] = topic[t][i]
        BY <1>2, <1>4, <1>8, <3>2
      <4>2. QED
        BY <1>5, <2>2, <4>1
    <3>3. QED
      BY <3>1, <3>2
  <2>3. copy[k] <= v
    BY <1>5
  <2>4. QED
    BY <2>1, <2>2, <2>3
<1>9. QED
  BY <1>2, <1>4, <1>6, <1>7, <1>8

-------------------------------------------------------------------------------
(* Every step keeps the invariant.                                         *)

LEMMA WritesStep ==
    ASSUME CdcInv, NEW k \in Keys, Writes(k)
    PROVE  CdcInv'
<1> DEFINE n == Len(wal)
<1>1. /\ wal \in Seq(Keys) /\ n \in Nat /\ slot \in Nat /\ pos \in Nat
      /\ slot <= n /\ pos <= n
  BY TypeFacts DEF CdcInv, Positions
<1>2. /\ n < MaxChanges /\ wal' = Append(wal, k)
      /\ UNCHANGED <<mode, slot, todo, pos, topic, sink, got, stored, copy, restarts>>
  BY DEF Writes
<1>3. /\ wal' \in Seq(Keys) /\ Len(wal') = n + 1
      /\ \A i \in 1 .. n : wal'[i] = wal[i]
  BY <1>1, <1>2, AppendFacts
<1>4. ASSUME NEW j
      PROVE  /\ LastPlace(wal', j, slot) = LastPlace(wal, j, slot)
             /\ LastPlace(wal', j, n + 1) =
                    IF j = k THEN n + 1 ELSE LastPlace(wal, j, n)
  <2>1. slot \in 0 .. n
    BY <1>1
  <2>2. LastPlace(Append(wal, k), j, slot) = LastPlace(wal, j, slot)
    BY <1>1, <2>1, LastPlaceBefore
  <2>3. LastPlace(Append(wal, k), j, Len(wal) + 1) =
            IF j = k THEN Len(wal) + 1 ELSE LastPlace(wal, j, Len(wal))
    BY <1>1, LastPlaceAppended
  <2>4. QED
    BY <1>2, <2>2, <2>3
<1>5. TypeOK'
  <2>1. wal' \in Seq(Keys) /\ Len(wal') <= MaxChanges
    BY <1>1, <1>2, <1>3
  <2>2. QED
    BY <1>2, <2>1 DEF CdcInv, TypeOK
<1>6. Positions'
  <2>1. slot <= Len(wal') /\ pos <= Len(wal')
    BY <1>1, <1>3
  <2>2. QED
    BY <1>2, <2>1 DEF CdcInv, Positions
<1>7. EventsAreChanges'
  <2> SUFFICES ASSUME NEW t \in Tables, NEW i \in 1 .. Len(topic[t])
               PROVE  /\ TableOf(topic[t][i].key) = t
                      /\ topic[t][i].version <= Len(wal')
                      /\ wal'[topic[t][i].version] = topic[t][i].key
    BY <1>2 DEF EventsAreChanges
  <2>1. topic[t][i].version \in Nat /\ 1 <= topic[t][i].version
    BY TypeFacts, EventFacts DEF CdcInv
  <2>2. /\ TableOf(topic[t][i].key) = t /\ topic[t][i].version <= n
        /\ wal[topic[t][i].version] = topic[t][i].key
    BY DEF CdcInv, EventsAreChanges
  <2>3. QED
    BY <1>1, <1>3, <2>1, <2>2
<1>8. SnapshotIsTaken'
  BY <1>2, <1>4 DEF CdcInv, SnapshotIsTaken
<1>9. NothingIsSkipped'
  <2> SUFFICES ASSUME mode = "stream", NEW j \in Keys
               PROVE  \/ LastPlace(wal', j, n + 1) > pos
                      \/ IsLast(LastPlace(wal', j, n + 1), topic[TableOf(j)],
                                Len(topic[TableOf(j)]), j)
    BY <1>2, <1>3 DEF NothingIsSkipped
  <2>1. CASE j = k
    BY <1>1, <1>4, <2>1
  <2>2. CASE j # k
    BY <1>4, <2>2 DEF CdcInv, NothingIsSkipped
  <2>3. QED
    BY <2>1, <2>2
<1>10. CopyAtOrAfterGot' /\ SentInOrder' /\ SentSoFar'
  BY <1>2 DEF CdcInv, CopyAtOrAfterGot, SentInOrder, SentSoFar
<1>11. QED
  BY <1>5, <1>6, <1>7, <1>8, <1>9, <1>10 DEF CdcInv

\* A snapshot that begins now has every row before it that was ever written.
LEMMA SnapshotBegins ==
    ASSUME TypeOK, EventsAreChanges, NEW k \in Keys
    PROVE  IF Exists(k) THEN LastPlace(wal, k, Len(wal)) # 0
           ELSE /\ LastPlace(wal, k, Len(wal)) = 0
                /\ IsLast(0, topic[TableOf(k)], Len(topic[TableOf(k)]), k)
<1> DEFINE t == TableOf(k)
<1>1. Exists(k) <=> LastPlace(wal, k, Len(wal)) # 0
  BY Zenon DEF Exists, Source, VersionAt, LastPlace
<1>2. ASSUME LastPlace(wal, k, Len(wal)) = 0, NEW i \in 1 .. Len(topic[t]),
             topic[t][i].key = k
      PROVE  FALSE
  <2>1. topic[t][i].version \in Nat /\ 1 <= topic[t][i].version
    BY TypeFacts, TableOfKey, EventFacts
  <2>2. topic[t][i].version <= Len(wal) /\ wal[topic[t][i].version] = k
    BY <1>2, TableOfKey DEF EventsAreChanges
  <2>3. Len(wal) \in Nat
    BY TypeFacts
  <2>4. QED
    BY <1>2, <2>1, <2>2, <2>3, LastPlaceFacts
<1>3. LastPlace(wal, k, Len(wal)) = 0 => IsLast(0, topic[t], Len(topic[t]), k)
  BY <1>2 DEF IsLast
<1>4. QED
  BY <1>1, <1>3

LEMMA RegisterSourceStep ==
    ASSUME CdcInv, RegisterSource
    PROVE  CdcInv'
<1>1. /\ mode' = "snapshot" /\ slot' = Len(wal) /\ todo' = {k \in Keys : Exists(k)}
      /\ \A t \in Tables : topic[t] = <<>>
      /\ UNCHANGED <<wal, pos, topic, sink, got, stored, copy, restarts>>
  BY DEF CdcInv, RegisterSource, Positions
<1>2. Len(wal) \in Nat /\ Len(wal) \in Version
  BY TypeFacts DEF CdcInv, Version
<1>3. TypeOK'
  BY <1>1, <1>2 DEF CdcInv, TypeOK
<1>4. Positions'
  BY <1>1, <1>2 DEF CdcInv, Positions
<1>5. EventsAreChanges' /\ CopyAtOrAfterGot' /\ SentInOrder' /\ NothingIsSkipped'
  BY <1>1 DEF CdcInv, EventsAreChanges, CopyAtOrAfterGot, SentInOrder, NothingIsSkipped
<1>6. SnapshotIsTaken'
  BY <1>1, SnapshotBegins, Zenon DEF CdcInv, SnapshotIsTaken
<1>7. SentSoFar'
  BY <1>1 DEF SentSoFar
<1>8. QED
  BY <1>3, <1>4, <1>5, <1>6, <1>7 DEF CdcInv

LEMMA SnapshotRowStep ==
    ASSUME CdcInv, NEW k \in Keys, SnapshotRow(k)
    PROVE  CdcInv'
<1> DEFINE v == LastPlace(wal, k, slot)
<1>1. /\ mode = "snapshot" /\ k \in todo /\ todo' = todo \ {k} /\ Send(k, v)
      /\ UNCHANGED <<wal, mode, slot, pos, sink, got, stored, copy, restarts>>
  BY Zenon DEF SnapshotRow, VersionAt, LastPlace
<1>2. slot \in Nat /\ slot <= Len(wal) /\ Len(wal) \in Nat
  BY TypeFacts DEF CdcInv, Positions
<1>3. v # 0 /\ v \in 1 .. slot /\ v \in 1 .. Len(wal) /\ wal[v] = k
  <2>1. v # 0
    BY <1>1 DEF CdcInv, SnapshotIsTaken
  <2>2. v \in 0 .. slot /\ (v # 0 => wal[v] = k)
    BY <1>2, LastPlaceFacts
  <2> HIDE DEF v
  <2>3. QED
    BY <1>2, <2>1, <2>2
<1>4. Sends(k, v)
  BY <1>1, <1>3 DEF Sends
<1>5. /\ topic' \in [Tables -> Seq(Event)]
      /\ \A u \in Tables : got'[u] <= Len(topic'[u])
      /\ EventsAreChanges' /\ CopyAtOrAfterGot'
  BY <1>4, SendKeeps DEF CdcInv
<1>6. TypeOK'
  <2>1. todo' \subseteq Keys
    BY <1>1 DEF CdcInv, TypeOK
  <2>2. QED
    BY <1>1, <1>5, <2>1 DEF CdcInv, TypeOK
<1>7. Positions' /\ NothingIsSkipped'
  BY <1>1 DEF CdcInv, Positions, NothingIsSkipped
<1>8. SnapshotIsTaken'
  <2> SUFFICES ASSUME NEW j \in Keys
               PROVE  IF j \in todo' THEN LastPlace(wal, j, slot) # 0
                      ELSE IsLast(LastPlace(wal, j, slot), topic'[TableOf(j)],
                                  Len(topic'[TableOf(j)]), j)
    BY <1>1 DEF SnapshotIsTaken
  <2>1. CASE j = k
    <3>1. IsLast(v, topic'[TableOf(j)], Len(topic'[TableOf(j)]), j)
      BY <1>4, <2>1, LastAfterSend DEF CdcInv
    <3>2. j \notin todo'
      BY <1>1, <2>1
    <3>3. QED
      BY <2>1, <3>1, <3>2
  <2>2. CASE j # k /\ j \in todo
    BY <1>1, <2>2 DEF CdcInv, SnapshotIsTaken
  <2>3. CASE j # k /\ j \notin todo
    <3>1. IsLast(LastPlace(wal, j, slot), topic[TableOf(j)], Len(topic[TableOf(j)]), j)
      BY <1>1, <2>3 DEF CdcInv, SnapshotIsTaken
    <3>2. IsLast(LastPlace(wal, j, slot), topic'[TableOf(j)], Len(topic'[TableOf(j)]), j)
      BY <1>4, <2>3, <3>1, LastAfterSend DEF CdcInv
    <3>3. j \notin todo'
      BY <1>1, <2>3
    <3>4. QED
      BY <3>2, <3>3
  <2>4. QED
    BY <2>1, <2>2, <2>3
<1>9. ASSUME restarts = 0
      PROVE  /\ copy[k] <= v
             /\ \A i \in 1 .. Len(topic[TableOf(k)]) : topic[TableOf(k)][i].key # k
  <2>1. \A i \in 1 .. Len(topic[TableOf(k)]) : topic[TableOf(k)][i].key # k
    BY <1>1, <1>9, TableOfKey DEF CdcInv, SentSoFar
  <2>2. copy[k] = 0
    BY <2>1, CopyWasSent DEF CdcInv
  <2>3. QED
    BY <1>3, <2>1, <2>2
<1>10. SentInOrder'
  BY <1>4, <1>9, OrderAfterSend DEF CdcInv
<1>11. SentSoFar'
  <2> DEFINE t == TableOf(k)
             e == [key |-> k, version |-> v]
  <2>1. /\ t \in Tables /\ Len(topic'[t]) = Len(topic[t]) + 1
        /\ \A u \in Tables : u # t => topic'[u] = topic[u]
        /\ topic'[t][Len(topic[t]) + 1] = e
        /\ \A i \in 1 .. Len(topic[t]) : topic'[t][i] = topic[t][i]
        /\ Len(topic[t]) \in Nat
    <3>1. v \in Version /\ TypeOK
      BY <1>2, <1>3, TypeFacts DEF CdcInv, Version
    <3>2. QED
      BY <1>1, <1>3, <3>1, SentEvent, TypeFacts
  <2>2. e.key = k /\ e.version = v
    OBVIOUS
  <2> HIDE DEF e
  <2> SUFFICES ASSUME restarts = 0, NEW u \in Tables, NEW j \in 1 .. Len(topic'[u])
               PROVE  topic'[u][j].version <= slot /\ topic'[u][j].key \notin todo'
    BY <1>1 DEF SentSoFar
  <2>3. CASE u # t \/ j # Len(topic[t]) + 1
    <3>1. j \in 1 .. Len(topic[u]) /\ topic'[u][j] = topic[u][j]
      BY <2>1, <2>3
    <3>2. QED
      BY <1>1, <3>1 DEF CdcInv, SentSoFar
  <2>4. CASE u = t /\ j = Len(topic[t]) + 1
    BY <1>1, <1>3, <2>1, <2>2, <2>4
  <2>5. QED
    BY <2>3, <2>4
<1>12. QED
  BY <1>5, <1>6, <1>7, <1>8, <1>10, <1>11 DEF CdcInv

LEMMA SnapshotEndsStep ==
    ASSUME CdcInv, SnapshotEnds
    PROVE  CdcInv'
<1>1. /\ mode = "snapshot" /\ todo = {} /\ mode' = "stream" /\ pos' = slot
      /\ UNCHANGED <<wal, slot, todo, topic, sink, got, stored, copy, restarts>>
  BY DEF SnapshotEnds
<1>2. slot \in Nat /\ slot <= Len(wal) /\ Len(wal) \in Nat
  BY TypeFacts DEF CdcInv, Positions
<1>3. TypeOK' /\ Positions'
  BY <1>1, <1>2 DEF CdcInv, TypeOK, Positions
<1>4. EventsAreChanges' /\ CopyAtOrAfterGot' /\ SentInOrder' /\ SnapshotIsTaken'
  BY <1>1 DEF CdcInv, EventsAreChanges, CopyAtOrAfterGot, SentInOrder, SnapshotIsTaken
<1>5. SentSoFar'
  BY <1>1 DEF CdcInv, SentSoFar
<1>6. NothingIsSkipped'
  <2> SUFFICES ASSUME NEW j \in Keys, ~(LastPlace(wal, j, Len(wal)) > slot)
               PROVE  IsLast(LastPlace(wal, j, Len(wal)), topic[TableOf(j)],
                             Len(topic[TableOf(j)]), j)
    BY <1>1 DEF NothingIsSkipped
  <2> DEFINE v == LastPlace(wal, j, Len(wal))
  <2>1. /\ v \in 0 .. Len(wal) /\ (v # 0 => wal[v] = j)
        /\ \A i \in 1 .. Len(wal) : wal[i] = j => i <= v
    BY <1>2, LastPlaceFacts
  <2> HIDE DEF v
  <2>2. v \in 0 .. slot
    BY <1>2, <2>1 DEF v
  <2>3. LastPlace(wal, j, slot) = v
    BY <1>2, <2>1, <2>2, LastPlaceIs
  <2>4. IsLast(LastPlace(wal, j, slot), topic[TableOf(j)], Len(topic[TableOf(j)]), j)
    BY <1>1 DEF CdcInv, SnapshotIsTaken
  <2>5. QED
    BY <2>3, <2>4 DEF v
<1>7. QED
  BY <1>3, <1>4, <1>5, <1>6 DEF CdcInv

LEMMA StreamStep ==
    ASSUME CdcInv, Stream
    PROVE  CdcInv'
<1> DEFINE k == wal[pos + 1]
           v == pos + 1
<1>1. /\ mode = "stream" /\ pos < Len(wal) /\ pos' = pos + 1 /\ Send(k, v)
      /\ UNCHANGED <<wal, mode, slot, todo, sink, got, stored, copy, restarts>>
  BY DEF Stream
<1>2. /\ pos \in Nat /\ slot \in Nat /\ slot <= pos /\ Len(wal) \in Nat
      /\ Len(wal) <= MaxChanges
  BY <1>1, TypeFacts DEF CdcInv, Positions
<1>3. v \in 1 .. Len(wal) /\ k \in Keys /\ wal[v] = k
  BY <1>1, <1>2, TypeFacts DEF CdcInv
<1>4. v = pos + 1
  OBVIOUS
<1> HIDE DEF k, v
<1>5. Sends(k, v)
  BY <1>1, <1>3 DEF Sends
<1>6. /\ topic' \in [Tables -> Seq(Event)]
      /\ \A u \in Tables : got'[u] <= Len(topic'[u])
      /\ EventsAreChanges' /\ CopyAtOrAfterGot'
  BY <1>5, SendKeeps DEF CdcInv
<1>7. TypeOK'
  <2>1. pos' \in Version
    BY <1>1, <1>2 DEF Version
  <2>2. QED
    BY <1>1, <1>6, <2>1 DEF CdcInv, TypeOK
<1>8. Positions' /\ SnapshotIsTaken'
  BY <1>1, <1>2 DEF CdcInv, Positions, SnapshotIsTaken
<1>9. NothingIsSkipped'
  <2> SUFFICES ASSUME NEW j \in Keys
               PROVE  \/ LastPlace(wal, j, Len(wal)) > v
                      \/ IsLast(LastPlace(wal, j, Len(wal)), topic'[TableOf(j)],
                                Len(topic'[TableOf(j)]), j)
    BY <1>1, <1>4 DEF NothingIsSkipped
  <2> DEFINE w == LastPlace(wal, j, Len(wal))
  <2>1. /\ w \in 0 .. Len(wal) /\ (w # 0 => wal[w] = j)
        /\ \A i \in 1 .. Len(wal) : wal[i] = j => i <= w
    BY <1>2, LastPlaceFacts
  <2>2. w > pos \/ IsLast(w, topic[TableOf(j)], Len(topic[TableOf(j)]), j)
    BY <1>1 DEF CdcInv, NothingIsSkipped
  <2> HIDE DEF w
  <2>3. CASE j = k
    <3>1. w >= v
      BY <1>3, <2>1, <2>3
    <3>2. IsLast(v, topic'[TableOf(j)], Len(topic'[TableOf(j)]), j)
      BY <1>5, <2>3, LastAfterSend DEF CdcInv
    <3>3. QED
      BY <1>2, <1>4, <2>1, <3>1, <3>2 DEF w
  <2>4. CASE j # k
    <3>1. w > pos => w > v
      BY <1>2, <1>3, <1>4, <2>1, <2>4
    <3>2. IsLast(w, topic[TableOf(j)], Len(topic[TableOf(j)]), j) =>
              IsLast(w, topic'[TableOf(j)], Len(topic'[TableOf(j)]), j)
      BY <1>5, <2>4, LastAfterSend DEF CdcInv
    <3>3. QED
      BY <2>2, <3>1, <3>2 DEF w
  <2>5. QED
    BY <2>3, <2>4
<1>10. ASSUME restarts = 0
       PROVE  /\ copy[k] <= v
              /\ \A u \in Tables : \A i \in 1 .. Len(topic[u]) : topic[u][i].version <= v
  <2>1. ASSUME NEW u \in Tables, NEW i \in 1 .. Len(topic[u])
        PROVE  topic[u][i].version <= v
    <3>1. topic[u][i].version <= pos /\ topic[u][i].version \in Nat
      BY <1>1, <1>10, TypeFacts, EventFacts DEF CdcInv, SentSoFar
    <3>2. QED
      BY <1>2, <1>4, <3>1
  <2>2. copy[k] = 0 \/ copy[k] <= v
    BY <1>3, <2>1, CopyWasSent, TableOfKey DEF CdcInv
  <2>3. QED
    BY <1>3, <2>1, <2>2
<1>11. SentInOrder'
  BY <1>3, <1>5, <1>10, OrderAfterSend, TableOfKey DEF CdcInv
<1>12. SentSoFar'
  <2> DEFINE t == TableOf(k)
             e == [key |-> k, version |-> v]
  <2>1. /\ t \in Tables /\ Len(topic'[t]) = Len(topic[t]) + 1
        /\ \A u \in Tables : u # t => topic'[u] = topic[u]
        /\ topic'[t][Len(topic[t]) + 1] = e
        /\ \A i \in 1 .. Len(topic[t]) : topic'[t][i] = topic[t][i]
        /\ Len(topic[t]) \in Nat
    <3>1. v \in Version /\ v # 0 /\ TypeOK
      BY <1>2, <1>3 DEF CdcInv, Version
    <3>2. QED
      BY <1>1, <1>3, <3>1, SentEvent, TypeFacts
  <2>2. e.version = v
    OBVIOUS
  <2> HIDE DEF e
  <2> SUFFICES ASSUME restarts = 0, NEW u \in Tables, NEW j \in 1 .. Len(topic'[u])
               PROVE  topic'[u][j].version <= v
    BY <1>1, <1>4 DEF SentSoFar
  <2>3. CASE u # t \/ j # Len(topic[t]) + 1
    <3>1. j \in 1 .. Len(topic[u]) /\ topic'[u][j] = topic[u][j]
      BY <2>1, <2>3
    <3>2. QED
      BY <1>10, <3>1
  <2>4. CASE u = t /\ j = Len(topic[t]) + 1
    BY <1>3, <2>1, <2>2, <2>4
  <2>5. QED
    BY <2>3, <2>4
<1>13. QED
  BY <1>6, <1>7, <1>8, <1>9, <1>11, <1>12 DEF CdcInv

LEMMA ConfirmStep ==
    ASSUME CdcInv, Confirm
    PROVE  CdcInv'
<1>1. /\ mode = "stream" /\ slot' = pos
      /\ UNCHANGED <<wal, mode, todo, pos, topic, sink, got, stored, copy, restarts>>
  BY DEF Confirm
<1>2. pos \in Nat /\ pos <= Len(wal)
  BY TypeFacts DEF CdcInv, Positions
<1>3. TypeOK' /\ Positions'
  BY <1>1, <1>2 DEF CdcInv, TypeOK, Positions
<1>4. /\ EventsAreChanges' /\ SnapshotIsTaken' /\ NothingIsSkipped'
      /\ CopyAtOrAfterGot' /\ SentInOrder' /\ SentSoFar'
  BY <1>1 DEF CdcInv, EventsAreChanges, SnapshotIsTaken, NothingIsSkipped,
              CopyAtOrAfterGot, SentInOrder, SentSoFar
<1>5. QED
  BY <1>3, <1>4 DEF CdcInv

LEMMA UpsertStep ==
    ASSUME CdcInv, NEW t \in Tables, Upsert(t)
    PROVE  CdcInv'
<1> DEFINE s == topic[t]
           g == got[t]
           e == s[g + 1]
<1>1. /\ g < Len(s)
      /\ copy' = [copy EXCEPT ![e.key] = e.version]
      /\ got' = [got EXCEPT ![t] = g + 1]
      /\ UNCHANGED <<wal, mode, slot, todo, pos, topic, sink, stored, restarts>>
  BY DEF Upsert
<1>2. /\ Len(s) \in Nat /\ g \in Nat /\ stored[t] \in Nat /\ stored[t] <= g
      /\ \A i \in 1 .. Len(s) : s[i] \in Event
  BY TypeFacts DEF CdcInv
<1>3. g + 1 \in 1 .. Len(s) /\ e \in Event
  BY <1>1, <1>2
<1>4. /\ e.key \in Keys /\ e.version \in Version /\ TableOf(e.key) = t
      /\ copy \in [Keys -> Version] /\ got \in [Tables -> Nat]
  BY <1>3 DEF CdcInv, TypeOK, Event, EventsAreChanges
<1>5. /\ copy' \in [Keys -> Version] /\ got' \in [Tables -> Nat]
      /\ copy'[e.key] = e.version
      /\ \A k \in Keys : k # e.key => copy'[k] = copy[k]
      /\ got'[t] = g + 1
      /\ \A u \in Tables : u # t => got'[u] = got[u]
  <2> HIDE DEF e, g
  <2>1. QED
    BY <1>1, <1>2, <1>4
<1> HIDE DEF e
<1>6. TypeOK'
  <2>1. \A u \in Tables : stored[u] <= got'[u] /\ got'[u] <= Len(topic[u])
    BY <1>1, <1>2, <1>5, TypeFacts DEF CdcInv
  <2>2. QED
    BY <1>1, <1>5, <2>1 DEF CdcInv, TypeOK
<1>7. Positions' /\ EventsAreChanges' /\ SnapshotIsTaken' /\ NothingIsSkipped' /\ SentSoFar'
  BY <1>1 DEF CdcInv, Positions, EventsAreChanges, SnapshotIsTaken, NothingIsSkipped,
              SentSoFar
<1>8. CopyAtOrAfterGot'
  <2> SUFFICES ASSUME NEW k \in Keys
               PROVE  \E n \in got'[TableOf(k)] .. Len(topic[TableOf(k)]) :
                          IsLast(copy'[k], topic[TableOf(k)], n, k)
    BY <1>1 DEF CopyAtOrAfterGot
  <2>1. PICK n \in got[TableOf(k)] .. Len(topic[TableOf(k)]) :
            IsLast(copy[k], topic[TableOf(k)], n, k)
    BY DEF CdcInv, CopyAtOrAfterGot
  <2>2. CASE k = e.key
    <3>1. IsLast(e.version, s, g + 1, k)
      BY <1>2, <2>2, LastOfNext DEF e
    <3>2. QED
      BY <1>3, <1>4, <1>5, <2>2, <3>1
  <2>3. CASE k # e.key /\ TableOf(k) = t /\ n = g
    <3>1. IsLast(copy[k], s, g + 1, k)
      BY <1>2, <2>1, <2>3, LastOfNext DEF e
    <3>2. QED
      BY <1>3, <1>5, <2>3, <3>1
  <2>4. CASE k # e.key /\ TableOf(k) = t /\ n # g
    <3>1. n \in g + 1 .. Len(s)
      BY <1>2, <2>1, <2>4
    <3>2. QED
      BY <1>5, <2>1, <2>4, <3>1
  <2>5. CASE k # e.key /\ TableOf(k) # t
    BY <1>5, <2>1, <2>5, TableOfKey
  <2>6. QED
    BY <2>2, <2>3, <2>4, <2>5
<1>9. SentInOrder'
  <2> SUFFICES ASSUME restarts = 0, NEW u \in Tables, NEW j \in 1 .. Len(topic[u])
               PROVE  /\ \A i \in 1 .. j :
                             topic[u][i].key = topic[u][j].key =>
                                 topic[u][i].version <= topic[u][j].version
                      /\ j > got'[u] => copy'[topic[u][j].key] <= topic[u][j].version
    BY <1>1 DEF SentInOrder
  <2>1. /\ \A i \in 1 .. j :
               topic[u][i].key = topic[u][j].key =>
                   topic[u][i].version <= topic[u][j].version
        /\ j > got[u] => copy[topic[u][j].key] <= topic[u][j].version
    BY DEF CdcInv, SentInOrder
  <2>2. /\ topic[u][j].key \in Keys /\ TableOf(topic[u][j].key) = u
        /\ got[u] \in Nat
    BY TypeFacts, EventFacts DEF CdcInv, EventsAreChanges
  <2>3. ASSUME j > got'[u]
        PROVE  copy'[topic[u][j].key] <= topic[u][j].version
    <3>1. CASE topic[u][j].key # e.key
      <4>1. j > got[u]
        BY <1>5, <2>2, <2>3
      <4>2. QED
        BY <1>5, <2>1, <2>2, <3>1, <4>1
    <3>2. CASE topic[u][j].key = e.key
      <4>1. u = t /\ g + 1 \in 1 .. j
        BY <1>2, <1>4, <1>5, <2>2, <2>3, <3>2
      <4>2. e.version <= topic[u][j].version
        BY <2>1, <3>2, <4>1 DEF e
      <4>3. QED
        BY <1>5, <3>2, <4>2
    <3>3. QED
      BY <3>1, <3>2
  <2>4. QED
    BY <2>1, <2>3
<1>10. QED
  BY <1>6, <1>7, <1>8, <1>9 DEF CdcInv

LEMMA StoreStep ==
    ASSUME CdcInv, Store
    PROVE  CdcInv'
<1>1. /\ stored' = got
      /\ UNCHANGED <<wal, mode, slot, todo, pos, topic, sink, got, copy, restarts>>
  BY DEF Store
<1>2. TypeOK'
  <2>1. \A t \in Tables : got[t] <= got[t] /\ got[t] <= Len(topic[t])
    BY TypeFacts DEF CdcInv
  <2>2. QED
    BY <1>1, <2>1 DEF CdcInv, TypeOK
<1>3. /\ Positions' /\ EventsAreChanges' /\ SnapshotIsTaken' /\ NothingIsSkipped'
      /\ CopyAtOrAfterGot' /\ SentInOrder' /\ SentSoFar'
  BY <1>1 DEF CdcInv, Positions, EventsAreChanges, SnapshotIsTaken, NothingIsSkipped,
              CopyAtOrAfterGot, SentInOrder, SentSoFar
<1>4. QED
  BY <1>2, <1>3 DEF CdcInv

\* The sink task is started or fails: no table or offset moves.
LEMMA SinkTaskStep ==
    ASSUME CdcInv, RegisterSink \/ SinkFails
    PROVE  CdcInv'
<1>1. /\ sink' \in {"runs", "failed"}
      /\ UNCHANGED <<wal, mode, slot, todo, pos, topic, got, stored, copy, restarts>>
  BY DEF RegisterSink, SinkFails
<1>2. TypeOK'
  BY <1>1 DEF CdcInv, TypeOK
<1>3. /\ Positions' /\ EventsAreChanges' /\ SnapshotIsTaken' /\ NothingIsSkipped'
      /\ CopyAtOrAfterGot' /\ SentInOrder' /\ SentSoFar'
  BY <1>1 DEF CdcInv, Positions, EventsAreChanges, SnapshotIsTaken, NothingIsSkipped,
              CopyAtOrAfterGot, SentInOrder, SentSoFar
<1>4. QED
  BY <1>2, <1>3 DEF CdcInv

\* The tasks resume where their offsets are stored, at or before where they
\* were: what was sent or written after that is sent and written again.
LEMMA RestartStep ==
    ASSUME CdcInv, Restart
    PROVE  CdcInv'
<1>1. /\ mode # "absent" /\ restarts < MaxRestarts /\ restarts' = restarts + 1
      /\ sink' = "runs" /\ got' = stored
      /\ UNCHANGED <<wal, mode, topic, stored, copy>>
  BY DEF Restart
<1>2. /\ Len(wal) \in Nat /\ Len(wal) \in Version /\ slot \in Nat /\ pos \in Nat
      /\ slot <= Len(wal) /\ pos <= Len(wal)
      /\ restarts \in 0 .. MaxRestarts
      /\ mode # "snapshot" => mode = "stream" /\ slot <= pos
  BY <1>1, TypeFacts DEF CdcInv, TypeOK, Positions, Version
<1>3. restarts' \in 0 .. MaxRestarts /\ restarts' # 0
  BY <1>1, <1>2
<1>4. EventsAreChanges' /\ SentInOrder' /\ SentSoFar'
  BY <1>1, <1>3 DEF CdcInv, EventsAreChanges, SentInOrder, SentSoFar
<1>5. CopyAtOrAfterGot'
  <2> SUFFICES ASSUME NEW k \in Keys
               PROVE  \E n \in stored[TableOf(k)] .. Len(topic[TableOf(k)]) :
                          IsLast(copy[k], topic[TableOf(k)], n, k)
    BY <1>1 DEF CopyAtOrAfterGot
  <2>1. PICK n \in got[TableOf(k)] .. Len(topic[TableOf(k)]) :
            IsLast(copy[k], topic[TableOf(k)], n, k)
    BY DEF CdcInv, CopyAtOrAfterGot
  <2>2. n \in stored[TableOf(k)] .. Len(topic[TableOf(k)])
    BY <2>1, TypeFacts, TableOfKey DEF CdcInv
  <2>3. QED
    BY <2>1, <2>2
<1>6. CASE mode = "snapshot"
  <2>1. slot' = Len(wal) /\ todo' = {k \in Keys : Exists(k)} /\ pos' = pos
    BY <1>6 DEF Restart
  <2>2. TypeOK'
    <3>1. /\ got' \in [Tables -> Nat]
          /\ \A t \in Tables : stored[t] <= got'[t] /\ got'[t] <= Len(topic[t])
      BY <1>1, TypeFacts DEF CdcInv, TypeOK
    <3>2. slot' \in Version /\ todo' \subseteq Keys /\ sink' \in {"absent", "runs", "failed"}
      BY <1>1, <1>2, <2>1
    <3>3. QED
      BY <1>1, <1>3, <2>1, <3>1, <3>2 DEF CdcInv, TypeOK
  <2>3. Positions' /\ NothingIsSkipped'
    BY <1>1, <1>2, <1>6, <2>1 DEF Positions, NothingIsSkipped
  <2>4. SnapshotIsTaken'
    BY <1>1, <2>1, SnapshotBegins, Zenon DEF CdcInv, SnapshotIsTaken
  <2>5. QED
    BY <1>4, <1>5, <2>2, <2>3, <2>4 DEF CdcInv
<1>7. CASE mode # "snapshot"
  <2>1. pos' = slot /\ slot' = slot /\ todo' = todo
    BY <1>7 DEF Restart
  <2>2. TypeOK'
    <3>1. /\ got' \in [Tables -> Nat]
          /\ \A t \in Tables : stored[t] <= got'[t] /\ got'[t] <= Len(topic[t])
      BY <1>1, TypeFacts DEF CdcInv, TypeOK
    <3>2. pos' \in Version /\ sink' \in {"absent", "runs", "failed"}
      BY <1>1, <2>1 DEF CdcInv, TypeOK
    <3>3. QED
      BY <1>1, <1>3, <2>1, <3>1, <3>2 DEF CdcInv, TypeOK
  <2>3. Positions' /\ SnapshotIsTaken'
    BY <1>1, <1>2, <1>7, <2>1 DEF Positions, SnapshotIsTaken
  <2>4. NothingIsSkipped'
    <3> SUFFICES ASSUME NEW j \in Keys
                 PROVE  \/ LastPlace(wal, j, Len(wal)) > slot
                        \/ IsLast(LastPlace(wal, j, Len(wal)), topic[TableOf(j)],
                                  Len(topic[TableOf(j)]), j)
      BY <1>1, <2>1 DEF NothingIsSkipped
    <3>1. LastPlace(wal, j, Len(wal)) \in Nat
      BY <1>2, LastPlaceFacts
    <3>2. \/ LastPlace(wal, j, Len(wal)) > pos
          \/ IsLast(LastPlace(wal, j, Len(wal)), topic[TableOf(j)],
                    Len(topic[TableOf(j)]), j)
      BY <1>2, <1>7 DEF CdcInv, NothingIsSkipped
    <3>3. QED
      BY <1>2, <1>7, <3>1, <3>2
  <2>5. QED
    BY <1>4, <1>5, <2>2, <2>3, <2>4 DEF CdcInv
<1>8. QED
  BY <1>6, <1>7

LEMMA CdcStep ==
    ASSUME CdcInv, [Next]_vars
    PROVE  CdcInv'
<1>1. CASE Api
  <2>1. PICK k \in Keys : Writes(k)
    BY <1>1, Zenon DEF Api, CreateWorkOrder, UpdateStatus, PostRun, PostState, Keys
  <2>2. QED
    BY <2>1, WritesStep
<1>2. CASE RegisterSource
  BY <1>2, RegisterSourceStep
<1>3. CASE Capture
  <2>1. CASE \E k \in Keys : SnapshotRow(k)
    BY <2>1, SnapshotRowStep
  <2>2. CASE SnapshotEnds
    BY <2>2, SnapshotEndsStep
  <2>3. CASE Stream
    BY <2>3, StreamStep
  <2>4. QED
    BY <1>3, <2>1, <2>2, <2>3 DEF Capture
<1>4. CASE Confirm
  BY <1>4, ConfirmStep
<1>5. CASE RegisterSink \/ SinkFails
  BY <1>5, SinkTaskStep
<1>6. CASE \E t \in Tables : Upsert(t)
  BY <1>6, UpsertStep
<1>7. CASE Store
  BY <1>7, StoreStep
<1>8. CASE Restart
  BY <1>8, RestartStep
<1>9. CASE UNCHANGED vars
  BY <1>9 DEF vars, CdcInv, TypeOK, Positions, EventsAreChanges, SnapshotIsTaken,
              NothingIsSkipped, CopyAtOrAfterGot, SentInOrder, SentSoFar
<1>10. QED
  BY <1>1, <1>2, <1>3, <1>4, <1>5, <1>6, <1>7, <1>8, <1>9 DEF Next

-------------------------------------------------------------------------------
(* What follows.                                                           *)

\* The invariant holds in every reachable state, whatever the tasks are at
\* and however often they were restarted.
THEOREM CdcInvariant == Spec => []CdcInv
<1>1. Init => CdcInv
  BY InitInv
<1>2. CdcInv /\ [Next]_vars => CdcInv'
  BY CdcStep
<1>3. QED
  BY <1>1, <1>2, PTL DEF Spec

\* Positions stay in the log, offsets in their topics, and what is stored
\* behind what is written (erp/debezium/*.json).
THEOREM TypeCorrect == Spec => []TypeOK
<1>1. CdcInv => TypeOK
  BY DEF CdcInv
<1>2. QED
  BY <1>1, CdcInvariant, PTL

\* When the source task is at the end of the log and the sink at the end of
\* its topics, the copied tables are the source tables.
THEOREM NothingIsLost == Spec => []CaughtUpIsEqual
<1>1. CdcInv => CaughtUpIsEqual
  <2> SUFFICES ASSUME CdcInv, CaughtUp
               PROVE  copy = Source
    BY DEF CaughtUpIsEqual
  <2>1. /\ mode = "stream" /\ pos = Len(wal) /\ Len(wal) \in Nat
        /\ \A t \in Tables : got[t] = Len(topic[t]) /\ Len(topic[t]) \in Nat
    BY TypeFacts DEF CdcInv, CaughtUp
  <2>2. ASSUME NEW k \in Keys
        PROVE  copy[k] = LastPlace(wal, k, Len(wal))
    <3> DEFINE s == topic[TableOf(k)]
               v == LastPlace(wal, k, Len(wal))
    <3>1. v \in 0 .. Len(wal)
      BY <2>1, LastPlaceFacts
    <3>2. v > pos \/ IsLast(v, s, Len(s), k)
      BY <2>1 DEF CdcInv, NothingIsSkipped
    <3> HIDE DEF v
    <3>3. IsLast(v, s, Len(s), k)
      BY <2>1, <3>1, <3>2
    <3>4. Len(s) \in Nat /\ got[TableOf(k)] = Len(s)
      BY <2>1, TableOfKey
    <3>5. PICK n \in got[TableOf(k)] .. Len(s) : IsLast(copy[k], s, n, k)
      BY DEF CdcInv, CopyAtOrAfterGot
    <3>6. n = Len(s)
      BY <3>4, <3>5
    <3>7. copy[k] = v
      BY <3>3, <3>4, <3>5, <3>6, LastIsUnique
    <3>8. QED
      BY <3>7 DEF v
  <2>3. copy \in [Keys -> Version]
    BY DEF CdcInv, TypeOK
  <2>4. Source = [k \in Keys |-> LastPlace(wal, k, Len(wal))]
    BY Zenon DEF Source, VersionAt, LastPlace
  <2>5. QED
    BY <2>2, <2>3, <2>4
<1>2. QED
  BY <1>1, CdcInvariant, PTL

\* The last event of a row, by its place.
LEMMA LastInIs ==
    ASSUME NEW t, NEW k, NEW n \in Nat, NEW v, IsLast(v, topic[t], n, k)
    PROVE  LastIn(t, n, k) = v
<1> DEFINE s == topic[t]
           at == {i \in 1 .. n : s[i].key = k}
<1>1. LastIn(t, n, k) = IF at = {} THEN 0 ELSE s[Max(at)].version
  BY Zenon DEF LastIn
<1>2. CASE v = 0 /\ \A i \in 1 .. n : s[i].key # k
  BY <1>1, <1>2
<1>3. CASE \E i \in 1 .. n : /\ s[i].key = k /\ s[i].version = v
                             /\ \A j \in i + 1 .. n : s[j].key # k
  <2>1. PICK i \in 1 .. n : /\ s[i].key = k /\ s[i].version = v
                            /\ \A j \in i + 1 .. n : s[j].key # k
    BY <1>3
  <2>2. at # {} /\ at \subseteq 0 .. n /\ i \in at
    BY <2>1
  <2> DEFINE m == Max(at)
  <2>3. m \in at /\ \A j \in at : m >= j
    <3> HIDE DEF at
    <3>1. QED
      BY <2>2, MaxIsGreatest
  <2> HIDE DEF m
  <2>4. m = i
    BY <2>1, <2>2, <2>3
  <2>5. QED
    BY <1>1, <2>1, <2>2, <2>4 DEF m
<1>4. QED
  BY <1>2, <1>3 DEF IsLast

\* A restart never loses a written change: the copy of a row is at what its
\* topic said at the stored offset, or at a later event.
THEOREM CopyIsNotBehind == Spec => []CopyAtOrAfterStored
<1>1. CdcInv => CopyAtOrAfterStored
  <2> SUFFICES ASSUME CdcInv, NEW k \in Keys
               PROVE  \E n \in stored[TableOf(k)] .. Len(topic[TableOf(k)]) :
                          copy[k] = LastIn(TableOf(k), n, k)
    BY Zenon DEF CopyAtOrAfterStored
  <2>1. PICK n \in got[TableOf(k)] .. Len(topic[TableOf(k)]) :
            IsLast(copy[k], topic[TableOf(k)], n, k)
    BY DEF CdcInv, CopyAtOrAfterGot
  <2>2. n \in Nat /\ n \in stored[TableOf(k)] .. Len(topic[TableOf(k)])
    BY <2>1, TypeFacts, TableOfKey DEF CdcInv
  <2>3. copy[k] = LastIn(TableOf(k), n, k)
    BY <2>1, <2>2, LastInIs
  <2>4. QED
    BY <2>2, <2>3
<1>2. QED
  BY <1>1, CdcInvariant, PTL

\* Only a restart takes a row of the copy back to an earlier version.
THEOREM OlderOnlyAfterRestart == Spec => NeverOlderWithoutRestart
<1> DEFINE Newer == restarts' = 0 => \A k \in Keys : copy'[k] >= copy[k]
<1>1. CdcInv /\ [Next]_vars => Newer
  <2> SUFFICES ASSUME CdcInv, [Next]_vars, restarts' = 0, NEW k \in Keys
               PROVE  copy'[k] >= copy[k]
    OBVIOUS
  <2>1. copy[k] \in Nat
    BY TypeFacts DEF CdcInv
  <2>2. CASE copy' = copy
    BY <2>1, <2>2
  <2>3. CASE \E t \in Tables : Upsert(t)
    <3>1. PICK t \in Tables : Upsert(t)
      BY <2>3
    <3> DEFINE e == topic[t][got[t] + 1]
    <3>2. /\ got[t] < Len(topic[t]) /\ restarts = 0
          /\ copy' = [copy EXCEPT ![e.key] = e.version]
      BY <3>1 DEF Upsert
    <3>3. got[t] + 1 \in 1 .. Len(topic[t]) /\ got[t] + 1 > got[t]
      BY <3>2, TypeFacts DEF CdcInv
    <3>4. e \in Event /\ copy[e.key] <= e.version
      BY <3>2, <3>3, TypeFacts DEF CdcInv, SentInOrder
    <3> HIDE DEF e
    <3>5. e.key \in Keys /\ e.version \in Nat /\ copy \in [Keys -> Version]
      BY <3>4, EventFacts DEF CdcInv, TypeOK
    <3>6. QED
      BY <2>1, <3>2, <3>4, <3>5
  <2>4. QED
    BY <2>2, <2>3, Zenon
       DEF Next, vars, Api, CreateWorkOrder, UpdateStatus, PostRun, PostState, Writes,
           RegisterSource, Capture, SnapshotRow, SnapshotEnds, Stream, Confirm,
           RegisterSink, Store, SinkFails, Restart
<1>2. QED
  BY <1>1, CdcInvariant, PTL DEF Spec, NeverOlderWithoutRestart
===============================================================================
