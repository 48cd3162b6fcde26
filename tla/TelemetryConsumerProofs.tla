----------------------- MODULE TelemetryConsumerProofs ------------------------
(***************************************************************************)
(* Proofs about TelemetryConsumer, for every set of topics, batch size,    *)
(* log length and number of sessions: its invariants, and that it          *)
(* implements RawLanding, what raw.telemetry promises, and ConsumerLoop,   *)
(* the control that the liveness results are about.                        *)
(***************************************************************************)
EXTENDS TelemetryConsumer, SequenceTheorems, TLAPS

USE TopicsAssumption, BatchAssumption, BoundAssumption
    DEF TopicsAssumption, BatchAssumption, BoundAssumption

-------------------------------------------------------------------------------
(* Type correctness.                                                       *)

LEMMA MemoryGoneTyping ==
    ASSUME TypeOK, MemoryGone
    PROVE  /\ session' \in 0 .. MaxSessions
           /\ running' \in BOOLEAN
           /\ sub' \in SUBSET Topics
           /\ position' \in [Topics -> Offset]
           /\ resumed' \in [Topics -> Offset]
           /\ batch' \in Seq(Reading)
           /\ due' \in BOOLEAN
           /\ conn' \in {"none", "open", "broken"}
           /\ cached' \in BOOLEAN
<1>1. Origin \in [Topics -> Offset]
  BY DEF Origin, Offset
<1>2. <<>> \in Seq(Reading)
  BY EmptySeq
<1>3. QED
  BY <1>1, <1>2 DEF MemoryGone, TypeOK

LEMMA AfterFlushTyping ==
    AfterIteration \in PCs /\ AfterFlush \in PCs
BY DEF AfterIteration, AfterFlush, PCs, Alive, Loop, FlushPoints

LEMMA FlushedTyping ==
    ASSUME TypeOK
    PROVE  rows \o batch \in Seq(Reading) /\ <<>> \in Seq(Reading)
BY ConcatProperties, EmptySeq DEF TypeOK

LEMMA BufferedTyping ==
    ASSUME TypeOK
    PROVE  Buffered \subseteq Message
<1>1. \A i \in DOMAIN batch : batch[i] \in Reading
  BY ElementOfSeq, LenProperties DEF TypeOK
<1>2. QED
  BY <1>1 DEF Buffered, Message, Reading

\* A counter of one topic moves up by one, the others stay.
LEMMA OneMore ==
    ASSUME NEW f \in [Topics -> Nat], NEW t \in Topics
    PROVE  LET g == [f EXCEPT ![t] = f[t] + 1]
           IN \A u \in Topics : /\ f[u] \in Nat /\ f[u] <= g[u]
                                /\ u # t => g[u] = f[u]
                                /\ u = t => g[u] = f[u] + 1
OBVIOUS

LEMMA OneMoreTyping ==
    ASSUME NEW f \in [Topics -> Offset], NEW t \in Topics, f[t] < MaxLog
    PROVE  [f EXCEPT ![t] = f[t] + 1] \in [Topics -> Offset]
BY BoundAssumption DEF Offset

LEMMA CountersTyping ==
    ASSUME TypeOK
    PROVE  published \in [Topics -> Nat] /\ position \in [Topics -> Nat]
BY DEF TypeOK, Offset

LEMMA TypingInductive ==
    ASSUME TypeOK, [Next]_vars
    PROVE  TypeOK'
<1> USE DEF kafka, process, PCs, Alive, Loop, FlushPoints, Offset
<1>1. ASSUME NEW t \in Topics, Publish(t) PROVE TypeOK'
  <2>1. published' \in [Topics -> Offset]
    BY <1>1, OneMoreTyping DEF Publish, TypeOK
  <2>2. QED
    BY <1>1, <2>1 DEF Publish, TypeOK
<1>2. ASSUME NEW t \in Topics, DeliverReading(t) PROVE TypeOK'
  <2>1. [topic |-> t, offset |-> position[t], session |-> session] \in Reading
    BY DEF TypeOK, Reading
  <2>2. batch' \in Seq(Reading)
    BY <1>2, <2>1 DEF DeliverReading, TypeOK
  <2>3. position' \in [Topics -> Offset]
    <3>1. position[t] < MaxLog
      BY SMTT(30), <1>2, BoundAssumption DEF DeliverReading, Take, TypeOK
    <3>2. QED
      BY <1>2, <3>1, OneMoreTyping DEF DeliverReading, Take, TypeOK
  <2>4. pc' \in PCs
    BY <1>2 DEF DeliverReading, AfterIteration
  <2>5. QED
    BY <1>2, <2>2, <2>3, <2>4 DEF DeliverReading, TypeOK
<1>3. ASSUME NEW t \in Topics, DeliverSkipped(t) PROVE TypeOK'
  <2>1. position' \in [Topics -> Offset]
    <3>1. position[t] < MaxLog
      BY <1>3, BoundAssumption DEF DeliverSkipped, Take, TypeOK
    <3>2. QED
      BY <1>3, <3>1, OneMoreTyping DEF DeliverSkipped, Take, TypeOK
  <2>2. excused' \in SUBSET Message
    BY <1>3 DEF DeliverSkipped, TypeOK, Message
  <2>3. pc' \in PCs
    BY <1>3 DEF DeliverSkipped, AfterIteration
  <2>4. QED
    BY <1>3, <2>1, <2>2, <2>3 DEF DeliverSkipped, TypeOK
<1>4. CASE Start
  BY <1>4 DEF Start, TypeOK
<1>5. CASE Sigterm
  BY <1>5 DEF Sigterm, TypeOK
<1>6. CASE Kill
  BY <1>6, MemoryGoneTyping, BufferedTyping DEF Kill, TypeOK
<1>7. CASE ConnectionLost
  BY <1>7 DEF ConnectionLost, TypeOK
<1>8. CASE AutoCommit \/ Rejoin
  BY SMTT(30), <1>8 DEF AutoCommit, Rejoin, TypeOK
<1>9. CASE Subscribe
  <2>1. CASE Created = {}
    BY <1>9, <2>1, MemoryGoneTyping DEF Subscribe, TypeOK
  <2>2. CASE Created # {}
    <3>1. Created \subseteq Topics
      BY DEF Created
    <3>2. QED
      BY <1>9, <2>2, <3>1 DEF Subscribe, TypeOK
  <2>3. QED BY <2>1, <2>2
<1>10. CASE ConnectPg
  BY <1>10 DEF ConnectPg, TypeOK, AfterIteration
<1>11. CASE Timer
  BY <1>11 DEF Timer, TypeOK
<1>12. CASE PollError
  BY <1>12 DEF PollError, TypeOK, AfterIteration
<1>13. CASE PollIdle
  BY <1>13 DEF PollIdle, TypeOK, AfterIteration
<1>14. CASE FlushCommits
  BY <1>14, FlushedTyping, AfterFlushTyping DEF FlushCommits, TypeOK
<1>15. CASE FlushRejected
  BY <1>15, FlushedTyping, AfterFlushTyping, BufferedTyping DEF FlushRejected, TypeOK
<1>16. CASE FlushCaught
  <2>1. rows' \in Seq(Reading)
    BY <1>16, FlushedTyping DEF FlushCaught, FlushRaises, TypeOK
  <2>2. QED
    BY <1>16, <2>1, AfterFlushTyping DEF FlushCaught, TypeOK
<1>17. CASE FlushFatal
  <2>1. rows' \in Seq(Reading)
    BY <1>17, FlushedTyping DEF FlushFatal, FlushRaises, TypeOK
  <2>2. QED
    BY <1>17, <2>1, MemoryGoneTyping, BufferedTyping DEF FlushFatal, TypeOK
<1>18. CASE DrainEmpty
  BY <1>18 DEF DrainEmpty, TypeOK
<1>19. CASE Close
  BY <1>19, MemoryGoneTyping DEF Close, TypeOK
<1>20. CASE UNCHANGED vars
  BY <1>20 DEF vars, TypeOK
<1>21. QED
  BY <1>1, <1>2, <1>3, <1>4, <1>5, <1>6, <1>7, <1>8, <1>9, <1>10, <1>11,
     <1>12, <1>13, <1>14, <1>15, <1>16, <1>17, <1>18, <1>19, <1>20 DEF Next

LEMMA InitTyping == Init => TypeOK
<1>1. Origin \in [Topics -> Offset]
  BY DEF Origin, Offset
<1>2. <<>> \in Seq(Reading)
  BY EmptySeq
<1>3. 0 \in 0 .. MaxSessions
  OBVIOUS
<1>4. Init => rows \in Seq(Reading) /\ batch \in Seq(Reading)
  BY <1>2 DEF Init
<1>5. Init => pc \in PCs
  BY DEF Init, PCs
<1>6. QED
  BY <1>1, <1>3, <1>4, <1>5 DEF Init, TypeOK

\* Every variable keeps its type: in particular no offset that is committed,
\* polled or written lies past the end of its log.
THEOREM TypeCorrect == Spec => []TypeOK
<1>1. Init => TypeOK
  BY InitTyping
<1>2. TypeOK /\ [Next]_vars => TypeOK'
  BY TypingInductive
<1>3. QED
  BY <1>1, <1>2, PTL DEF Spec

-------------------------------------------------------------------------------
(* Indices and elements of the two sequences.                              *)

LEMMA RowsTyping ==
    ASSUME TypeOK
    PROVE  \A i \in DOMAIN rows : /\ rows[i].topic \in Topics
                                  /\ rows[i].offset \in Offset
                                  /\ rows[i].session \in Nat
<1>1. \A i \in DOMAIN rows : rows[i] \in Reading
  BY ElementOfSeq, LenProperties DEF TypeOK
<1>2. QED
  BY <1>1 DEF Reading

LEMMA BatchTyping ==
    ASSUME TypeOK
    PROVE  \A i \in DOMAIN batch : /\ batch[i].topic \in Topics
                                   /\ batch[i].offset \in Offset
                                   /\ batch[i].session \in Nat
<1>1. \A i \in DOMAIN batch : batch[i] \in Reading
  BY ElementOfSeq, LenProperties DEF TypeOK
<1>2. QED
  BY <1>1 DEF Reading

\* An element of a concatenation comes from the one or the other sequence.
LEMMA ConcatElements ==
    ASSUME NEW S, NEW s \in Seq(S), NEW u \in Seq(S)
    PROVE  /\ \A i \in DOMAIN (s \o u) :
                  \/ i \in DOMAIN s /\ (s \o u)[i] = s[i]
                  \/ \E k \in DOMAIN u : (s \o u)[i] = u[k]
           /\ \A i \in DOMAIN s : i \in DOMAIN (s \o u) /\ (s \o u)[i] = s[i]
           /\ \A k \in DOMAIN u : \E i \in DOMAIN (s \o u) : (s \o u)[i] = u[k]
<1> DEFINE m == Len(s)
           n == Len(u)
<1>1. /\ m \in Nat /\ n \in Nat
      /\ DOMAIN s = 1 .. m /\ DOMAIN u = 1 .. n /\ DOMAIN (s \o u) = 1 .. m + n
      /\ \A k \in 1 .. m + n : (s \o u)[k] = IF k <= m THEN s[k] ELSE u[k - m]
  BY ConcatProperties, LenProperties
<1> HIDE DEF m, n
<1>2. \A i \in 1 .. m + n : i > m => i - m \in 1 .. n /\ (s \o u)[i] = u[i - m]
  BY <1>1
<1>3. \A i \in 1 .. m : i \in 1 .. m + n /\ (s \o u)[i] = s[i]
  BY <1>1
<1>4. \A k \in 1 .. n : k + m \in 1 .. m + n /\ (s \o u)[k + m] = u[k]
  BY <1>1
<1>5. \A i \in 1 .. m + n : i > m \/ i \in 1 .. m
  BY <1>1
<1>6. QED
  BY <1>1, <1>2, <1>3, <1>4, <1>5

\* Two places of a concatenation: both in the first part, one in each, or
\* both in the second.
LEMMA ConcatPairs ==
    ASSUME NEW S, NEW s \in Seq(S), NEW u \in Seq(S),
           NEW i \in DOMAIN (s \o u), NEW j \in DOMAIN (s \o u), i < j
    PROVE  \/ /\ i \in DOMAIN s /\ (s \o u)[i] = s[i]
              /\ j \in DOMAIN s /\ (s \o u)[j] = s[j]
           \/ /\ i \in DOMAIN s /\ (s \o u)[i] = s[i]
              /\ \E k \in DOMAIN u : (s \o u)[j] = u[k]
           \/ \E k, l \in DOMAIN u :
                  k < l /\ (s \o u)[i] = u[k] /\ (s \o u)[j] = u[l]
<1> DEFINE m == Len(s)
           n == Len(u)
<1>1. /\ m \in Nat /\ n \in Nat
      /\ DOMAIN s = 1 .. m /\ DOMAIN u = 1 .. n /\ DOMAIN (s \o u) = 1 .. m + n
      /\ \A k \in 1 .. m + n : (s \o u)[k] = IF k <= m THEN s[k] ELSE u[k - m]
  BY ConcatProperties, LenProperties
<1> HIDE DEF m, n
<1>2. i \in 1 .. m + n /\ j \in 1 .. m + n
  BY <1>1
<1>3. CASE j <= m
  <2>1. i \in 1 .. m /\ j \in 1 .. m
    BY <1>1, <1>2, <1>3
  <2>2. (s \o u)[i] = s[i] /\ (s \o u)[j] = s[j]
    BY <1>1, <1>2, <2>1
  <2>3. QED
    BY <1>1, <2>1, <2>2
<1>4. CASE i <= m /\ j > m
  <2>1. i \in 1 .. m /\ j - m \in 1 .. n
    BY <1>1, <1>2, <1>4
  <2>2. (s \o u)[i] = s[i] /\ (s \o u)[j] = u[j - m]
    BY <1>1, <1>2, <1>4
  <2>3. QED
    BY <1>1, <2>1, <2>2
<1>5. CASE i > m
  <2>1. i - m \in 1 .. n /\ j - m \in 1 .. n /\ i - m < j - m
    BY <1>1, <1>2, <1>5
  <2>2. (s \o u)[i] = u[i - m] /\ (s \o u)[j] = u[j - m]
    BY <1>1, <1>2, <1>5
  <2>3. QED
    BY <1>1, <2>1, <2>2
<1>6. j <= m \/ (i <= m /\ j > m) \/ i > m
  BY <1>1, <1>2
<1>7. QED
  BY <1>3, <1>4, <1>5, <1>6

\* An element of an appended sequence is an old one or the new one.
LEMMA AppendIndex ==
    ASSUME NEW S, NEW s \in Seq(S), NEW e \in S
    PROVE  /\ Len(Append(s, e)) = Len(s) + 1
           /\ DOMAIN Append(s, e) = DOMAIN s \cup {Len(s) + 1}
           /\ \A i \in DOMAIN s : Append(s, e)[i] = s[i] /\ i < Len(s) + 1
           /\ Append(s, e)[Len(s) + 1] = e
BY AppendProperties, LenProperties

-------------------------------------------------------------------------------
(* The inductive invariant, action by action.                              *)

\* raw.telemetry as a flush leaves it: unchanged, or with the batch appended
\* on a connection that held.
LEMMA RowsGrow ==
    ASSUME IInv, TypeOK', pc \in Loop,
           rows' = rows \/ (conn = "open" /\ rows' = rows \o batch)
    PROVE  /\ OrderedPerSession'
           /\ \A i \in DOMAIN rows' : rows'[i].session <= session
           /\ \A i \in DOMAIN rows' :
                  rows'[i].session = session =>
                      /\ rows'[i].offset >= resumed[rows'[i].topic]
                      /\ rows'[i].offset < position[rows'[i].topic]
           /\ \A t \in Topics, o \in Offset : Landed(t, o) => Landed(t, o)'
           /\ rows' = rows \/ \A t \in Topics, o \in Offset : InBatch(t, o) => Landed(t, o)'
<1>1. CASE rows' = rows
  BY <1>1 DEF IInv, RowsBehindBatch, OrderedPerSession, OnlyUncommittedRepeated, Landed
<1>2. CASE conn = "open" /\ rows' = rows \o batch
  <2>1. rows \in Seq(Reading) /\ batch \in Seq(Reading)
    BY DEF IInv, TypeOK
  <2>2. /\ \A i \in DOMAIN rows' :
               \/ i \in DOMAIN rows /\ rows'[i] = rows[i]
               \/ \E k \in DOMAIN batch : rows'[i] = batch[k]
        /\ \A i \in DOMAIN rows : i \in DOMAIN rows' /\ rows'[i] = rows[i]
        /\ \A k \in DOMAIN batch : \E i \in DOMAIN rows' : rows'[i] = batch[k]
    BY <1>2, <2>1, ConcatElements
  <2>3. OrderedPerSession'
    <3> SUFFICES ASSUME NEW i \in DOMAIN rows', NEW j \in DOMAIN rows', i < j
                 PROVE  /\ rows'[i].session <= rows'[j].session
                        /\ (rows'[i].session = rows'[j].session /\ rows'[i].topic = rows'[j].topic)
                               => rows'[i].offset < rows'[j].offset
      BY DEF OrderedPerSession
    <3>1. \/ /\ i \in DOMAIN rows /\ rows'[i] = rows[i]
             /\ j \in DOMAIN rows /\ rows'[j] = rows[j]
          \/ /\ i \in DOMAIN rows /\ rows'[i] = rows[i]
             /\ \E k \in DOMAIN batch : rows'[j] = batch[k]
          \/ \E k, l \in DOMAIN batch :
                 k < l /\ rows'[i] = batch[k] /\ rows'[j] = batch[l]
      BY <1>2, <2>1, ConcatPairs
    <3>2. CASE /\ i \in DOMAIN rows /\ rows'[i] = rows[i]
               /\ j \in DOMAIN rows /\ rows'[j] = rows[j]
      BY <3>2 DEF IInv, OrderedPerSession
    <3>3. CASE /\ i \in DOMAIN rows /\ rows'[i] = rows[i]
               /\ \E k \in DOMAIN batch : rows'[j] = batch[k]
      BY <1>2, <3>3 DEF IInv, RowsBehindBatch, BatchInOrder
    <3>4. CASE \E k, l \in DOMAIN batch :
                   k < l /\ rows'[i] = batch[k] /\ rows'[j] = batch[l]
      BY <3>4 DEF IInv, BatchInOrder
    <3>5. QED
      BY <3>1, <3>2, <3>3, <3>4
  <2>4. \A i \in DOMAIN rows' : rows'[i].session <= session
    BY <2>2 DEF IInv, RowsBehindBatch, BatchInOrder, TypeOK
  <2>5. \A i \in DOMAIN rows' :
            rows'[i].session = session =>
                /\ rows'[i].offset >= resumed[rows'[i].topic]
                /\ rows'[i].offset < position[rows'[i].topic]
    <3>1. \A i \in DOMAIN rows :
              rows[i].session = session =>
                  /\ rows[i].offset >= resumed[rows[i].topic]
                  /\ rows[i].offset < position[rows[i].topic]
      BY DEF IInv, OnlyUncommittedRepeated
    <3>2. \A k \in DOMAIN batch :
              batch[k].session = session =>
                  /\ batch[k].offset >= resumed[batch[k].topic]
                  /\ batch[k].offset < position[batch[k].topic]
      BY BatchTyping DEF BatchInOrder, IInv, TypeOK, Offset
    <3>3. QED
      BY <2>2, <3>1, <3>2
  <2>6. \A t \in Topics, o \in Offset : Landed(t, o) => Landed(t, o)'
    BY <2>2 DEF Landed
  <2>7. \A t \in Topics, o \in Offset : InBatch(t, o) => Landed(t, o)'
    BY <2>2 DEF Landed, InBatch
  <2>8. QED
    BY <2>3, <2>4, <2>5, <2>6, <2>7
<1>3. QED
  BY <1>1, <1>2

\* Steps of the process that touch neither data nor offsets.
LEMMA QuietStep ==
    ASSUME IInv, TypeOK',
           UNCHANGED <<kafka, rows, session, position, resumed, batch, excused>>,
           pc' = pc \/ (pc \in Loop /\ pc' \in Loop),
           pc' = "poll" => pc = "poll",
           pc' = "close" => pc = "close" \/ batch = <<>>,
           conn' = conn \/ (conn = "open" /\ conn' = "broken")
    PROVE  IInv'
<1> USE DEF kafka, IInv
<1>1. OffsetsInStep'
  BY DEF OffsetsInStep, Loop, FlushPoints
<1>2. BatchInOrder'
  BY DEF BatchInOrder, Loop, FlushPoints
<1>3. RowsBehindBatch'
  BY DEF RowsBehindBatch, Loop, FlushPoints
<1>4. OrderedPerSession'
  BY DEF OrderedPerSession
<1>5. OnlyUncommittedRepeated'
  BY DEF OnlyUncommittedRepeated, Loop, FlushPoints
<1>6. NoUnexplainedLoss'
  BY DEF NoUnexplainedLoss, Settled, Landed, InBatch
<1>7. TakenSettled'
  BY DEF TakenSettled, Settled, Landed, InBatch, Loop, FlushPoints
<1>8. BatchBoundedWhileConnected' /\ RoomToPoll'
  BY DEF BatchBoundedWhileConnected, RoomToPoll
<1>9. QED
  BY <1>1, <1>2, <1>3, <1>4, <1>5, <1>6, <1>7, <1>8

\* The end of the process, with whatever its last flush and its last commit
\* did, accounts for the batch.
LEMMA EndingStep ==
    ASSUME IInv, TypeOK', pc \in Alive,
           pc' \in {"down", "stopped"}, MemoryGone, UNCHANGED published,
           rows' = rows \/ (pc \in Loop /\ conn = "open" /\ rows' = rows \o batch),
           committed' = committed \/ (pc \in Loop /\ committed' = position),
           excused \subseteq excused', Buffered \subseteq excused'
    PROVE  IInv'
<1> USE DEF IInv
<1>1. /\ OrderedPerSession'
      /\ \A i \in DOMAIN rows' : rows'[i].session <= session
      /\ \A t \in Topics, o \in Offset : Landed(t, o) => Landed(t, o)'
  BY RowsGrow DEF OrderedPerSession, RowsBehindBatch, Landed
<1>2. \A t \in Topics, o \in Offset : InBatch(t, o) => <<t, o>> \in Buffered
  BY DEF InBatch, Buffered
<1>3. \A t \in Topics, o \in Offset : Settled(t, o) => Settled(t, o)'
  BY <1>1, <1>2 DEF Settled
<1>4. NoUnexplainedLoss'
  BY <1>3 DEF NoUnexplainedLoss, TakenSettled
<1>5. \A t \in Topics : committed'[t] <= published'[t]
  BY DEF OffsetsInStep
<1>6. /\ pc' \notin Loop /\ pc' \notin {"boot", "connect"}
      /\ conn' = "none" /\ batch' = <<>> /\ session' = session
  BY DEF MemoryGone, Loop, FlushPoints
<1>7. OffsetsInStep'
  BY <1>5, <1>6 DEF OffsetsInStep
<1>8. DOMAIN batch' = {}
  BY <1>6
<1>9. BatchInOrder'
  BY <1>6, <1>8 DEF BatchInOrder
<1>10. RowsBehindBatch'
  BY <1>1, <1>6 DEF RowsBehindBatch
<1>11. QED
  BY <1>1, <1>4, <1>6, <1>7, <1>9, <1>10
     DEF OnlyUncommittedRepeated, TakenSettled, BatchBoundedWhileConnected, RoomToPoll

LEMMA PublishStep ==
    ASSUME IInv, TypeOK', NEW t \in Topics, Publish(t)
    PROVE  IInv'
<1> USE DEF IInv, Publish, process
<1>1. /\ UNCHANGED <<committed, rows, process, excused>>
      /\ \A u \in Topics : published[u] <= published'[u]
  BY OneMore, CountersTyping
<1>2. OffsetsInStep'
  <2>1. \A u \in Topics : /\ committed[u] \in Int /\ position[u] \in Int
                          /\ published[u] \in Int /\ published'[u] \in Int
    BY DEF TypeOK, Offset
  <2>2. QED
    BY <1>1, <2>1 DEF OffsetsInStep
<1>3. BatchInOrder' /\ RowsBehindBatch' /\ OrderedPerSession' /\ OnlyUncommittedRepeated'
  <2>1. \A i \in DOMAIN batch :
            batch[i].offset < published[batch[i].topic]
                => batch[i].offset < published'[batch[i].topic]
    <3>1. \A i \in DOMAIN batch : batch[i].topic \in Topics /\ batch[i].offset \in Int
      BY BatchTyping DEF Offset
    <3>2. \A u \in Topics : published[u] \in Int /\ published'[u] \in Int
      BY DEF TypeOK, Offset
    <3>3. QED
      BY <1>1, <3>1, <3>2
  <2>2. QED
    BY <1>1, <2>1 DEF BatchInOrder, RowsBehindBatch, OrderedPerSession, OnlyUncommittedRepeated
<1>4. NoUnexplainedLoss' /\ TakenSettled'
  BY <1>1 DEF NoUnexplainedLoss, TakenSettled, Settled, Landed, InBatch
<1>5. BatchBoundedWhileConnected' /\ RoomToPoll'
  BY <1>1 DEF BatchBoundedWhileConnected, RoomToPoll
<1>6. QED
  BY <1>2, <1>3, <1>4, <1>5

LEMMA AutoCommitStep ==
    ASSUME IInv, TypeOK', AutoCommit
    PROVE  IInv'
<1> USE DEF IInv, AutoCommit, process
<1>1. OffsetsInStep'
  BY DEF OffsetsInStep, TypeOK, Offset
<1>2. BatchInOrder' /\ RowsBehindBatch' /\ OrderedPerSession' /\ OnlyUncommittedRepeated'
  BY DEF BatchInOrder, RowsBehindBatch, OrderedPerSession, OnlyUncommittedRepeated
<1>3. NoUnexplainedLoss' /\ TakenSettled'
  BY DEF NoUnexplainedLoss, TakenSettled, Settled, Landed, InBatch
<1>4. BatchBoundedWhileConnected' /\ RoomToPoll'
  BY DEF BatchBoundedWhileConnected, RoomToPoll
<1>5. QED
  BY <1>1, <1>2, <1>3, <1>4

\* A new membership has no row and nothing in the batch yet; what the process
\* took before stays accounted for, as position does not move ahead.
LEMMA RejoinStep ==
    ASSUME IInv, TypeOK', Rejoin
    PROVE  IInv'
<1> USE DEF IInv, Rejoin, kafka, Loop, FlushPoints
<1>1. /\ \A i \in DOMAIN rows : rows[i].session < session' /\ rows[i].session <= session'
      /\ \A i \in DOMAIN batch : batch[i].session < session' /\ batch[i].session <= session'
  BY RowsTyping, BatchTyping DEF RowsBehindBatch, BatchInOrder, TypeOK
<1>2. \A t \in Topics : /\ committed[t] \in Int /\ committed[t] <= position[t]
                        /\ committed[t] <= published[t]
  BY DEF OffsetsInStep, TypeOK, Offset
<1>3. OffsetsInStep'
  BY <1>2 DEF OffsetsInStep
<1>4. BatchInOrder'
  BY <1>1, BatchTyping DEF BatchInOrder, TypeOK
<1>5. RowsBehindBatch'
  BY <1>1 DEF RowsBehindBatch
<1>6. OrderedPerSession' /\ OnlyUncommittedRepeated'
  BY <1>1, RowsTyping DEF OrderedPerSession, OnlyUncommittedRepeated, TypeOK
<1>7. NoUnexplainedLoss' /\ TakenSettled'
  BY DEF NoUnexplainedLoss, TakenSettled, Settled, Landed, InBatch
<1>8. BatchBoundedWhileConnected' /\ RoomToPoll'
  BY DEF BatchBoundedWhileConnected, RoomToPoll
<1>9. QED
  BY <1>3, <1>4, <1>5, <1>6, <1>7, <1>8

\* A process that starts has no row of its membership yet, and no batch.
LEMMA StartStep ==
    ASSUME IInv, TypeOK', Start
    PROVE  IInv'
<1> USE DEF IInv, Start, kafka, Loop, FlushPoints
<1>1. \A i \in DOMAIN rows : rows[i].session < session'
  BY RowsTyping DEF RowsBehindBatch, TypeOK
<1>2. batch' = <<>> /\ DOMAIN batch' = {}
  BY DEF BatchInOrder
<1>3. OffsetsInStep'
  BY DEF OffsetsInStep
<1>4. BatchInOrder'
  BY <1>2 DEF BatchInOrder
<1>5. RowsBehindBatch'
  BY <1>1, <1>2, RowsTyping DEF RowsBehindBatch, TypeOK
<1>6. OrderedPerSession' /\ OnlyUncommittedRepeated'
  BY DEF OrderedPerSession, OnlyUncommittedRepeated
<1>7. NoUnexplainedLoss' /\ TakenSettled'
  BY DEF NoUnexplainedLoss, TakenSettled, Settled, Landed, InBatch
<1>8. BatchBoundedWhileConnected' /\ RoomToPoll'
  BY <1>2 DEF BatchBoundedWhileConnected, RoomToPoll
<1>9. QED
  BY <1>3, <1>4, <1>5, <1>6, <1>7, <1>8

\* The process resumes from the committed offsets: everything below is settled.
LEMMA SubscribeStep ==
    ASSUME IInv, TypeOK', Subscribe, Created # {}
    PROVE  IInv'
<1> USE DEF IInv, Subscribe, kafka, Loop, FlushPoints
<1>1. batch' = <<>> /\ DOMAIN batch' = {} /\ DOMAIN batch = {}
  BY DEF BatchInOrder
<1>2. \A t \in Topics : /\ resumed'[t] = committed'[t]
                        /\ committed'[t] = position'[t]
                        /\ committed'[t] <= published'[t]
                        /\ committed'[t] \in Int
  <2>1. committed' = committed /\ position' = committed /\ resumed' = committed
        /\ published' = published
    OBVIOUS
  <2>2. \A t \in Topics : committed[t] \in Int /\ committed[t] <= published[t]
    BY DEF OffsetsInStep, TypeOK, Offset
  <2>3. QED
    BY <2>1, <2>2
<1>3. OffsetsInStep'
  BY <1>2 DEF OffsetsInStep
<1>4. BatchInOrder'
  BY <1>1 DEF BatchInOrder
<1>5. RowsBehindBatch'
  BY <1>1 DEF RowsBehindBatch
<1>6. OrderedPerSession' /\ OnlyUncommittedRepeated'
  BY DEF OrderedPerSession, OnlyUncommittedRepeated
<1>7. NoUnexplainedLoss' /\ TakenSettled'
  BY DEF NoUnexplainedLoss, TakenSettled, Settled, Landed, InBatch
<1>8. BatchBoundedWhileConnected' /\ RoomToPoll'
  BY <1>1 DEF BatchBoundedWhileConnected, RoomToPoll
<1>9. QED
  BY <1>3, <1>4, <1>5, <1>6, <1>7, <1>8

\* The loop is entered with an empty batch and no row of this
\* membership.
LEMMA ConnectStep ==
    ASSUME IInv, TypeOK', ConnectPg
    PROVE  IInv'
<1> USE DEF IInv, ConnectPg, kafka, Loop, FlushPoints, AfterIteration
<1>1. batch' = <<>> /\ DOMAIN batch' = {} /\ Len(batch') = 0
  BY DEF BatchInOrder
<1>2. OffsetsInStep'
  BY DEF OffsetsInStep
<1>3. BatchInOrder'
  BY <1>1 DEF BatchInOrder
<1>4. RowsBehindBatch'
  BY <1>1 DEF RowsBehindBatch
<1>5. OrderedPerSession'
  BY DEF OrderedPerSession
<1>6. OnlyUncommittedRepeated'
  BY RowsTyping DEF OnlyUncommittedRepeated, RowsBehindBatch, TypeOK
<1>7. NoUnexplainedLoss' /\ TakenSettled'
  BY DEF NoUnexplainedLoss, TakenSettled, Settled, Landed, InBatch
<1>8. BatchBoundedWhileConnected' /\ RoomToPoll'
  BY <1>1 DEF BatchBoundedWhileConnected, RoomToPoll
<1>9. QED
  BY <1>2, <1>3, <1>4, <1>5, <1>6, <1>7, <1>8

\* A reading joins the batch: its offset is above every row and every
\* batched reading of its topic and membership, and position moves past it.
LEMMA DeliverReadingStep ==
    ASSUME IInv, TypeOK', NEW t \in Topics, DeliverReading(t)
    PROVE  IInv'
<1> DEFINE e == [topic |-> t, offset |-> position[t], session |-> session]
<1> USE DEF IInv, kafka, Loop, FlushPoints, AfterIteration
<1>1. /\ pc = "poll" /\ pc' \in {"poll", "drain", "busyFlush"}
      /\ position[t] < published[t]
      /\ position' = [position EXCEPT ![t] = position[t] + 1]
      /\ batch' = Append(batch, e)
      /\ pc' = "poll" => Len(batch') < BatchSize
      /\ UNCHANGED <<published, committed, rows, session, resumed, conn, excused>>
  BY DEF DeliverReading, Take, TypeOK
<1>2. e \in Reading /\ e.topic = t /\ e.offset = position[t] /\ e.session = session
  BY DEF TypeOK, Reading
<1> HIDE DEF e
<1>3. /\ Len(batch) \in Nat
      /\ Len(batch') = Len(batch) + 1
      /\ DOMAIN batch' = DOMAIN batch \cup {Len(batch) + 1}
      /\ \A i \in DOMAIN batch : batch'[i] = batch[i] /\ i < Len(batch) + 1
      /\ batch'[Len(batch) + 1] = e
  BY <1>1, <1>2, AppendIndex, LenProperties DEF TypeOK
<1>4. \A u \in Topics : /\ position[u] \in Nat /\ position[u] <= position'[u]
                        /\ u # t => position'[u] = position[u]
                        /\ u = t => position'[u] = position[u] + 1
  BY <1>1, OneMore, CountersTyping
<1>5. OffsetsInStep'
  BY SMTT(30), <1>1, <1>4 DEF OffsetsInStep, TypeOK, Offset
<1>6. BatchInOrder'
  <2>1. \A i \in DOMAIN batch :
            /\ batch[i].session <= session
            /\ batch[i].offset < published[batch[i].topic]
            /\ batch[i].session = session =>
                   /\ resumed[batch[i].topic] <= batch[i].offset
                   /\ batch[i].offset < position[batch[i].topic]
    BY DEF BatchInOrder
  <2>2. /\ e.session = session /\ e.offset < published[t]
        /\ resumed[t] <= e.offset /\ e.offset < position'[t]
    BY SMTT(30), <1>1, <1>2, <1>4 DEF OffsetsInStep, TypeOK, Offset
  <2>3. \A i \in DOMAIN batch :
            batch[i].session = session => batch[i].offset < position'[batch[i].topic]
    BY <1>4, <2>1, BatchTyping DEF Offset
  <2>4. \A i \in DOMAIN batch' :
            /\ batch'[i].session <= session
            /\ batch'[i].offset < published[batch'[i].topic]
            /\ batch'[i].session = session =>
                   /\ resumed[batch'[i].topic] <= batch'[i].offset
                   /\ batch'[i].offset < position'[batch'[i].topic]
    <3>1. session <= session
      BY DEF TypeOK
    <3>2. QED
      BY <1>2, <1>3, <2>1, <2>2, <2>3, <3>1
  <2>5. ASSUME NEW i \in DOMAIN batch', NEW j \in DOMAIN batch', i < j
        PROVE  /\ batch'[i].session <= batch'[j].session
               /\ (batch'[i].session = batch'[j].session /\ batch'[i].topic = batch'[j].topic)
                      => batch'[i].offset < batch'[j].offset
    <3>1. i \in DOMAIN batch
      BY <1>3, <2>5, LenProperties DEF TypeOK
    <3>2. CASE j \in DOMAIN batch
      BY <1>3, <2>5, <3>1, <3>2 DEF BatchInOrder
    <3>3. CASE j = Len(batch) + 1
      BY <1>2, <1>3, <2>1, <2>5, <3>1, <3>3
    <3>4. QED
      BY <1>3, <3>2, <3>3
  <2>6. QED
    BY <1>1, <2>4, <2>5 DEF BatchInOrder
<1>7. RowsBehindBatch'
  <2>1. \A i \in DOMAIN rows : rows[i].session <= e.session
    BY <1>2 DEF RowsBehindBatch
  <2>2. \A i \in DOMAIN rows :
            (rows[i].session = e.session /\ rows[i].topic = t) => rows[i].offset < e.offset
    BY <1>1, <1>2 DEF OnlyUncommittedRepeated
  <2>3. QED
    BY <1>1, <1>2, <1>3, <2>1, <2>2 DEF RowsBehindBatch
<1>8. OrderedPerSession'
  BY <1>1 DEF OrderedPerSession
<1>9. OnlyUncommittedRepeated'
  BY <1>1, <1>4, RowsTyping DEF OnlyUncommittedRepeated, Offset
<1>10. \A u \in Topics, o \in Offset : Settled(u, o) => Settled(u, o)'
  BY <1>1, <1>3 DEF Settled, Landed, InBatch
<1>11. \A o \in Offset : o = position[t] => InBatch(t, o)'
  BY <1>2, <1>3 DEF InBatch
<1>12. NoUnexplainedLoss'
  BY <1>1, <1>10 DEF NoUnexplainedLoss
<1>13. TakenSettled'
  <2> SUFFICES ASSUME NEW u \in Topics, NEW o \in Offset, o < position'[u]
               PROVE  Settled(u, o)'
    BY DEF TakenSettled
  <2>1. o < position[u] \/ (u = t /\ o = position[t])
    BY <1>4 DEF Offset
  <2>2. QED
    BY <1>1, <1>10, <1>11, <2>1 DEF TakenSettled, Settled
<1>14. BatchBoundedWhileConnected' /\ RoomToPoll'
  BY <1>1, <1>3 DEF BatchBoundedWhileConnected, RoomToPoll
<1>15. QED
  BY <1>5, <1>6, <1>7, <1>8, <1>9, <1>12, <1>13, <1>14

\* A message that is passed over is excused, and position moves past it.
LEMMA DeliverSkippedStep ==
    ASSUME IInv, TypeOK', NEW t \in Topics, DeliverSkipped(t)
    PROVE  IInv'
<1> USE DEF IInv, kafka, Loop, FlushPoints, AfterIteration
<1>1. /\ pc = "poll" /\ pc' \in {"poll", "drain"}
      /\ position[t] < published[t]
      /\ position' = [position EXCEPT ![t] = position[t] + 1]
      /\ excused' = excused \cup {<<t, position[t]>>}
      /\ UNCHANGED <<published, committed, rows, session, resumed, batch, conn>>
  BY DEF DeliverSkipped, Take
<1>2. \A u \in Topics : /\ position[u] \in Nat /\ position[u] <= position'[u]
                        /\ u # t => position'[u] = position[u]
                        /\ u = t => position'[u] = position[u] + 1
  BY <1>1, OneMore, CountersTyping
<1>3. OffsetsInStep'
  BY <1>1, <1>2 DEF OffsetsInStep, TypeOK, Offset
<1>4. BatchInOrder'
  BY <1>1, <1>2, BatchTyping DEF BatchInOrder, Offset
<1>5. RowsBehindBatch' /\ OrderedPerSession'
  BY <1>1 DEF RowsBehindBatch, OrderedPerSession
<1>6. OnlyUncommittedRepeated'
  BY <1>1, <1>2, RowsTyping DEF OnlyUncommittedRepeated, Offset
<1>7. \A u \in Topics, o \in Offset : Settled(u, o) => Settled(u, o)'
  BY <1>1 DEF Settled, Landed, InBatch
<1>8. NoUnexplainedLoss'
  BY <1>1, <1>7 DEF NoUnexplainedLoss
<1>9. TakenSettled'
  <2> SUFFICES ASSUME NEW u \in Topics, NEW o \in Offset, o < position'[u]
               PROVE  Settled(u, o)'
    BY DEF TakenSettled
  <2>1. o < position[u] \/ (u = t /\ o = position[t])
    BY <1>2 DEF Offset
  <2>2. QED
    BY <1>1, <1>7, <2>1 DEF TakenSettled, Settled
<1>10. BatchBoundedWhileConnected' /\ RoomToPoll'
  BY <1>1 DEF BatchBoundedWhileConnected, RoomToPoll
<1>11. QED
  BY <1>3, <1>4, <1>5, <1>6, <1>8, <1>9, <1>10

\* flush() has emptied the batch, into raw.telemetry or into the log.
LEMMA FlushedStep ==
    ASSUME IInv, TypeOK', FlushCommits \/ FlushRejected
    PROVE  IInv'
<1> USE DEF IInv
<1>1. /\ pc \in Loop /\ pc' \in Loop
      /\ conn = "open" /\ batch' = <<>>
      /\ UNCHANGED <<published, committed, session, position, resumed, conn>>
      /\ excused \subseteq excused'
      /\ \/ rows' = rows \o batch
         \/ rows' = rows /\ Buffered \subseteq excused'
  BY DEF FlushCommits, FlushRejected, Flushing, kafka, Loop, FlushPoints,
         AfterFlush, AfterIteration
<1>2. DOMAIN batch' = {} /\ Len(batch') = 0
  BY <1>1
<1>3. /\ OrderedPerSession'
      /\ \A i \in DOMAIN rows' : rows'[i].session <= session
      /\ \A i \in DOMAIN rows' :
             rows'[i].session = session =>
                 /\ rows'[i].offset >= resumed[rows'[i].topic]
                 /\ rows'[i].offset < position[rows'[i].topic]
      /\ \A t \in Topics, o \in Offset : Landed(t, o) => Landed(t, o)'
      /\ rows' = rows \/ \A t \in Topics, o \in Offset : InBatch(t, o) => Landed(t, o)'
  BY <1>1, RowsGrow
<1>4. \A t \in Topics, o \in Offset : InBatch(t, o) => <<t, o>> \in Buffered
  BY DEF InBatch, Buffered
<1>5. \A t \in Topics, o \in Offset : InBatch(t, o) => Settled(t, o)'
  <2>1. CASE rows' = rows /\ Buffered \subseteq excused'
    BY <1>4, <2>1 DEF Settled
  <2>2. CASE rows' = rows \o batch
    <3>1. CASE rows' = rows
      <4>1. DOMAIN batch = {}
        <5>1. /\ rows \in Seq(Reading) /\ batch \in Seq(Reading)
          BY DEF TypeOK
        <5>2. Len(rows \o batch) = Len(rows) + Len(batch)
          BY <5>1, ConcatProperties
        <5>3. Len(rows) \in Nat /\ Len(batch) \in Nat /\ DOMAIN batch = 1 .. Len(batch)
          BY <5>1, LenProperties
        <5>4. Len(batch) = 0
          BY <2>2, <3>1, <5>2, <5>3
        <5>5. QED
          BY <5>3, <5>4
      <4>2. QED
        BY <4>1 DEF InBatch
    <3>2. CASE rows' # rows
      BY <1>3, <3>2 DEF Settled
    <3>3. QED
      BY <3>1, <3>2
  <2>3. QED
    BY <1>1, <2>1, <2>2
<1>6. \A t \in Topics, o \in Offset : Settled(t, o) => Settled(t, o)'
  BY <1>1, <1>3, <1>5 DEF Settled
<1>7. pc \in {"connect"} \cup Loop /\ pc' \notin {"boot", "connect"}
  BY <1>1 DEF Loop, FlushPoints
<1>8. OffsetsInStep'
  BY <1>1, <1>7 DEF OffsetsInStep
<1>9. BatchInOrder'
  BY <1>1, <1>2 DEF BatchInOrder
<1>10. RowsBehindBatch'
  BY <1>1, <1>2, <1>3, <1>7 DEF RowsBehindBatch
<1>11. OnlyUncommittedRepeated'
  BY <1>1, <1>3 DEF OnlyUncommittedRepeated
<1>12. NoUnexplainedLoss'
  BY <1>1, <1>6 DEF NoUnexplainedLoss
<1>13. TakenSettled'
  BY <1>1, <1>6, <1>7 DEF TakenSettled
<1>14. BatchBoundedWhileConnected' /\ RoomToPoll'
  BY <1>2 DEF BatchBoundedWhileConnected, RoomToPoll
<1>15. QED
  BY <1>3, <1>8, <1>9, <1>10, <1>11, <1>12, <1>13, <1>14

\* flush() raised inside the try block.  The commit may have reached the
\* server, so that the batch is in raw.telemetry and in memory; it is harmless
\* there because this process never writes on its connection again.
LEMMA FlushCaughtStep ==
    ASSUME IInv, TypeOK', FlushCaught
    PROVE  IInv'
<1> USE DEF IInv
<1>1. /\ pc \in Loop /\ pc' \in {"poll", "drain"} /\ pc' \in Loop
      /\ conn' = "broken"
      /\ UNCHANGED <<published, committed, session, position, resumed, batch, excused>>
      /\ rows' = rows \/ (conn = "open" /\ rows' = rows \o batch)
  BY DEF FlushCaught, FlushRaises, kafka, Loop, FlushPoints, AfterIteration
<1>2. /\ OrderedPerSession'
      /\ \A i \in DOMAIN rows' : rows'[i].session <= session
      /\ \A i \in DOMAIN rows' :
             rows'[i].session = session =>
                 /\ rows'[i].offset >= resumed[rows'[i].topic]
                 /\ rows'[i].offset < position[rows'[i].topic]
      /\ \A t \in Topics, o \in Offset : Landed(t, o) => Landed(t, o)'
  BY <1>1, RowsGrow
<1>3. \A t \in Topics, o \in Offset : Settled(t, o) => Settled(t, o)'
  BY <1>1, <1>2 DEF Settled, InBatch
<1>4. OffsetsInStep'
  BY <1>1 DEF OffsetsInStep
<1>5. BatchInOrder'
  BY <1>1 DEF BatchInOrder, Loop, FlushPoints
<1>6. RowsBehindBatch'
  BY <1>1, <1>2 DEF RowsBehindBatch
<1>7. OnlyUncommittedRepeated'
  BY <1>1, <1>2 DEF OnlyUncommittedRepeated
<1>8. NoUnexplainedLoss' /\ TakenSettled'
  BY <1>1, <1>3 DEF NoUnexplainedLoss, TakenSettled
<1>9. BatchBoundedWhileConnected' /\ RoomToPoll'
  BY <1>1 DEF BatchBoundedWhileConnected, RoomToPoll
<1>10. QED
  BY <1>2, <1>4, <1>5, <1>6, <1>7, <1>8, <1>9

-------------------------------------------------------------------------------
LEMMA InitInvariant == Init => IInv
<1> SUFFICES ASSUME Init PROVE IInv
  OBVIOUS
<1>1. TypeOK
  BY InitTyping
<1>2. DOMAIN rows = {} /\ DOMAIN batch = {}
  BY DEF Init
<1>3. \A t \in Topics : committed[t] = 0 /\ published[t] = 0
  BY DEF Init, Origin
<1>4. OffsetsInStep /\ NoUnexplainedLoss
  BY <1>3 DEF Init, OffsetsInStep, NoUnexplainedLoss, Offset, Loop, FlushPoints
<1>5. BatchInOrder /\ RowsBehindBatch /\ OrderedPerSession /\ OnlyUncommittedRepeated
  BY <1>2 DEF Init, BatchInOrder, RowsBehindBatch, OrderedPerSession, OnlyUncommittedRepeated
<1>6. TakenSettled /\ BatchBoundedWhileConnected /\ RoomToPoll
  BY DEF Init, TakenSettled, BatchBoundedWhileConnected, RoomToPoll, Loop, FlushPoints
<1>7. QED
  BY <1>1, <1>4, <1>5, <1>6 DEF IInv

LEMMA InvariantInductive ==
    ASSUME IInv, [Next]_vars
    PROVE  IInv'
<1> USE DEF Loop, FlushPoints, Alive
<1>0. TypeOK'
  BY TypingInductive DEF IInv
<1>1. ASSUME NEW t \in Topics, Publish(t) PROVE IInv'
  BY <1>0, <1>1, PublishStep
<1>2. ASSUME NEW t \in Topics, DeliverReading(t) PROVE IInv'
  BY <1>0, <1>2, DeliverReadingStep
<1>3. ASSUME NEW t \in Topics, DeliverSkipped(t) PROVE IInv'
  BY <1>0, <1>3, DeliverSkippedStep
<1>4. CASE Start
  BY <1>0, <1>4, StartStep
<1>5. CASE Sigterm
  BY <1>0, <1>5, QuietStep DEF Sigterm
<1>6. CASE Kill
  BY <1>0, <1>6, EndingStep DEF Kill, kafka
<1>7. CASE ConnectionLost
  BY <1>0, <1>7, QuietStep DEF ConnectionLost
<1>8. CASE AutoCommit \/ Rejoin
  BY <1>0, <1>8, AutoCommitStep, RejoinStep
<1>9. CASE Subscribe
  <2>1. CASE Created = {}
    <3>1. Buffered = {}
      BY <1>9 DEF Subscribe, IInv, BatchInOrder, Buffered
    <3>2. QED
      BY <1>0, <1>9, <2>1, <3>1, EndingStep DEF Subscribe, kafka
  <2>2. CASE Created # {}
    BY <1>0, <1>9, <2>2, SubscribeStep
  <2>3. QED BY <2>1, <2>2
<1>10. CASE ConnectPg
  BY <1>0, <1>10, ConnectStep
<1>11. CASE Timer
  BY <1>0, <1>11, QuietStep DEF Timer
<1>12. CASE PollError
  BY <1>0, <1>12, QuietStep DEF PollError, AfterIteration
<1>13. CASE PollIdle
  BY <1>0, <1>13, QuietStep DEF PollIdle, AfterIteration
<1>14. CASE FlushCommits
  BY <1>0, <1>14, FlushedStep
<1>15. CASE FlushRejected
  BY <1>0, <1>15, FlushedStep
<1>16. CASE FlushCaught
  BY <1>0, <1>16, FlushCaughtStep
<1>17. CASE FlushFatal
  BY <1>0, <1>17, EndingStep DEF FlushFatal, FlushRaises
<1>18. CASE DrainEmpty
  BY <1>0, <1>18, QuietStep DEF DrainEmpty
<1>19. CASE Close
  <2>1. Buffered = {}
    BY <1>19 DEF Close, IInv, BatchInOrder, Buffered
  <2>2. QED
    BY <1>0, <1>19, <2>1, EndingStep DEF Close
<1>20. CASE UNCHANGED vars
  BY <1>0, <1>20, QuietStep DEF vars, process
<1>21. QED
  BY <1>1, <1>2, <1>3, <1>4, <1>5, <1>6, <1>7, <1>8, <1>9, <1>10, <1>11,
     <1>12, <1>13, <1>14, <1>15, <1>16, <1>17, <1>18, <1>19, <1>20 DEF Next

LEMMA InductiveInvariant == Spec => []IInv
<1>1. Init => IInv
  BY InitInvariant
<1>2. IInv /\ [Next]_vars => IInv'
  BY InvariantInductive
<1>3. QED
  BY <1>1, <1>2, PTL DEF Spec

\* No offset is committed past a message that is neither in raw.telemetry,
\* nor in the batch, nor lost to a named fault.
THEOREM CommittedIsSettled == Spec => []NoUnexplainedLoss
BY InductiveInvariant, PTL DEF IInv

\* Rows follow the memberships of the group, and one membership lands a topic
\* in the order of its log and no message twice, even though a failed flush does
\* not know whether its commit got through, and although a batch may hold
\* readings of a membership that was lost.
THEOREM SessionsLandInOrder == Spec => []OrderedPerSession
BY InductiveInvariant, PTL DEF IInv

\* A message that was committed before a membership began is not landed again
\* in it, neither after a restart nor after the group was joined again.
THEOREM RepeatsAreUncommitted == Spec => []OnlyUncommittedRepeated
BY InductiveInvariant, PTL DEF IInv

\* BATCH_SIZE bounds the batch until a connection is lost.
THEOREM BatchIsBounded == Spec => []BatchBoundedWhileConnected
BY InductiveInvariant, PTL DEF IInv

\* The group's offsets never move back, over any number of restarts.
THEOREM CommitsAreMonotonic == Spec => CommitsNeverGoBack
<1>1. ASSUME IInv, [Next]_vars, NEW t \in Topics
      PROVE  committed'[t] >= committed[t]
  <2>1. committed[t] \in Nat /\ position[t] \in Nat
    BY <1>1 DEF IInv, TypeOK, Offset
  <2>2. CASE committed' = committed
    BY <2>1, <2>2
  <2>3. CASE pc \in Loop /\ committed' = position
    BY <1>1, <2>1, <2>3 DEF IInv, OffsetsInStep
  <2>4. committed' = committed \/ (pc \in Loop /\ committed' = position)
    <3> USE DEF kafka, Loop, FlushPoints
    <3>1. CASE \E u \in Topics : Publish(u) \/ DeliverReading(u) \/ DeliverSkipped(u)
      BY <3>1 DEF Publish, DeliverReading, DeliverSkipped
    <3>2. CASE Start \/ Sigterm \/ Kill \/ ConnectionLost \/ AutoCommit \/ Rejoin
               \/ Subscribe \/ ConnectPg
      BY <3>2 DEF Start, Sigterm, Kill, ConnectionLost, AutoCommit, Rejoin, Subscribe, ConnectPg
    <3>3. CASE Timer \/ PollError \/ PollIdle \/ DrainEmpty \/ Close
      BY <3>3 DEF Timer, PollError, PollIdle, DrainEmpty, Close
    <3>4. CASE FlushCommits \/ FlushRejected \/ FlushCaught \/ FlushFatal
      BY <3>4 DEF FlushCommits, FlushRejected, FlushCaught, FlushFatal
    <3>5. CASE UNCHANGED vars
      BY <3>5 DEF vars
    <3>6. QED
      BY <1>1, <3>1, <3>2, <3>3, <3>4, <3>5 DEF Next
  <2>5. QED
    BY <2>2, <2>3, <2>4
<1>2. IInv /\ [Next]_vars => [\A t \in Topics : committed'[t] >= committed[t]]_vars
  BY <1>1
<1>3. QED
  BY <1>2, InductiveInvariant, PTL DEF Spec, CommitsNeverGoBack

USE BatchAssumption DEF BatchAssumption

-------------------------------------------------------------------------------
(* RawLanding.                                                             *)

\* A commit of a batch is a step of the landing log.
LEMMA CommitLands ==
    ASSUME IInv, TypeOK', pc \in Loop, conn = "open", batch # <<>>,
           rows' = rows \o batch, UNCHANGED <<published, session>>
    PROVE  Landing!Land
<1> USE DEF IInv
<1>1. /\ rows \in Seq(Reading) /\ batch \in Seq(Reading) /\ rows' \in Seq(Landing!Reading)
      /\ DOMAIN rows = 1 .. Len(rows) /\ Len(rows) \in Nat
      /\ Len(batch) \in Nat
  <2>1. Landing!Reading = Reading
    BY DEF Landing!Reading, Reading, Offset
  <2>2. QED
    BY <2>1, LenProperties DEF TypeOK
<1>2. Len(rows) < Len(rows')
  <2>1. Len(rows') = Len(rows) + Len(batch)
    BY <1>1, ConcatProperties
  <2>2. Len(batch) # 0
    BY <1>1, EmptySeq
  <2>3. QED
    BY <1>1, <2>1, <2>2
<1>3. /\ \A i \in DOMAIN rows' :
             \/ i \in DOMAIN rows /\ rows'[i] = rows[i]
             \/ \E k \in DOMAIN batch : rows'[i] = batch[k]
      /\ \A i \in DOMAIN rows : i \in DOMAIN rows' /\ rows'[i] = rows[i]
  BY <1>1, ConcatElements
<1>4. \A k \in DOMAIN batch : /\ batch[k].session <= session
                              /\ batch[k].offset < published[batch[k].topic]
  BY DEF BatchInOrder
<1>5. \A i \in DOMAIN rows' :
          i > Len(rows) => /\ rows'[i].session <= session
                           /\ rows'[i].offset < published[rows'[i].topic]
  BY <1>1, <1>3, <1>4
<1>6. Landing!Appended(rows, rows')
  BY <1>1, <1>2, <1>3, <1>5 DEF Landing!Appended
<1>7. Landing!InOrder(rows')
  BY RowsGrow DEF OrderedPerSession, Landing!InOrder
<1>8. QED
  BY <1>6, <1>7 DEF Landing!Land

LEMMA LandingStep ==
    ASSUME IInv, [Next]_vars
    PROVE  [Landing!Next]_(Landing!vars)
<1> USE DEF kafka, process, Loop, FlushPoints, Landing!vars
<1>0. TypeOK'
  BY TypingInductive DEF IInv
<1>1. ASSUME NEW t \in Topics, Publish(t) PROVE Landing!Next
  <2>1. Landing!Publish(t)
    BY <1>1 DEF Publish, Landing!Publish
  <2>2. QED
    BY <2>1 DEF Landing!Next
<1>2. ASSUME NEW t \in Topics, DeliverReading(t) \/ DeliverSkipped(t)
      PROVE  UNCHANGED Landing!vars
  BY <1>2 DEF DeliverReading, DeliverSkipped
<1>3. CASE Start \/ Rejoin
  BY <1>3 DEF Start, Rejoin, Landing!NewSession, Landing!Next
<1>4. CASE Sigterm \/ Kill \/ ConnectionLost \/ AutoCommit \/ Subscribe \/ ConnectPg
  BY <1>4 DEF Sigterm, Kill, ConnectionLost, AutoCommit, Subscribe, ConnectPg, MemoryGone
<1>5. CASE Timer \/ PollError \/ PollIdle \/ DrainEmpty \/ Close \/ FlushRejected
  BY <1>5 DEF Timer, PollError, PollIdle, DrainEmpty, Close, FlushRejected, MemoryGone
<1>6. CASE FlushCommits \/ FlushCaught \/ FlushFatal
  <2>1. /\ pc \in Loop /\ batch # <<>> /\ UNCHANGED <<published, session>>
        /\ rows' = rows \/ (conn = "open" /\ rows' = rows \o batch)
    BY <1>6 DEF FlushCommits, FlushCaught, FlushFatal, FlushRaises, Flushing, MemoryGone
  <2>2. CASE rows' = rows
    BY <2>1, <2>2
  <2>3. CASE conn = "open" /\ rows' = rows \o batch
    BY <1>0, <2>1, <2>3, CommitLands DEF Landing!Next
  <2>4. QED
    BY <2>1, <2>2, <2>3
<1>7. CASE UNCHANGED vars
  BY <1>7 DEF vars
<1>8. QED
  BY <1>1, <1>2, <1>3, <1>4, <1>5, <1>6, <1>7 DEF Next

\* raw.telemetry is append-only, holds nothing but messages of its topics,
\* and each membership adds to it in topic order and without repeating itself.
THEOREM ConsumerImplementsLanding == Spec => ImplementsLanding
<1>1. Init => Landing!Init
  BY DEF Init, Landing!Init, Origin
<1>2. IInv /\ [Next]_vars => [Landing!Next]_(Landing!vars)
  BY LandingStep
<1>3. QED
  BY <1>1, <1>2, InductiveInvariant, PTL DEF Spec, ImplementsLanding, Landing!Spec

-------------------------------------------------------------------------------
(* ConsumerLoop.                                                           *)

\* The abstract fill of the batch counts readings up to BatchSize.
LEMMA FillFacts ==
    ASSUME TypeOK
    PROVE  /\ Fill \in Nat
           /\ Fill = 0 <=> batch = <<>>
           /\ Fill > 0 <=> batch # <<>>
<1>1. Len(batch) \in Nat /\ (Len(batch) = 0 <=> batch = <<>>)
  BY EmptySeq, LenProperties DEF TypeOK
<1>2. QED
  BY <1>1 DEF Fill

LEMMA FillGrows ==
    ASSUME TypeOK, NEW t \in Topics, DeliverReading(t)
    PROVE  /\ Fill' = IF Fill < BatchSize THEN Fill + 1 ELSE BatchSize
           /\ Len(batch') >= BatchSize <=> Fill' = BatchSize
<1>1. [topic |-> t, offset |-> position[t], session |-> session] \in Reading
  BY DEF TypeOK, Reading
<1>2. Len(batch) \in Nat /\ Len(batch') = Len(batch) + 1
  BY <1>1, AppendIndex, LenProperties DEF TypeOK, DeliverReading
<1>3. QED
  BY <1>2 DEF Fill

LEMMA EndingControl ==
    ASSUME MemoryGone, NEW where, pc' = where
    PROVE  Control!End(where)
<1>1. Len(batch') = 0
  BY DEF MemoryGone
<1>2. Fill' = 0
  BY <1>1 DEF Fill
<1>3. QED
  BY <1>2 DEF MemoryGone, Control!End

LEMMA ControlStep ==
    ASSUME IInv, [Next]_vars
    PROVE  [Control!Next]_(Control!vars)
<1> USE DEF Loop, FlushPoints, Alive, AfterIteration, AfterFlush,
            Control!Loop, Control!FlushPoints, Control!Alive,
            Control!AfterIteration, Control!AfterFlush, Control!vars
<1>0. TypeOK
  BY DEF IInv
<1>1. ASSUME NEW t \in Topics, Publish(t) PROVE UNCHANGED Control!vars
  BY <1>1 DEF Publish, process, Fill
<1>2. ASSUME NEW t \in Topics, DeliverReading(t) PROVE Control!Next
  <2>1. Control!PollReading
    BY <1>0, <1>2, FillGrows DEF DeliverReading, Take, Control!PollReading
  <2>2. QED
    BY <2>1 DEF Control!Next, Control!Poll
<1>3. ASSUME NEW t \in Topics, DeliverSkipped(t) PROVE Control!Next
  <2>1. Control!PollSkipped
    BY <1>3 DEF DeliverSkipped, Take, Fill, Control!PollSkipped
  <2>2. QED
    BY <2>1 DEF Control!Next, Control!Poll
<1>4. CASE Start
  <2>1. Control!Restart \/ Control!Resume
    BY <1>4 DEF Start, Fill, Control!Restart, Control!Resume
  <2>2. QED
    BY <2>1 DEF Control!Next
<1>5. CASE Sigterm
  BY <1>5 DEF Sigterm, Fill, Control!Sigterm, Control!Next
<1>6. CASE Kill
  <2>1. Control!Kill
    BY <1>6, EndingControl DEF Kill, Control!Kill
  <2>2. QED
    BY <2>1 DEF Control!Next
<1>7. CASE ConnectionLost
  BY <1>7 DEF ConnectionLost, Fill, Control!ConnectionLost, Control!Next
<1>8. CASE AutoCommit \/ Rejoin
  BY <1>8 DEF AutoCommit, Rejoin, kafka, process, Fill
<1>9. CASE Subscribe
  <2>1. Control!Subscribe
    BY <1>9, EndingControl DEF Subscribe, Fill, Control!Subscribe
  <2>2. QED
    BY <2>1 DEF Control!Next
<1>10. CASE ConnectPg
  BY <1>10 DEF ConnectPg, Fill, Control!ConnectPg, Control!Next
<1>11. CASE Timer
  BY <1>11 DEF Timer, Fill, Control!Timer, Control!Next
<1>12. CASE PollError
  BY <1>12 DEF PollError, Fill, Control!PollSkipped, Control!Poll, Control!Next
<1>13. CASE PollIdle
  <2>1. Fill' = Fill
    BY <1>13 DEF PollIdle, Fill
  <2>2. Control!PollIdle
    BY <1>0, <1>13, <2>1, FillFacts DEF PollIdle, Control!PollIdle
  <2>3. QED
    BY <2>2 DEF Control!Next, Control!Poll
<1>14. CASE FlushCommits \/ FlushRejected
  <2>1. Len(batch') = 0
    BY <1>14 DEF FlushCommits, FlushRejected
  <2>2. Fill' = 0 /\ Fill > 0
    BY <1>0, <1>14, <2>1, FillFacts DEF FlushCommits, FlushRejected, Flushing, Fill
  <2>3. Control!FlushReturns
    BY <1>14, <2>2 DEF FlushCommits, FlushRejected, Flushing, Control!FlushReturns
  <2>4. QED
    BY <2>3 DEF Control!Next, Control!Flush
<1>15. CASE FlushCaught
  <2>1. Control!FlushCaught
    BY <1>15 DEF FlushCaught, Fill, Control!FlushCaught
  <2>2. QED
    BY <2>1 DEF Control!Next, Control!Flush
<1>16. CASE FlushFatal
  <2>1. Fill > 0
    BY <1>0, <1>16, FillFacts DEF FlushFatal, FlushRaises, Flushing
  <2>2. Control!FlushFatal
    BY <1>16, <2>1, EndingControl DEF FlushFatal, Control!FlushFatal
  <2>3. QED
    BY <2>2 DEF Control!Next, Control!Flush
<1>17. CASE DrainEmpty
  <2>1. Control!DrainEmpty
    BY <1>0, <1>17, FillFacts DEF DrainEmpty, Fill, Control!DrainEmpty
  <2>2. QED
    BY <2>1 DEF Control!Next
<1>18. CASE Close
  <2>1. Control!Close
    BY <1>18, EndingControl DEF Close, Control!Close
  <2>2. QED
    BY <2>1 DEF Control!Next
<1>19. CASE UNCHANGED vars
  BY <1>19 DEF vars, process, Fill
<1>20. QED
  BY <1>1, <1>2, <1>3, <1>4, <1>5, <1>6, <1>7, <1>8, <1>9, <1>10, <1>11,
     <1>12, <1>13, <1>14, <1>15, <1>16, <1>17, <1>18, <1>19 DEF Next

\* main() takes no step that ConsumerLoop does not allow: what is shown there
\* about stopping, flushing and reconnecting is about this program.
THEOREM ConsumerImplementsControl == Spec => ImplementsControl
<1>1. Init => Control!Init
  <2>1. Init => Len(batch) = 0
    BY DEF Init
  <2>2. QED
    BY <2>1 DEF Init, Fill, Control!Init
<1>2. IInv /\ [Next]_vars => [Control!Next]_(Control!vars)
  BY ControlStep
<1>3. QED
  BY <1>1, <1>2, InductiveInvariant, PTL DEF Spec, ImplementsControl, Control!Spec
===============================================================================
