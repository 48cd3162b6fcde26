--------------------------- MODULE TelemetryConsumer ---------------------------
(***************************************************************************)
(* The Kafka -> raw.telemetry consumer (flink/jobs/telemetry_consumer.py), *)
(* the process that the flink-processor container runs.                    *)
(*                                                                         *)
(* One process polls the telemetry topics, buffers decoded readings in     *)
(* memory and writes them to Postgres in one transaction per flush.  The   *)
(* Kafka client commits offsets on its own, in the background, whatever    *)
(* became of the messages it handed out.  The process may be killed or     *)
(* stopped, may lose its database connection or its place in the consumer  *)
(* group, and is started again.                                            *)
(*                                                                         *)
(* Auto-created topics have one partition, so a topic is one ordered log;  *)
(* a message is its topic and its offset.                                  *)
(***************************************************************************)
EXTENDS Naturals, Sequences

CONSTANTS
    Topics,       \* the topics whose name matches TOPIC_PATTERN
    BatchSize,    \* BATCH_SIZE: readings buffered before a flush
    Undecodable,  \* messages <<topic, offset>> that carry no Telemetry record
    MaxLog,       \* bound: messages published to one topic
    MaxSessions   \* bound: times the process joins the consumer group

ASSUME TopicsAssumption == Topics # {}
ASSUME BatchAssumption  == BatchSize \in Nat \ {0}
ASSUME BoundAssumption  == MaxLog \in Nat /\ MaxSessions \in Nat

VARIABLES
    \* Kafka
    published,  \* published[t]: messages in the log of t
    committed,  \* committed[t]: the offset the consumer group resumes from
    \* Postgres
    rows,       \* raw.telemetry, in the order the rows were inserted
    \* the process
    pc,         \* where main() is
    session,    \* which membership in the consumer group this is
    running,    \* _running, cleared by the signal handler
    sub,        \* the topics main() subscribed to
    position,   \* position[t]: offset of the next message poll() hands out
    resumed,    \* resumed[t]: the offset this membership started from
    batch,      \* readings buffered since the last flush
    due,        \* FLUSH_INTERVAL has passed since last_flush
    conn,       \* the psycopg2 connection
    cached,     \* the deserializer holds the writer schema
    \* history
    excused     \* messages that a named fault kept out of raw.telemetry

kafka   == <<published, committed>>
process == <<pc, session, running, sub, position, resumed, batch, due, conn, cached>>
vars    == <<kafka, rows, process, excused>>

-------------------------------------------------------------------------------
\* The flush() call is reached from three places; only the busy one sits
\* inside the try block of the loop.
FlushPoints == {"busyFlush", "idleFlush", "drain"}
Loop        == {"poll", "close"} \cup FlushPoints
Alive       == {"boot", "connect"} \cup Loop
PCs         == {"down", "stopped"} \cup Alive

Offset  == 0 .. MaxLog
Message == Topics \X Offset
Reading == [topic : Topics, offset : Offset, session : 0 .. MaxSessions]
Origin  == [t \in Topics |-> 0]

TypeOK ==
    /\ published \in [Topics -> Offset]
    /\ committed \in [Topics -> Offset]
    /\ rows \in Seq(Reading)
    /\ pc \in PCs
    /\ session \in 0 .. MaxSessions
    /\ running \in BOOLEAN
    /\ sub \in SUBSET Topics
    /\ position \in [Topics -> Offset]
    /\ resumed \in [Topics -> Offset]
    /\ batch \in Seq(Reading)
    /\ due \in BOOLEAN
    /\ conn \in {"none", "open", "broken"}
    /\ cached \in BOOLEAN
    /\ excused \in SUBSET Message

\* Topics exist once a gateway produced to them (the broker auto-creates).
Created == {t \in Topics : published[t] > 0}

\* The loop tests _running after every iteration; past the loop comes the
\* final flush().
AfterIteration == IF running THEN "poll" ELSE "drain"
AfterFlush     == IF pc = "drain" THEN "close" ELSE AfterIteration

Buffered == {<<batch[i].topic, batch[i].offset>> : i \in DOMAIN batch}

\* What a dying process leaves behind: nothing of its memory.
MemoryGone ==
    /\ running' = TRUE
    /\ sub' = {}
    /\ position' = Origin
    /\ resumed' = Origin
    /\ batch' = <<>>
    /\ due' = FALSE
    /\ conn' = "none"
    /\ cached' = FALSE
    /\ UNCHANGED session

Init ==
    /\ published = Origin
    /\ committed = Origin
    /\ rows = <<>>
    /\ pc = "down"
    /\ session = 0
    /\ running = TRUE
    /\ sub = {}
    /\ position = Origin
    /\ resumed = Origin
    /\ batch = <<>>
    /\ due = FALSE
    /\ conn = "none"
    /\ cached = FALSE
    /\ excused = {}

-------------------------------------------------------------------------------
(* Around the process: the gateways, the container runtime, the network.   *)

Publish(t) ==
    /\ published[t] < MaxLog
    /\ published' = [published EXCEPT ![t] = @ + 1]
    /\ UNCHANGED <<committed, rows, process, excused>>

\* docker's on-failure policy restarts a crashed container; an operator
\* brings up a stopped one.  Each start joins the group anew.
Start ==
    /\ pc \in {"down", "stopped"}
    /\ session < MaxSessions
    /\ pc' = "boot"
    /\ session' = session + 1
    /\ UNCHANGED <<kafka, rows, running, sub, position, resumed, batch, due,
                   conn, cached, excused>>

Sigterm ==
    /\ pc \in Alive
    /\ running
    /\ running' = FALSE
    /\ UNCHANGED <<kafka, rows, pc, session, sub, position, resumed, batch, due,
                   conn, cached, excused>>

Kill ==
    /\ pc \in Alive
    /\ pc' = "down"
    /\ MemoryGone
    /\ excused' = excused \cup Buffered
    /\ UNCHANGED <<kafka, rows>>

\* Postgres restarts, or the connection is reset under the process.
ConnectionLost ==
    /\ conn = "open"
    /\ conn' = "broken"
    /\ UNCHANGED <<kafka, rows, pc, session, running, sub, position, resumed,
                   batch, due, cached, excused>>

\* Variant: commits the offset after the one it has reached.
AutoCommitAhead ==
    /\ pc \in Loop
    /\ committed' = [t \in Topics |-> IF position[t] < published[t]
                                      THEN position[t] + 1 ELSE position[t]]
    /\ UNCHANGED <<published, rows, process, excused>>

\* enable.auto.commit: the client thread commits what poll() handed out.
AutoCommit ==
    /\ pc \in Loop
    /\ committed' = position
    /\ UNCHANGED <<published, rows, process, excused>>

\* The process pauses, or is cut off from the broker, for longer than its
\* session lasts.  The group drops it and refuses its commits; the client joins
\* again on its own and goes back to the committed offsets.  main() sees an
\* error event at most, and keeps its batch.
Rejoin ==
    /\ pc \in Loop
    /\ session < MaxSessions
    /\ session' = session + 1
    /\ position' = committed
    /\ resumed' = committed
    /\ UNCHANGED <<kafka, rows, pc, running, sub, batch, due, conn, cached,
                   excused>>

-------------------------------------------------------------------------------
(* main(), up to the loop.                                                 *)

\* Variant: every start reads the topics from the beginning.
SubscribeFromStart ==
    /\ pc = "boot"
    /\ Created # {}
    /\ pc' = "connect"
    /\ sub' = Created
    /\ position' = Origin
    /\ resumed' = committed
    /\ UNCHANGED <<kafka, rows, session, running, batch, due, conn, cached, excused>>

\* The topics are listed once.  subscribe() refuses an empty list, and the
\* exception ends the process.
Subscribe ==
    /\ pc = "boot"
    /\ IF Created = {}
       THEN /\ pc' = "down"
            /\ MemoryGone
       ELSE /\ pc' = "connect"
            /\ sub' = Created
            /\ position' = committed
            /\ resumed' = committed
            /\ UNCHANGED <<session, running, batch, due, conn, cached>>
    /\ UNCHANGED <<kafka, rows, excused>>

\* _connect_pg() retries until it succeeds and never looks at _running.
ConnectPg ==
    /\ pc = "connect"
    /\ conn' = "open"
    /\ pc' = AfterIteration
    /\ UNCHANGED <<kafka, rows, session, running, sub, position, resumed, batch,
                   due, cached, excused>>

-------------------------------------------------------------------------------
(* The loop.                                                               *)

Timer ==
    /\ pc = "poll"
    /\ ~due
    /\ due' = TRUE
    /\ UNCHANGED <<kafka, rows, pc, session, running, sub, position, resumed,
                   batch, conn, cached, excused>>

\* Variant: no look at the end of the log.
TakeAnything(t) ==
    /\ pc = "poll"
    /\ t \in sub
    /\ position' = [position EXCEPT ![t] = @ + 1]

\* poll() hands out the next message of t.
Take(t) ==
    /\ pc = "poll"
    /\ t \in sub
    /\ position[t] < published[t]
    /\ position' = [position EXCEPT ![t] = @ + 1]

\* Variant: flushes when the batch has outgrown its size.
DeliverReadingLate(t) ==
    /\ Take(t)
    /\ <<t, position[t]>> \notin Undecodable
    /\ cached' = TRUE
    /\ batch' = Append(batch, [topic |-> t, offset |-> position[t], session |-> session])
    /\ pc' = IF Len(batch') > BatchSize \/ due
             THEN "busyFlush" ELSE AfterIteration
    /\ UNCHANGED <<kafka, rows, session, running, sub, resumed, due, conn, excused>>

\* The message decodes and joins the batch; a full or overdue batch is
\* flushed at once.
DeliverReading(t) ==
    /\ Take(t)
    /\ <<t, position[t]>> \notin Undecodable
    /\ cached' = TRUE
    /\ batch' = Append(batch, [topic |-> t, offset |-> position[t], session |-> session])
    /\ pc' = IF Len(batch') >= BatchSize \/ due
             THEN "busyFlush" ELSE AfterIteration
    /\ UNCHANGED <<kafka, rows, session, running, sub, resumed, due, conn, excused>>

\* The message is empty or does not decode, or the schema registry cannot be
\* asked for the writer schema: the message is logged and passed over, with
\* no look at the flush timer.
DeliverSkipped(t) ==
    /\ Take(t)
    /\ <<t, position[t]>> \in Undecodable \/ ~cached
    /\ excused' = excused \cup {<<t, position[t]>>}
    /\ pc' = AfterIteration
    /\ UNCHANGED <<kafka, rows, session, running, sub, resumed, batch, due, conn,
                   cached>>

\* poll() returns an error event: nothing but the loop test follows.
PollError ==
    /\ pc = "poll"
    /\ pc' = AfterIteration
    /\ UNCHANGED <<kafka, rows, session, running, sub, position, resumed, batch,
                   due, conn, cached, excused>>

\* Variant: an idle poll leaves the batch to the next message.
PollIdleNoFlush ==
    /\ pc = "poll"
    /\ pc' = AfterIteration
    /\ due' = FALSE
    /\ UNCHANGED <<kafka, rows, session, running, sub, position, resumed, batch,
                   conn, cached, excused>>

\* poll() comes back empty-handed after its timeout.
PollIdle ==
    /\ pc = "poll"
    /\ IF ~due
       THEN pc' = AfterIteration /\ UNCHANGED due
       ELSE IF batch = <<>>
            THEN pc' = AfterIteration /\ due' = FALSE
            ELSE pc' = "idleFlush" /\ UNCHANGED due
    /\ UNCHANGED <<kafka, rows, session, running, sub, position, resumed, batch,
                   conn, cached, excused>>

-------------------------------------------------------------------------------
(* flush(): executemany() and commit(); on an exception rollback().        *)

Flushing == pc \in FlushPoints /\ batch # <<>>

FlushCommits ==
    /\ Flushing
    /\ conn = "open"
    /\ rows' = rows \o batch
    /\ batch' = <<>>
    /\ due' = FALSE
    /\ pc' = AfterFlush
    /\ UNCHANGED <<kafka, session, running, sub, position, resumed, conn, cached,
                   excused>>

\* Variant: keeps a refused batch for the next flush.
FlushRejectedKept ==
    /\ Flushing
    /\ conn = "open"
    /\ due' = FALSE
    /\ pc' = AfterFlush
    /\ UNCHANGED <<kafka, rows, session, running, sub, position, resumed, batch,
                   conn, cached, excused>>

\* The database refuses the statement: the transaction is rolled back and
\* the batch is dropped.
FlushRejected ==
    /\ Flushing
    /\ conn = "open"
    /\ excused' = excused \cup Buffered
    /\ batch' = <<>>
    /\ due' = FALSE
    /\ pc' = AfterFlush
    /\ UNCHANGED <<kafka, rows, session, running, sub, position, resumed, conn,
                   cached>>

\* The connection is gone, so rollback() raises too and flush() is left by
\* an exception.  A commit may have reached the server before that.
FlushRaises ==
    /\ Flushing
    /\ \/ conn = "broken" /\ UNCHANGED rows
       \/ conn = "open"   /\ rows' = rows \o batch

\* Variant: the loop reconnects and tries the same batch again.
FlushCaughtReconnects ==
    /\ pc = "busyFlush"
    /\ FlushRaises
    /\ conn' = "open"
    /\ pc' = AfterIteration
    /\ UNCHANGED <<kafka, session, running, sub, position, resumed, batch, due,
                   cached, excused>>

\* In the try block: the batch and last_flush keep their values.
FlushCaught ==
    /\ pc = "busyFlush"
    /\ FlushRaises
    /\ conn' = "broken"
    /\ pc' = AfterIteration
    /\ UNCHANGED <<kafka, session, running, sub, position, resumed, batch, due,
                   cached, excused>>

\* Outside it: the exception ends main().  The Kafka client may or may not
\* get to commit while the interpreter shuts down.
FlushFatal ==
    /\ pc \in {"idleFlush", "drain"}
    /\ FlushRaises
    /\ committed' \in {committed, position}
    /\ pc' = "down"
    /\ MemoryGone
    /\ excused' = excused \cup Buffered
    /\ UNCHANGED published

-------------------------------------------------------------------------------
(* Past the loop.                                                          *)

DrainEmpty ==
    /\ pc = "drain"
    /\ batch = <<>>
    /\ pc' = "close"
    /\ UNCHANGED <<kafka, rows, session, running, sub, position, resumed, batch,
                   due, conn, cached, excused>>

\* consumer.close() commits the positions if the broker answers.
Close ==
    /\ pc = "close"
    /\ committed' \in {committed, position}
    /\ pc' = "stopped"
    /\ MemoryGone
    /\ UNCHANGED <<published, rows, excused>>

-------------------------------------------------------------------------------
Next ==
    \/ \E t \in Topics : Publish(t) \/ DeliverReading(t) \/ DeliverSkipped(t)
    \/ Start \/ Sigterm \/ Kill \/ ConnectionLost \/ AutoCommit \/ Rejoin
    \/ Subscribe \/ ConnectPg
    \/ Timer \/ PollError \/ PollIdle
    \/ FlushCommits \/ FlushRejected \/ FlushCaught \/ FlushFatal
    \/ DrainEmpty \/ Close

Spec == Init /\ [][Next]_vars

\* What the runtime guarantees: docker restarts a crashed container, a
\* running process takes its next step, the database accepts connections
\* again, the clock advances, and a topic with messages is not passed over
\* for ever.  MaxLog makes the traffic finite, so that poll() does come back
\* empty-handed in the end: the gateways have gone quiet.  ConsumerLoop is
\* about traffic that does not.
Fairness ==
    /\ WF_vars(pc = "down" /\ Start)
    /\ WF_vars(Subscribe)
    /\ WF_vars(ConnectPg)
    /\ SF_vars(Timer)
    /\ WF_vars(PollIdle)
    /\ \A t \in Topics : SF_vars(DeliverReading(t) \/ DeliverSkipped(t))
    /\ WF_vars(FlushCommits \/ FlushRejected \/ FlushCaught \/ FlushFatal)
    /\ WF_vars(DrainEmpty)
    /\ WF_vars(Close)

QuietSpec == Spec /\ Fairness

-------------------------------------------------------------------------------
(* Properties.                                                             *)

Landed(t, o) == \E i \in DOMAIN rows : rows[i].topic = t /\ rows[i].offset = o
InBatch(t, o) == \E i \in DOMAIN batch : batch[i].topic = t /\ batch[i].offset = o
Settled(t, o) == Landed(t, o) \/ InBatch(t, o) \/ <<t, o>> \in excused

\* The background commit may run ahead of the database, but never past a
\* message that is neither in raw.telemetry, nor in the batch, nor hit by one
\* of the faults that excuse its loss: an undecoded message, a refused
\* statement, or the end of the process with a batch in memory.
NoUnexplainedLoss ==
    \A t \in Topics : \A o \in Offset : o < committed[t] => Settled(t, o)

\* Rows follow the memberships of the group, and within one membership the
\* rows of a topic go in by increasing offset: a message lands twice, or behind
\* a later one, only where the client has joined the group again in between,
\* even when a commit reaches the server and its acknowledgement does not reach
\* flush(), and although a batch may hold readings of several memberships.
OrderedPerSession ==
    \A i, j \in DOMAIN rows :
        i < j => /\ rows[i].session <= rows[j].session
                 /\ (rows[i].session = rows[j].session /\ rows[i].topic = rows[j].topic)
                        => rows[i].offset < rows[j].offset

\* A membership never repeats what was committed when it began, and lands only
\* what it took from Kafka: a duplicate row needs an uncommitted offset.
OnlyUncommittedRepeated ==
    pc \in Loop =>
        \A i \in DOMAIN rows :
            rows[i].session = session =>
                /\ rows[i].offset >= resumed[rows[i].topic]
                /\ rows[i].offset < position[rows[i].topic]

\* BATCH_SIZE bounds the buffer for as long as the connection holds; once
\* flush() is left by an exception nothing does.
BatchBoundedWhileConnected == conn = "open" => Len(batch) <= BatchSize

\* The inductive invariant behind the four invariants above.

\* While the process consumes, its committed offset lies between where its
\* membership started and where it is, and that within the log.
OffsetsInStep ==
    /\ \A t \in Topics : committed[t] <= published[t]
    /\ pc \in {"connect"} \cup Loop =>
           \A t \in Topics : /\ resumed[t] <= committed[t]
                             /\ committed[t] <= position[t]
                             /\ position[t] <= published[t]

\* Only the loop has a connection, and a batch until the last flush; the
\* batch is what this process took, membership after membership and in each
\* every topic by increasing offset.
BatchInOrder ==
    /\ pc \notin Loop => conn = "none"
    /\ pc \notin Loop \ {"close"} => batch = <<>>
    /\ \A i \in DOMAIN batch :
           /\ batch[i].session <= session
           /\ batch[i].offset < published[batch[i].topic]
           /\ batch[i].session = session =>
                  /\ resumed[batch[i].topic] <= batch[i].offset
                  /\ batch[i].offset < position[batch[i].topic]
    /\ \A i, j \in DOMAIN batch :
           i < j => /\ batch[i].session <= batch[j].session
                    /\ (batch[i].session = batch[j].session /\ batch[i].topic = batch[j].topic)
                           => batch[i].offset < batch[j].offset

\* A process that has just started has no row; while the connection holds, all
\* rows are behind everything in the batch.
RowsBehindBatch ==
    /\ \A i \in DOMAIN rows : rows[i].session <= session
    /\ pc \in {"boot", "connect"} => \A i \in DOMAIN rows : rows[i].session < session
    /\ conn = "open" =>
           \A i \in DOMAIN rows : \A k \in DOMAIN batch :
               /\ rows[i].session <= batch[k].session
               /\ (rows[i].session = batch[k].session /\ rows[i].topic = batch[k].topic)
                      => rows[i].offset < batch[k].offset

\* Everything taken is settled, not only what is committed.
TakenSettled ==
    pc \in {"connect"} \cup Loop =>
        \A t \in Topics : \A o \in Offset : o < position[t] => Settled(t, o)

\* There is room in the batch whenever poll() is called.
RoomToPoll == (conn = "open" /\ pc = "poll") => Len(batch) < BatchSize

IInv ==
    /\ TypeOK
    /\ OffsetsInStep
    /\ BatchInOrder
    /\ RowsBehindBatch
    /\ OrderedPerSession
    /\ OnlyUncommittedRepeated
    /\ NoUnexplainedLoss
    /\ TakenSettled
    /\ BatchBoundedWhileConnected
    /\ RoomToPoll

\* The group's offsets only move forward, across crashes and restarts too.
CommitsNeverGoBack == [][\A t \in Topics : committed'[t] >= committed[t]]_vars

\* A message on a subscribed topic lands or is excused, unless the run ends.
SubscribedLands ==
    \A m \in Topics \X (0 .. MaxLog - 1) :
        (m[1] \in sub /\ m[2] < published[m[1]])
            ~> (Landed(m[1], m[2]) \/ m \in excused \/ pc \notin Alive)

\* main() runs through the control of ConsumerLoop, whose promises are made
\* for traffic without end.
Fill == IF Len(batch) < BatchSize THEN Len(batch) ELSE BatchSize
Control == INSTANCE ConsumerLoop WITH buffered <- Fill
ImplementsControl == Control!Spec

\* raw.telemetry is the append-only landing log that RawLanding describes.
Landing == INSTANCE RawLanding
ImplementsLanding == Landing!Spec

===============================================================================
