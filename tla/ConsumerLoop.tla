----------------------------- MODULE ConsumerLoop -----------------------------
(***************************************************************************)
(* The control of flink/jobs/telemetry_consumer.py under traffic that      *)
(* never ends: where main() is, how full the batch is, the flush timer and *)
(* the database connection.  What the messages are is left out, so that    *)
(* the state space is finite without any bound on what the plant sends and *)
(* on how often the process is started.  TelemetryConsumer implements it.  *)
(***************************************************************************)
EXTENDS Naturals

CONSTANT BatchSize  \* BATCH_SIZE: readings buffered before a flush

ASSUME BatchAssumption == BatchSize \in Nat \ {0}

VARIABLES
    pc,        \* where main() is
    running,   \* _running, cleared by the signal handler
    buffered,  \* length of the batch; BatchSize also stands for a longer one
    due,       \* FLUSH_INTERVAL has passed since last_flush
    conn       \* the psycopg2 connection

vars == <<pc, running, buffered, due, conn>>

FlushPoints == {"busyFlush", "idleFlush", "drain"}
Loop        == {"poll", "close"} \cup FlushPoints
Alive       == {"boot", "connect"} \cup Loop

\* Variant: the loop never tests _running.
LoopsForEver == "poll"

AfterIteration == IF running THEN "poll" ELSE "drain"
AfterFlush     == IF pc = "drain" THEN "close" ELSE AfterIteration

\* The process ends, cleanly or not, and its memory with it.
End(where) ==
    /\ pc' = where
    /\ running' = TRUE
    /\ buffered' = 0
    /\ due' = FALSE
    /\ conn' = "none"

Init ==
    /\ pc = "down"
    /\ running = TRUE
    /\ buffered = 0
    /\ due = FALSE
    /\ conn = "none"

-------------------------------------------------------------------------------
\* The container runtime restarts a crash; an operator starts what stopped.
Restart == pc = "down" /\ pc' = "boot" /\ UNCHANGED <<running, buffered, due, conn>>
Resume  == pc = "stopped" /\ pc' = "boot" /\ UNCHANGED <<running, buffered, due, conn>>

Sigterm == /\ pc \in Alive
           /\ running
           /\ running' = FALSE
           /\ UNCHANGED <<pc, buffered, due, conn>>

Kill == pc \in Alive /\ End("down")

ConnectionLost == /\ conn = "open"
                  /\ conn' = "broken"
                  /\ UNCHANGED <<pc, running, buffered, due>>

\* list_topics() and subscribe(): an exception, or no topic, ends main().
Subscribe ==
    /\ pc = "boot"
    /\ \/ pc' = "connect" /\ UNCHANGED <<running, buffered, due, conn>>
       \/ End("down")

ConnectPg ==
    /\ pc = "connect"
    /\ pc' = AfterIteration
    /\ conn' = "open"
    /\ UNCHANGED <<running, buffered, due>>

Timer ==
    /\ pc = "poll"
    /\ ~due
    /\ due' = TRUE
    /\ UNCHANGED <<pc, running, buffered, conn>>

-------------------------------------------------------------------------------
\* poll() returns a reading: it joins the batch, and a full or overdue batch
\* is flushed at once.  The code compares the length with BATCH_SIZE only, so
\* how far a batch has outgrown it makes no difference.
PollReading ==
    /\ pc = "poll"
    /\ buffered' = IF buffered < BatchSize THEN buffered + 1 ELSE BatchSize
    /\ pc' = IF buffered' = BatchSize \/ due THEN "busyFlush" ELSE AfterIteration
    /\ UNCHANGED <<running, due, conn>>

\* poll() returns an error event or a message that does not decode: on to
\* the next iteration, with no look at the flush timer.
PollSkipped ==
    /\ pc = "poll"
    /\ pc' = AfterIteration
    /\ UNCHANGED <<running, buffered, due, conn>>

\* poll() returns None after its timeout.
PollIdle ==
    /\ pc = "poll"
    /\ IF ~due
       THEN pc' = AfterIteration /\ UNCHANGED due
       ELSE IF buffered = 0
            THEN pc' = AfterIteration /\ due' = FALSE
            ELSE pc' = "idleFlush" /\ UNCHANGED due
    /\ UNCHANGED <<running, buffered, conn>>

\* Variant: a refused batch is kept for the next flush.
FlushReturnsKept ==
    /\ pc \in FlushPoints
    /\ buffered > 0
    /\ conn = "open"
    /\ due' = FALSE
    /\ pc' = AfterFlush
    /\ UNCHANGED <<running, buffered, conn>>

\* flush() returns: the batch was committed, or refused and rolled back.
FlushReturns ==
    /\ pc \in FlushPoints
    /\ buffered > 0
    /\ conn = "open"
    /\ buffered' = 0
    /\ due' = FALSE
    /\ pc' = AfterFlush
    /\ UNCHANGED <<running, conn>>

\* flush() raises, because rollback() does on a lost connection.  In the try
\* block the loop goes on with the batch and the connection it has.
FlushCaught ==
    /\ pc = "busyFlush"
    /\ conn' = "broken"
    /\ pc' = AfterIteration
    /\ UNCHANGED <<running, buffered, due>>

\* Variant: every flush() sits in the try block.
FlushFatalCaught ==
    /\ pc \in {"idleFlush", "drain"}
    /\ buffered > 0
    /\ conn' = "broken"
    /\ pc' = AfterFlush
    /\ UNCHANGED <<running, buffered, due>>

\* Outside of the try block the exception ends main().
FlushFatal ==
    /\ pc \in {"idleFlush", "drain"}
    /\ buffered > 0
    /\ End("down")

DrainEmpty ==
    /\ pc = "drain"
    /\ buffered = 0
    /\ pc' = "close"
    /\ UNCHANGED <<running, buffered, due, conn>>

Close == pc = "close" /\ End("stopped")

-------------------------------------------------------------------------------
Poll  == PollReading \/ PollSkipped \/ PollIdle
Flush == FlushReturns \/ FlushCaught \/ FlushFatal

Next ==
    \/ Restart \/ Resume \/ Sigterm \/ Kill \/ ConnectionLost
    \/ Subscribe \/ ConnectPg \/ Timer \/ Poll \/ Flush \/ DrainEmpty \/ Close

Spec == Init /\ [][Next]_vars

\* A live process takes its next step, a crashed one is restarted, Postgres
\* accepts connections again and the clock advances.  poll() returns, with
\* what, is up to the traffic.
Scheduling ==
    /\ WF_vars(Restart)
    /\ WF_vars(Subscribe)
    /\ WF_vars(ConnectPg)
    /\ SF_vars(Timer)
    /\ WF_vars(Poll)
    /\ WF_vars(Flush)
    /\ WF_vars(DrainEmpty)
    /\ WF_vars(Close)

\* Traffic without end: poll() hands out readings again and again.
Busy == SF_vars(PollReading)

\* Traffic that pauses now and then for longer than FLUSH_INTERVAL.
Pauses == SF_vars(PollIdle /\ due)

FairSpec == Spec /\ Scheduling
BusySpec == FairSpec /\ Busy

-------------------------------------------------------------------------------
(* Properties.                                                             *)

\* The signal handler only clears a flag, and yet the process ends, whatever
\* the traffic: from the middle of a flush, on a dead connection, and while
\* poll() keeps returning messages.
SigtermHonoured == ~running ~> pc \notin Alive

\* Under unending traffic a buffered reading leaves the buffer, unless the
\* connection is lost.
OpenConnectionFlushes ==
    Busy => (buffered > 0 ~> (buffered = 0 \/ conn = "broken"))

\* A reading that meets a lost connection brings a new one as soon as traffic
\* pauses: the idle flush lies outside of the try block, so its exception
\* ends the process and docker starts another.
PauseReconnects ==
    Pauses => ((conn = "broken" /\ buffered > 0) ~> conn # "broken")

\* "unified RAW telemetry continuously landing": what is buffered lands or is
\* given up, and makes room, while the plant keeps sending.
LandsContinuously == buffered > 0 ~> buffered = 0
===============================================================================
