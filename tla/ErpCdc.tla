-------------------------------- MODULE ErpCdc --------------------------------
(***************************************************************************)
(* The ERP source database behind its API (erp/api/main.py) and its copy   *)
(* in the warehouse: Debezium reads the write-ahead log into one topic per *)
(* table, a JDBC sink upserts each topic into erp_raw (erp/debezium).      *)
(*                                                                         *)
(* A row is known by its key, and what it says by its version: the place   *)
(* in the write-ahead log of the change that wrote it.  Version 0: no row. *)
(***************************************************************************)
EXTENDS Naturals, Sequences, FiniteSetsExt

CONSTANTS
    Orders,       \* work orders, by order_no
    Runs,         \* production runs
    States,       \* machine states
    Seeds,        \* the work orders that init.sql inserts
    MaxChanges,   \* bound: changes in the source database
    MaxRestarts   \* bound: restarts of the Connect tasks

ASSUME KeysAssumption  == /\ Seeds \subseteq Orders
                          /\ Orders \cap Runs = {}
                          /\ (Orders \cup Runs) \cap States = {}
ASSUME BoundAssumption == /\ MaxChanges \in Nat /\ MaxRestarts \in Nat
                          /\ IsFiniteSet(Seeds) /\ Cardinality(Seeds) <= MaxChanges

Keys   == Orders \cup Runs \cup States
Tables == {"work_orders", "production_runs", "machine_states"}

TableOf(k) == CASE k \in Orders -> "work_orders"
                [] k \in Runs   -> "production_runs"
                [] k \in States -> "machine_states"

VARIABLES
    wal,      \* the write-ahead log: the key each change wrote
    mode,     \* the Debezium task: "absent", "snapshot", "stream"
    slot,     \* the replication slot: how much of wal is confirmed
    todo,     \* rows the snapshot has still to read
    pos,      \* how much of wal the task has sent
    topic,    \* topic[t]: the change events of table t
    sink,     \* the sink task: "absent", "runs", "failed"
    got,      \* got[t]: events of t the sink has written
    stored,   \* stored[t]: the offset of the sink's consumer group
    copy,     \* copy[k]: version of row k in erp_raw
    restarts  \* how often the tasks were restarted

vars == <<wal, mode, slot, todo, pos, topic, sink, got, stored, copy, restarts>>

Version == 0 .. MaxChanges
Event   == [key : Keys, version : Version \ {0}]

\* The version of a row after the first n changes.
VersionAt(k, n) == Max({0} \cup {i \in 1 .. n : wal[i] = k})
Source == [k \in Keys |-> VersionAt(k, Len(wal))]
Exists(k) == Source[k] # 0

TypeOK ==
    /\ wal \in Seq(Keys) /\ Len(wal) <= MaxChanges
    /\ mode \in {"absent", "snapshot", "stream"}
    /\ slot \in Version
    /\ todo \subseteq Keys
    /\ pos \in Version
    /\ topic \in [Tables -> Seq(Event)]
    /\ sink \in {"absent", "runs", "failed"}
    /\ got \in [Tables -> Nat] /\ stored \in [Tables -> Nat]
    /\ \A t \in Tables : stored[t] <= got[t] /\ got[t] <= Len(topic[t])
    /\ copy \in [Keys -> Version]
    /\ restarts \in 0 .. MaxRestarts

Init ==
    /\ wal \in [1 .. Cardinality(Seeds) -> Seeds]
    /\ \A k \in Seeds : \E i \in DOMAIN wal : wal[i] = k
    /\ mode = "absent"
    /\ slot = 0
    /\ todo = {}
    /\ pos = 0
    /\ topic = [t \in Tables |-> <<>>]
    /\ sink = "absent"
    /\ got = [t \in Tables |-> 0]
    /\ stored = [t \in Tables |-> 0]
    /\ copy = [k \in Keys |-> 0]
    /\ restarts = 0

-------------------------------------------------------------------------------
(* The API: each call is one statement in a transaction of its own.        *)

Writes(k) ==
    /\ Len(wal) < MaxChanges
    /\ wal' = Append(wal, k)
    /\ UNCHANGED <<mode, slot, todo, pos, topic, sink, got, stored, copy, restarts>>

\* order_no is unique: the second insert is answered with 400.
CreateWorkOrder(o) == ~Exists(o) /\ Writes(o)

\* No such row: answered with 404.
UpdateStatus(o) == Exists(o) /\ Writes(o)

\* A run refers to a work order; the foreign key refuses any other.
PostRun(r) == ~Exists(r) /\ (\E o \in Orders : Exists(o)) /\ Writes(r)

\* A row of its own, and no change to the machine's earlier rows.
PostState(s) == ~Exists(s) /\ Writes(s)

-------------------------------------------------------------------------------
(* The Debezium task.                                                      *)

RegisterSource ==
    /\ mode = "absent"
    /\ mode' = "snapshot"
    /\ slot' = Len(wal)
    /\ todo' = {k \in Keys : Exists(k)}
    /\ UNCHANGED <<wal, pos, topic, sink, got, stored, copy, restarts>>

Send(k, version) ==
    topic' = [topic EXCEPT ![TableOf(k)] =
                 Append(@, [key |-> k, version |-> version])]

\* The snapshot reads the tables as they were when it began.
SnapshotRow(k) ==
    /\ mode = "snapshot"
    /\ k \in todo
    /\ todo' = todo \ {k}
    /\ Send(k, VersionAt(k, slot))
    /\ UNCHANGED <<wal, mode, slot, pos, sink, got, stored, copy, restarts>>

\* Variant: the stream begins with the log, not where the snapshot was taken.
SnapshotEndsAtStart ==
    /\ mode = "snapshot"
    /\ todo = {}
    /\ mode' = "stream"
    /\ pos' = 0
    /\ UNCHANGED <<wal, slot, todo, topic, sink, got, stored, copy, restarts>>

SnapshotEnds ==
    /\ mode = "snapshot"
    /\ todo = {}
    /\ mode' = "stream"
    /\ pos' = slot
    /\ UNCHANGED <<wal, slot, todo, topic, sink, got, stored, copy, restarts>>

Stream ==
    /\ mode = "stream"
    /\ pos < Len(wal)
    /\ pos' = pos + 1
    /\ Send(wal[pos + 1], pos + 1)
    /\ UNCHANGED <<wal, mode, slot, todo, sink, got, stored, copy, restarts>>

\* Variant: what is in the log is confirmed, sent or not.
ConfirmAhead ==
    /\ mode = "stream"
    /\ slot # Len(wal)
    /\ slot' = Len(wal)
    /\ UNCHANGED <<wal, mode, todo, pos, topic, sink, got, stored, copy, restarts>>

\* Connect flushes the offsets of a source task now and then.
Confirm ==
    /\ mode = "stream"
    /\ slot # pos
    /\ slot' = pos
    /\ UNCHANGED <<wal, mode, todo, pos, topic, sink, got, stored, copy, restarts>>

-------------------------------------------------------------------------------
(* The sink task.                                                          *)

RegisterSink ==
    /\ mode # "absent"
    /\ sink = "absent"
    /\ sink' = "runs"
    /\ UNCHANGED <<wal, mode, slot, todo, pos, topic, got, stored, copy, restarts>>

\* insert.mode=upsert, pk.mode=record_key
Upsert(t) ==
    /\ sink = "runs"
    /\ got[t] < Len(topic[t])
    /\ LET event == topic[t][got[t] + 1]
       IN copy' = [copy EXCEPT ![event.key] = event.version]
    /\ got' = [got EXCEPT ![t] = @ + 1]
    /\ UNCHANGED <<wal, mode, slot, todo, pos, topic, sink, stored, restarts>>

\* Variant: the offsets of events that are not written yet are stored too.
StoreAhead ==
    /\ sink = "runs"
    /\ stored' = [t \in Tables |-> Len(topic[t])]
    /\ UNCHANGED <<wal, mode, slot, todo, pos, topic, sink, got, copy, restarts>>

\* Connect commits the offsets of a sink task now and then.
Store ==
    /\ sink = "runs"
    /\ stored # got
    /\ stored' = got
    /\ UNCHANGED <<wal, mode, slot, todo, pos, topic, sink, got, copy, restarts>>

\* The warehouse cannot be reached for longer than the sink retries.
SinkFails ==
    /\ sink = "runs"
    /\ sink' = "failed"
    /\ UNCHANGED <<wal, mode, slot, todo, pos, topic, got, stored, copy, restarts>>

\* register.sh deletes and creates both connectors under their old names; a
\* restart of the Connect container has the same effect.  Each task resumes
\* at its stored offset; an unfinished snapshot is taken again.
Restart ==
    /\ mode # "absent"
    /\ restarts < MaxRestarts
    /\ restarts' = restarts + 1
    /\ sink' = "runs"
    /\ got' = stored
    /\ IF mode = "snapshot"
       THEN /\ slot' = Len(wal)
            /\ todo' = {k \in Keys : Exists(k)}
            /\ UNCHANGED pos
       ELSE /\ pos' = slot
            /\ UNCHANGED <<slot, todo>>
    /\ UNCHANGED <<wal, mode, topic, stored, copy>>

-------------------------------------------------------------------------------
Api == \/ \E o \in Orders : CreateWorkOrder(o) \/ UpdateStatus(o)
       \/ \E r \in Runs : PostRun(r)
       \/ \E s \in States : PostState(s)

Capture == (\E k \in Keys : SnapshotRow(k)) \/ SnapshotEnds \/ Stream

Next ==
    \/ Api
    \/ RegisterSource \/ Capture \/ Confirm
    \/ RegisterSink \/ (\E t \in Tables : Upsert(t)) \/ Store \/ SinkFails
    \/ Restart

Spec == Init /\ [][Next]_vars

\* Running tasks make progress.  Nobody has to call the API, register the
\* connectors or restart a failed task, and offsets may never be stored.
FairSpec == Spec /\ WF_vars(Capture) /\ \A t \in Tables : WF_vars(Upsert(t))

-------------------------------------------------------------------------------
(* Properties.                                                             *)

CaughtUp == /\ mode = "stream" /\ pos = Len(wal)
            /\ \A t \in Tables : got[t] = Len(topic[t])

\* When nothing is under way, the copy is the source, whatever was sent
\* twice, replayed after a restart, or snapshot again.
CaughtUpIsEqual == CaughtUp => copy = Source

LastIn(t, n, k) ==
    LET at == {i \in 1 .. n : topic[t][i].key = k}
    IN IF at = {} THEN 0 ELSE topic[t][Max(at)].version

\* A row of the copy is at a version its topic led up to, at the stored
\* offset or later: a restart loses nothing that was written.
CopyAtOrAfterStored ==
    \A k \in Keys :
        LET t == TableOf(k)
        IN \E n \in stored[t] .. Len(topic[t]) : copy[k] = LastIn(t, n, k)

\* Readers of erp_raw see a row go back to an earlier version only after a
\* restart.
NeverOlderWithoutRestart ==
    [][restarts' = 0 => \A k \in Keys : copy'[k] >= copy[k]]_vars

\* Once the API is quiet the copy becomes and stays equal to the source,
\* unless a connector is not registered or the sink has failed for good.
Converges == <>[](copy = Source) \/ <>[](sink # "runs")
===============================================================================
