---------------------------- MODULE WarehouseBuild ----------------------------
(***************************************************************************)
(* The star schema between its two writers: the hourly dbt_build DAG       *)
(* (airflow/dags/dbt_build.py over warehouse/dbt/models) and the           *)
(* six-hourly erp_api_batch DAG (airflow/dags/erp_api_batch.py), while the *)
(* CDC sink goes on writing erp_raw.                                       *)
(*                                                                         *)
(* The surrogate key of a dimension row is row_number() over (), with no   *)
(* order: its place in the order in which Postgres stores erp_raw.  A      *)
(* table is therefore the sequence of its rows in stored order, and a      *)
(* dimension the sequence of its rows by key.  fact_machine_state is left  *)
(* out: its view fails like the modelled one, and until then it is empty.  *)
(*                                                                         *)
(* Airflow runs as many tasks at a time as its executor has slots.  The    *)
(* compose file names none, and the default one has a single slot.         *)
(***************************************************************************)
EXTENDS Naturals, Sequences, SequencesExt, FiniteSets

CONSTANTS
    Machines,    \* rows of erp_raw.machines
    Orders,      \* rows of erp_raw.work_orders
    MaxUpserts,  \* bound: upserts of rows that erp_raw has already
    MaxBuilds,   \* bound: runs of dbt_build
    MaxRefreshes, \* bound: runs of erp_api_batch
    Slots        \* tasks that Airflow's executor runs at a time

ASSUME BoundsAssumption == /\ MaxUpserts \in Nat
                           /\ MaxBuilds \in Nat
                           /\ MaxRefreshes \in Nat
                           /\ Slots \in Nat \ {0}

Dims  == {"dim_machine", "dim_work_order"}
Facts == {"fact_energy_reading", "fact_production"}
View  == "stg_erp_production_runs"
Nodes == Dims \cup Facts \cup {View}

\* The rows a dimension is made of, and the dimensions a fact has keys of.
RowsOf(d) == IF d = "dim_machine" THEN Machines ELSE Orders
KeysOf(f) == IF f = "fact_energy_reading" THEN {"dim_machine"} ELSE Dims

\* Variant: a model reads a dimension that dbt does not know it depends on.
DepsTooFew(n) == IF n \in Facts THEN {"dim_machine"} ELSE {}

\* ref(): what dbt builds before a node.
Deps(n) == CASE n = "fact_production"     -> Dims \cup {View}
             [] n = "fact_energy_reading" -> {"dim_machine"}
             [] OTHER                     -> {}

VARIABLES
    raw,       \* raw[d]: the table in erp_raw that d reads, in stored order
    landed,    \* the sink has created erp_raw.production_runs
    dim,       \* dim[d]: dimension d, by key
    fact,      \* fact[f][d]: the pairs of a row of d and its key in f
    phase,     \* the task of dbt_build: "idle", "queued", "run", "test"
    serving,   \* the dbt_docs task of some run of dbt_build goes on
    node,      \* node[n]: what became of node n in the current or last dbt run
    tries,     \* attempts of the dbt_run task
    builds, refreshes, upserts,  \* how often, for the bounds
    refreshed  \* history: dim_machine was replaced since dbt built it

build == <<phase, serving, node, tries, builds>>
vars  == <<raw, landed, dim, fact, build, refreshes, upserts, refreshed>>

Retries == 2

TypeOK ==
    /\ raw \in [Dims -> Seq(Machines \cup Orders)]
    /\ dim \in [Dims -> Seq(Machines \cup Orders)]
    /\ \A d \in Dims : IsInjective(raw[d]) /\ ToSet(raw[d]) \subseteq RowsOf(d)
    /\ \A d \in Dims : IsInjective(dim[d]) /\ ToSet(dim[d]) \subseteq RowsOf(d)
    /\ landed \in BOOLEAN
    /\ fact = [f \in Facts |-> [d \in KeysOf(f) |-> fact[f][d]]]
    /\ \A f \in Facts : \A d \in KeysOf(f) : fact[f][d] \subseteq RowsOf(d) \X Nat
    /\ phase \in {"idle", "queued", "run", "test"}
    /\ serving \in BOOLEAN
    /\ node \in [Nodes -> {"todo", "done", "failed", "skipped"}]
    /\ tries \in 0 .. Retries
    /\ builds \in 0 .. MaxBuilds
    /\ refreshes \in 0 .. MaxRefreshes
    /\ upserts \in 0 .. MaxUpserts
    /\ refreshed \in BOOLEAN

Init ==
    /\ raw = [d \in Dims |-> <<>>]
    /\ landed = FALSE
    /\ dim = [d \in Dims |-> <<>>]
    /\ fact = [f \in Facts |-> [d \in KeysOf(f) |-> {}]]
    /\ phase = "idle"
    /\ serving = FALSE
    /\ node = [n \in Nodes |-> "todo"]
    /\ tries = 0
    /\ builds = 0
    /\ refreshes = 0
    /\ upserts = 0
    /\ refreshed = FALSE

-------------------------------------------------------------------------------
(* The CDC sink.                                                           *)

Arrives(d, r) ==
    /\ r \notin ToSet(raw[d])
    /\ raw' = [raw EXCEPT ![d] = Append(@, r)]
    /\ UNCHANGED <<landed, dim, fact, build, refreshes, upserts, refreshed>>

\* A status change, or an event delivered again: ON CONFLICT DO UPDATE writes
\* a new version of the row, wherever there is room for it.
Upsert(d, r) ==
    /\ upserts < MaxUpserts
    /\ \E i, place \in DOMAIN raw[d] :
           /\ raw[d][i] = r
           /\ raw' = [raw EXCEPT ![d] = InsertAt(RemoveAt(@, i), place, r)]
    /\ upserts' = upserts + 1
    /\ UNCHANGED <<landed, dim, fact, build, refreshes, refreshed>>

\* auto.create: the table appears with the first run that is posted.
Lands ==
    /\ ~landed
    /\ landed' = TRUE
    /\ UNCHANGED <<raw, dim, fact, build, refreshes, upserts, refreshed>>

-------------------------------------------------------------------------------
(* dbt_build.                                                              *)

\* A task starts when a slot is free.  dbt run takes one while it runs, the
\* docs server for good; the other tasks take theirs for a step.
Taken ==
    {t \in {"dbt_run", "dbt_docs"} : (t = "dbt_run" /\ phase = "run") \/ (t = "dbt_docs" /\ serving)}

SlotFree == Cardinality(Taken) < Slots

BuildStarts ==
    /\ phase = "idle"
    /\ builds < MaxBuilds
    /\ builds' = builds + 1
    /\ phase' = "queued"
    /\ tries' = 0
    /\ UNCHANGED <<raw, landed, dim, fact, serving, node, refreshes, upserts, refreshed>>

RunTask ==
    /\ phase = "queued"
    /\ SlotFree
    /\ phase' = "run"
    /\ node' = [n \in Nodes |-> "todo"]
    /\ UNCHANGED <<raw, landed, dim, fact, serving, tries, builds, refreshes, upserts, refreshed>>

Ready(n) == phase = "run" /\ node[n] = "todo" /\ \A m \in Deps(n) : node[m] = "done"

Becomes(n, outcome) == node' = [node EXCEPT ![n] = outcome]

\* create table as select, and a swap with the old table, in a transaction.
BuildDim(d) ==
    /\ Ready(d)
    /\ IF raw[d] = <<>>
       THEN Becomes(d, "failed") /\ UNCHANGED <<dim, refreshed>>
       ELSE /\ Becomes(d, "done")
            /\ dim' = [dim EXCEPT ![d] = raw[d]]
            /\ refreshed' = (refreshed /\ d # "dim_machine")
    /\ UNCHANGED <<raw, landed, fact, phase, serving, tries, builds, refreshes, upserts>>

\* Once the table exists the view names columns (id, total_qty, start_time,
\* ...) that the source table, and so its copy, does not have.
BuildView ==
    /\ Ready(View)
    /\ Becomes(View, IF landed THEN "failed" ELSE "done")
    /\ UNCHANGED <<raw, landed, dim, fact, phase, serving, tries, builds, refreshes, upserts, refreshed>>

\* The keys that a join with the dimensions of this moment gives.
KeyPairs(f) == [d \in KeysOf(f) |-> {<<dim[d][k], k>> : k \in DOMAIN dim[d]}]

BuildFact(f) ==
    /\ Ready(f)
    /\ Becomes(f, "done")
    /\ fact' = [fact EXCEPT ![f] = KeyPairs(f)]
    /\ UNCHANGED <<raw, landed, dim, phase, serving, tries, builds, refreshes, upserts, refreshed>>

Skip(n) ==
    /\ phase = "run"
    /\ node[n] = "todo"
    /\ \E m \in Deps(n) : node[m] \in {"failed", "skipped"}
    /\ Becomes(n, "skipped")
    /\ UNCHANGED <<raw, landed, dim, fact, phase, serving, tries, builds, refreshes, upserts, refreshed>>

RunFailed ==
    /\ phase = "run"
    /\ \A n \in Nodes : node[n] # "todo"
    /\ \E n \in Nodes : node[n] = "failed"
    /\ UNCHANGED <<raw, landed, dim, fact, serving, node, builds, refreshes, upserts, refreshed>>

\* Variant: a retry is not counted.
RunFailsAgain == RunFailed /\ phase' = "queued" /\ UNCHANGED tries

\* Variant: one attempt too many.
RunFailsOnceMore ==
    /\ RunFailed
    /\ \/ tries <= Retries /\ tries' = tries + 1 /\ phase' = "queued"
       \/ tries > Retries /\ phase' = "idle" /\ UNCHANGED tries

\* dbt run exits with 1 if any node failed: Airflow queues the task again,
\* then gives up, and dbt test does not run.
RunFails ==
    /\ RunFailed
    /\ \/ tries < Retries /\ tries' = tries + 1 /\ phase' = "queued"
       \/ tries = Retries /\ phase' = "idle" /\ UNCHANGED tries

RunSucceeds ==
    /\ phase = "run"
    /\ \A n \in Nodes : node[n] = "done"
    /\ phase' = "test"
    /\ UNCHANGED <<raw, landed, dim, fact, serving, node, tries, builds, refreshes, upserts, refreshed>>

\* dbt test reads only.  After it dbt docs serve, which does not return: it
\* keeps its slot, unless the tests or docs failed or an earlier server has
\* the port.
Test ==
    /\ phase = "test"
    /\ SlotFree
    /\ phase' = "idle"
    /\ serving' \in {serving, TRUE}
    /\ UNCHANGED <<raw, landed, dim, fact, node, tries, builds, refreshes, upserts, refreshed>>

-------------------------------------------------------------------------------
(* erp_api_batch.                                                          *)

\* Variant: the table is truncated in a transaction of its own.
RefreshTruncates ==
    /\ refreshes < MaxRefreshes
    /\ SlotFree
    /\ dim["dim_machine"] # <<>>
    /\ dim' = [dim EXCEPT !["dim_machine"] = <<>>]
    /\ refreshes' = refreshes + 1
    /\ refreshed' = TRUE
    /\ UNCHANGED <<raw, landed, fact, build, upserts>>

\* refresh_dim_machine: TRUNCATE and INSERT in one transaction.  The other
\* two tasks name columns that their tables do not have, and change nothing.
Refresh ==
    /\ refreshes < MaxRefreshes
    /\ SlotFree
    /\ dim["dim_machine"] # <<>>
    /\ dim' = [dim EXCEPT !["dim_machine"] = raw["dim_machine"]]
    /\ refreshes' = refreshes + 1
    /\ refreshed' = TRUE
    /\ UNCHANGED <<raw, landed, fact, build, upserts>>

-------------------------------------------------------------------------------
Build ==
    \/ \E d \in Dims : BuildDim(d)
    \/ BuildView
    \/ \E f \in Facts : BuildFact(f)
    \/ \E n \in Nodes : Skip(n)
    \/ RunTask \/ RunFails \/ RunSucceeds \/ Test

Sink == \/ \E d \in Dims : \E r \in RowsOf(d) : Arrives(d, r) \/ Upsert(d, r)
        \/ Lands

Next == Sink \/ BuildStarts \/ Build \/ Refresh

Spec == Init /\ [][Next]_vars

\* A DAG run that has started goes on when a slot is free; nothing else has to
\* happen.
FairSpec == Spec /\ WF_vars(Build)

-------------------------------------------------------------------------------
(* Properties.                                                             *)

Agrees(f, d) == \A pair \in fact[f][d] :
                    pair[2] \in DOMAIN dim[d] /\ dim[d][pair[2]] = pair[1]

\* The relationships tests would pass at any moment: a key in a fact is a key
\* of its dimension, although both dimensions are replaced under the facts.
KeysExist ==
    \A f \in Facts : \A d \in KeysOf(f) :
        \A pair \in fact[f][d] : pair[2] \in DOMAIN dim[d]

\* A key in a fact that leads to another row is the refresh's doing, or that
\* of a build which did not get to the fact.
MismatchExplained ==
    \A f \in Facts : \A d \in KeysOf(f) :
        \/ Agrees(f, d)
        \/ node[f] # "done"
        \/ d = "dim_machine" /\ refreshed

\* With slots for all, a run of dbt_build gets through its tests or is given
\* up, also when a table lands or a dimension is refreshed in the middle of it.
BuildsGetThrough == phase = "queued" ~> phase = "idle"

-------------------------------------------------------------------------------
(* What the documents say.                                                 *)

\* "`dbt build` then `dbt test` all pass", once erp_raw has its tables.
BuildsPass ==
    \A n \in Nodes : node[n] = "failed" => n \in Dims

\* "on a schedule aligned to telemetry cadence": a run that is due runs.
ScheduledBuildsRun == phase = "queued" ~> phase = "run"
===============================================================================
