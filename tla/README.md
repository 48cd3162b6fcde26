# Verification of the manufacturing facility data stack

TLA+ models of the stack's telemetry and ERP paths, model-checked with TLC on
small instances and, for their safety, proved with TLAPS for every value of the
constants.  Paths below are relative to the repository.

## 1. The system

| Component | State it keeps | Operations | Talks to |
|---|---|---|---|
| Modbus simulators (`common/modbus_server.py`, `common/generators.py`) | holding registers per unit; in memory, kWh total and last time per machine | one pass over all units every REFRESH_INTERVAL, each value from the generator of its type; serve a read | gateways, over Modbus TCP |
| Equipment profiles (`simulators/shared/equipment.py`) | setpoints, weights, power envelopes per type | lookups, which nothing calls | - |
| Gateways (`common/publisher.py`) | one asyncio task per device; producer queue | poll the unit, stamp, produce keyed by device; librdkafka sends, retries, times out | simulators, Kafka |
| Device registry and codecs (`common/registry.py`, `modbus_codec.py`, `avro_io.py`) | the device list, cached by each process at its start | parse `samples/bms.csv`, number the units, calibrate, encode registers and Avro | simulators, gateways |
| Kafka topics `bms.*`, `ems.*` | an ordered log per topic, offsets of the consumer group | append, fetch, commit | gateways, consumer |
| Telemetry consumer (`flink/jobs/telemetry_consumer.py`) | batch, subscription, positions, flush timer, one database connection | poll, decode, buffer, flush, commit offsets, drain on SIGTERM | Kafka, schema registry, Postgres |
| `raw.telemetry` (`warehouse/init/01_init.sql`) | a hypertable without a key | insert | consumer, dbt, Grafana |
| ERP API and source database (`erp/api`, `erp/source_db`) | work orders, production runs, machine states | create, update status, post run, post state | Debezium |
| CDC (`erp/debezium`) | replication slot, sink offsets, `erp_raw.*` | capture, unwrap, upsert | dbt, Airflow |
| Warehouse models (`warehouse/dbt`) | staging views, dimension and fact tables | seed, run, test | raw, erp_raw |
| Airflow DAGs (`airflow/dags`) | none of their own | hourly dbt build; six-hourly refresh of three dimensions | warehouse |
| PyFlink job (`flink/jobs/telemetry_to_postgres.py`) | Flink state | the same landing by Flink SQL; not deployed | Kafka, Postgres |
| Dashboards, release scripts, schemas, seeds | none | configuration and text | - |

What is hard about it: the consumer's Kafka client commits offsets in the
background while the batch is still in memory; its single database connection
may die at any moment, also between a commit and its acknowledgement; it may lose
its group session and join again, at the committed offsets, while it lives; a signal
handler sets a flag that several loops do not read; topics may appear after the
consumer listed them; gateways retry, duplicate and time out messages;
simulators forget their energy totals when they restart; energy, timestamps and
pauses are computed from a wall clock that may be set; limits are applied to
values that were derived from each other; simulator and gateway
derive the register map on their own from a file that may change between their
starts; ERP mutations, CDC,
hourly dbt builds and six-hourly refreshes run against the same tables without
coordination, in the slots of one Airflow executor that a docs server shares.

What makes each part correct:

* consumer: no message is lost or repeated without a fault that explains it,
  rows of one membership of its group are in topic order, memory is bounded, buffered readings get
  out, SIGTERM ends the process;
* simulators and gateways: a reading's value is the unit's at a moment at or
  after its timestamp, the energy counter grows with the timestamps, one device
  sends at most one reading per interval and does not fall silent, disorder on a
  topic is a retry's;
* generators: limits touch faulty values only, what returns is warmer than what is
  supplied, a fault shows where it should, ratings are respected;
* registry: a value is published under the device and metric it was generated for;
* facts: per-machine energy deltas add up whatever was lost, repeated or reordered
  on the way from the gateway to the table;
* ERP and CDC: the copy converges to the source;
* warehouse builds: a key in a fact exists and leads to its row, or a build or
  refresh explains why not; a build that is due runs and comes to an end.

## 2. The modules

| Module | Models | Reads |
|---|---|---|
| `TelemetryConsumer` | one topic log per topic, the consumer group's offsets, `main()`, `flush()`, the signal handler, the database connection | `flink/jobs/telemetry_consumer.py` |
| `ConsumerLoop` | the control of the same program alone, finite under traffic without end | the same |
| `RawLanding` | what the rest of the stack may assume of `raw.telemetry`: append-only, in topic order within one membership of the consumer | `warehouse/init/01_init.sql` |
| `ModbusSimulator` | clocks, energy totals, the refresh pass, registers, start and crash | `common/modbus_server.py`, `common/generators.py` |
| `DeviceValues` | what a refresh pass may find for a device of a type and a set of metrics, healthy or faulty, and what staging views say of it | `common/generators.py`, staging views |
| `EdgeStream` (extends it) | the gateway's task per machine, the producer's queue and retries, the topic | `common/publisher.py` |
| `DeviceRegistry` | the device catalogue: names, unit ids, metric order, calibration | `common/registry.py` |
| `RegisterMap` (extends it) | register blocks and codec between a simulator and its gateway, each with the catalogue of its own start | `common/modbus_server.py`, `modbus_codec.py`, `publisher.py` |
| `EnergyFacts` | `delta_kwh` over the rows of a machine | `fact_energy_reading.sql` |
| `Pipeline` (extends both) | `EdgeStream`'s topic, copied into `raw.telemetry` as `RawLanding` promises, and the energy facts over the rows | `publisher.py`, `telemetry_consumer.py`, `fact_energy_reading.sql` |
| `ErpCdc` | API mutations, write-ahead log, Debezium task, topics, JDBC sink, `erp_raw` | `erp/api`, `erp/source_db`, `erp/debezium` |
| `WarehouseBuild` | `erp_raw` in stored order, dimensions and facts by surrogate key, both DAGs | `warehouse/dbt`, `airflow/dags` |
| `TelemetryConsumerProofs`, `DeviceValuesProofs`, `EdgeProofs`, `PipelineProofs`, `RegisterMapProofs`, `ErpCdcProofs`, `WarehouseProofs` | theorems and proofs (section 5) | - |
| `MC*` | constants for TLC | - |

How state and actions correspond to the code:

* **TelemetryConsumer.**  `pc` is where `main()` is: `boot` (lines 60-82),
  `connect` (84-90), `poll` (105-124), one label for each of the three places
  that call `flush()` (`busyFlush` 142, `idleFlush` 109, `drain` 150), `close`.
  `batch`, `sub`, `conn`, `running` are the variables of those names;
  `position` is the client's consumed offset, `committed` the group's.  A
  message is its topic and offset; `Undecodable` names those that are not
  Telemetry records.  What `poll()` returns is one action per outcome
  (`DeliverReading`, `DeliverSkipped`, `PollError`, `PollIdle`), and a flush ends in
  one of: committed, refused and rolled back, raised inside the loop's try block
  (`FlushCaught`), raised outside of it (`FlushFatal`).  `AutoCommit` is the
  background thread of the client and may run between any two steps.
  `excused` is history: which message was given up, and to which fault.
  `session` counts the client's memberships in its group.  A start begins one
  (`Start`), and so does `Rejoin`: the process was paused or cut off for
  longer than its session lasts, the loop goes on (112-116), and the client joins again
  at the committed offsets (`position`, `resumed`) while `batch` keeps what was taken
  before.  Each message and row carries the membership in which it was taken.
* **ModbusSimulator, EdgeStream.**  `clock` holds the ticks so far and the ticks by
  which the wall clock was set forth and back: asyncio sleeps follow the ticks,
  `time.time()` is `Wall(clock)`.  Energy is power times ticks.  A refresh pass reads
  the clock once and does not await, so it is one action.  A poll is two: the
  timestamp is taken (`PollStarts`), and at some later moment the answer arrives
  (`PollSucceeds`) or does not (`PollFails`); both end in `Sleeps`, the `max(0, ...)`
  of publisher.py:79.  A message handed to the producer is in `fresh` until it is
  first sent, then in `unacked` until acknowledged or expired; acknowledgements may
  be lost.  Which pass wrote a register, and which process, is history.
* **DeviceValues.**  One step computes the metrics of one device of `Devices` (at any load
  of the day, any noise, with or without a fault), the next stores them.  A device is its
  type and its metrics with their calibrated ranges.  `BmsValues` goes through these as
  `bms_values()` does: a metric that the type's generator returns has that value (`Keyed`),
  any other is drawn on its own in its range (`Fallback`).  A metric
  keeps its value before `_clamp()` beside its limits, so that a property can speak
  of a limit that bites.  `_n()` is taken at its middle and both ends: every formula
  is monotone in each draw, so the extremes are among them.
* **Pipeline.**  A step of the edge, the consumer joining its group (`ConsumerJoins`: a start, or a
  lost session), or a message landing under the guard of `RawLanding!Land`; `rows` and
  `session` are `RawLanding`'s.
* **DeviceRegistry, RegisterMap.**  `file` is `samples/bms.csv`, mounted into both
  containers; `sim` and `gw` are the device lists that `devices_for()` cached when
  each process started.  A value is the device, metric and refresh pass it was
  generated for; a float is two words, and decoding two words that are not the
  halves of one float gives garbage.  How pymodbus 3.6.9 stores and answers
  (slice assignment, 1 to 125 registers, range of the block) is external.  `Rank` is
  the place of a name or key in Python's `sorted()`; it is what numbers both the units
  and the metrics.
* **EnergyFacts.**  `ByTime` numbers a machine's rows by timestamp.  The window
  function leaves the order of rows with one timestamp open; the model takes them as
  they arrived, and the proof shows that the sum does not depend on it
  (`OrderedAddUp`).
* **ErpCdc.**  A row is its key, its content the place in the write-ahead log of
  the change that wrote it.  Each API handler is one autocommitted statement,
  hence one action; the two refusals (duplicate order number, unknown order)
  are guards.  Restarting the Connect container and running `register.sh` again
  resume both tasks from their stored offsets and are one action.
* **WarehouseBuild.**  `row_number() over ()` has no order, so a key is a place
  in the stored order of `erp_raw`, which an upsert changes.  dbt builds a node
  by replacing a table in one transaction, in any order that respects `ref()`;
  a failed node lets its dependants be skipped.  `refresh_dim_machine` is one
  transaction; the other two tasks of `erp_api_batch` select columns that do
  not exist, are rolled back each time, and so are no action.  Airflow's executor has
  `Slots` slots: `dbt_run` holds one while it runs, the docs server (`serving`) for
  good, and a task needs a free one to start (`RunTask`, `Test`, `Refresh`).

Composition: `TelemetryConsumer` implements `ConsumerLoop` and `RawLanding`
(refinement, checked and proved).  `EdgeStream` extends `ModbusSimulator`.
`Pipeline` puts `EdgeStream` in front of `RawLanding` (an `INSTANCE` whose logs are as
long as `EdgeStream`'s topic) and `EnergyFacts` behind it: because the consumer is
proved to implement `RawLanding`, what holds of the pipeline holds with the consumer
in that place.  `ErpCdc`
justifies what `WarehouseBuild` assumes of `erp_raw`: rows arrive, are upserted in
any stored order, and are never removed.

## 3. The runs

| Run | Question | Bounds |
|---|---|---|
| `ConsumerSafety` | type invariant; nothing committed is lost without a named fault; a membership lands a topic in order and once; only uncommitted messages repeat; the batch is bounded while the connection holds; offsets never go back; both refinements | 2 topics, 2 messages each (one undecodable), batch of 2, 2 memberships (starts or rejoins) |
| `ConsumerLiveness` | once the gateways are quiet, every message of a subscribed topic lands or is accounted for, unless the run ends | 2 topics, 1 message each, batch of 2, 2 memberships |
| `LoopTraffic` | SIGTERM ends the process; an open connection flushes under unending readings; a pause brings a new connection | batch of 6; no bound on messages, starts or the batch |
| `EdgeFaults` | the counter shows no energy that was not used and follows the timestamps; at most one reading per interval, and no silence; disorder is a retry's | 1 machine, 4 instants, interval 2, power 0 or 3, 2 messages; the first starts of both processes and one fault: another start of either, or one setting of the clock |
| `Pipeline` | energy facts add up after both layers lost, repeated and reordered | 1 machine, 4 instants, interval 2, power 3, 3 messages, 1 start of each edge process, 2 memberships of the consumer |
| `DeviceValues` | limits, loops, stalls, ratings | one device of each set of metrics in `samples/bms.csv`, one of a type without a generator, one machine of each type; loads 0, 15, 50, 100 %, draws -1, 0, 1, with and without a fault; nominal flows 394 and 468, as calibrated from the sample |
| `RegisterMaps` | values under their names when both sides have the device alike; such a device can be polled; ranges are open; a new calibration leaves the map alone | 3 devices, 3 metrics, 5 kinds of rows, 4 rows, a fleet of 4, a block of 4 registers, 2 passes |
| `ErpCopies` | the copy loses nothing, goes back only after a restart, ends equal to the source | 1 seeded and 1 new order, 1 run, 1 state, 3 changes, 2 restarts |
| `WarehouseBuilds` | keys in facts exist; a wrong key is explained; a build gets through | 2 machines, 2 orders, 1 upsert, 2 builds (3 attempts each), 1 refresh, 3 slots |
| `LoopContinuous`, `WarehousePasses`, `WarehouseSlots` | what a document says and the code does not do (section 6) | as above; `WarehouseSlots` with 1 slot |

Why the bounds are enough:

* Consumer.  Two messages per topic make the first repeat and the second
  overtake; a batch of two makes "not yet full" differ from "full"; two memberships
  are what a redelivery needs, with the batch lost (two starts) or kept (a rejoin).  The proofs remove every bound from the safety
  part.
* Loop.  `buffered` stops at `BatchSize`: the code only tests `>=`, so a batch that has
  outgrown its size behaves like a full one (`Fill` is the mapping from the batch).
* Edge.  Machines share the clock, the refresh pass and the producer queue but no
  state of theirs, and every property is about one machine: one is enough.
  Four instants hold a poll longer than the interval between two others.  The
  properties of the topic are about two messages, so two are enough there; the facts
  need three, for a disorder, a copy and a gap.  `Grid = 2` with power 3 makes
  rounding of the registers go up and down.  `FewFaults` keeps to one fault at a
  time; a restart with a clock that is set in the same behaviour is beyond it.
* Pipeline.  One simulator process and one clock, because the property is about the
  readings of one (`OneSource`); what may go wrong lies behind them.  Two memberships
  of the consumer land messages twice and behind later ones.
* Device values.  Night, noon, and two loads between: the formulas are linear in
  load, or a product of two increasing ones, so the two ends hold the extremes.  The
  devices are the ten sets of metrics of the sample, of which devices with the same
  set differ in their ranges only.
* Register map.  Three devices put one before, between and behind the others; a
  block of four registers is narrower than the widest device; rows are added
  before, between and after the starts of the two sides.
* ERP.  One key that exists at the snapshot, keys that come after it, two changes
  of one key in one topic, and a restart during and after the snapshot all occur.
* Warehouse.  Two rows suffice to swap two keys; two builds make a fact of the
  first meet dimensions of the second.

`CHECK_DEADLOCK FALSE` stands in the runs whose bounds (messages, clock, changes)
let the system stop; `LoopTraffic`, `LoopContinuous`, `RegisterMaps` and
`DeviceValues` check for deadlock.

## 4. Fairness

* `ConsumerLoop!Scheduling`, `TelemetryConsumer!Fairness`: a live process takes its
  next step; `restart: on-failure` (docker-compose.yml:20) starts it again after a
  crash; `poll(0.5)` returns; the clock advances (strong fairness, because the
  label `poll` is left and entered all the time).  Nothing makes a signal, a
  lost connection, a lost session, a kill or an operator happen, and nothing makes
  `AutoCommit`.
* `Busy` and `Pauses` are assumptions on the plant, not on the code, and appear as
  such on the left of an implication: readings never cease, or there is
  now and then a pause of FLUSH_INTERVAL.  `SigtermHonoured` needs neither.
* `QuietSpec` is the opposite end: a finite number of messages, then silence.
* `ErpCdc!FairSpec`: running tasks progress.  Nobody is obliged to call the API,
  restart a failed task or store offsets.
* `WarehouseBuild!FairSpec`: a DAG run that has started goes on whenever a slot is
  free.  It does not make a slot free: with `Slots = 1` a queued task may wait for
  ever behind the docs server, which is what `WarehouseSlots` shows.  At most one
  docs server lasts (the port is taken), so with the three slots of `WarehouseBuilds`
  no task waits for good.

## 5. What is proved

Each theorem holds for every value of the constants that its module's assumptions
admit: any number of topics, machines, rows, changes and restarts, not those of the
runs.  The general shape: an inductive invariant, checked by TLC on the run's
constants before it was proved; a lemma per action that the action keeps it; the
property of the run as a conjunct or a consequence.

| Module | Assumptions on constants | Inductive invariant | Theorems for the runs' properties |
|---|---|---|---|
| `TelemetryConsumerProofs` | at least one topic; `BatchSize` positive | `IInv` | `TypeOK`, `NoUnexplainedLoss`, `OrderedPerSession`, `OnlyUncommittedRepeated`, `BatchBoundedWhileConnected`, `CommitsNeverGoBack`, `ImplementsLanding`, `ImplementsControl` |
| `DeviceValuesProofs` | types that the code knows, ranges that are open, loads within 0 .. 100, the least and the full one among them; for `ClampsIdle` `AirFlow` at least 95 and `PlantFlow` at least 204, for `StallShows` `AirFlow` at least 95, for `LoopsHold` `RangesApart` | `ReadingComputed` | `ClampsIdle`, `LoopsHold`, `StallShows`, `PowerNearRating` |
| `EdgeProofs` | powers are numbers and one is the greatest; `Grid` and `Interval` positive | `SimInv` (of the simulator alone), `EdgeInv` | `EdgeTypeOK`, `NoEnergyInvented`, `PaceKept`, `DisorderIsRetry`, `EnergyFollowsTime`, `OnePerInterval` |
| `PipelineProofs` | - | `PipeInv` | `LandedAddsUp`; also: it implements `RawLanding` |
| `RegisterMapProofs` | `FleetAssumption`, `RowsAssumption`, `WidestAssumption`, an even block | `MapInv` | `TypeOK`, `UnderItsName`, `Answered`, `RangesOpen`, `CalibrationKeepsTheMap` |
| `ErpCdcProofs` | seeded orders are finite and within `MaxChanges` | `CdcInv` | `TypeOK`, `CaughtUpIsEqual`, `CopyAtOrAfterStored`, `NeverOlderWithoutRestart` |
| `WarehouseProofs` | - | `IInv` | `TypeOK`, `KeysExist`, `MismatchExplained` |

Bounds such as `MaxLog`, `MaxTime` or `MaxSessions` are natural numbers and nothing else.
The assumptions are what the code has: powers come from a table of fixed envelopes, the default
PUBLISH_INTERVAL is 60 seconds, `_EMS_FLEET` is a list of rows, a
row of the sample has finitely many numbers, a block has 64 registers (an even number, and a
float is two); the seeded orders are the first changes of the log that `MaxChanges` bounds.

**Consumer.**  None of the safety properties is inductive.  "What is committed is
settled" needs that what was *taken* from the client is settled (`TakenSettled`), because
the background commit may copy any position it has reached; "in order" needs that
the batch is in order itself and continues the rows (`BatchInOrder`, `RowsBehindBatch`) and that offsets
committed, positions and log ends stand in their order (`OffsetsInStep`); the
bound on the batch needs that there is room whenever `poll()` is called
(`RoomToPoll`).  A rejoin sends `position` back, so order holds per membership:
after one, the batch goes on from an earlier offset, and its older part, taken in earlier
memberships, has to land before the new.

**Refinement.**  Initial states map to initial states, and each action to a step of the
abstract module or to a stutter (fetching, committing offsets and publishing change
nothing the control sees; only a database commit changes what the landing sees).
`IInv` is used where the abstract guard needs it, for instance to know that the rows of
a flush continue those of the same membership.

**Simulator and edge.**  A register shows the total of the last pass, rounded, and a total
is bounded by what the clock counted between the start and that pass
(`TotalsOfLastPass`, `Possible`); every setting of the clock enters both sides.  Every
edge step is a simulator step or leaves it alone (`EdgeSimulates`).  For the topic,
"timestamps and energies agree" is not inductive over the log: the log's next message comes
from the producer.  So `EdgeInv` says it of all messages wherever they are
(`Messages`: fresh, unacknowledged, in the log): each was in the registers of its
machine at a time up to now (`Known`), any two agree (`Agree`), and a task that reads or
sleeps stands behind all of them (`ReadsInTurn`, `SleepsInTurn`).  Disorder needs that a
message not yet tried is behind all that were (`FreshIsLatest`).

**Device values.**  A reading is what its generator computes (`ReadingComputed`), so each
property is arithmetic over one formula per type: bounds for each value from the bounds
of load and draws, then `_clamp()` (`Clamped`, `Max` and `Min` of two numbers).  The
formulas of the flows are not linear (a nominal flow times a load, divided with
rounding); their bounds are proved as multiples of the nominal flow (`AirFlows`,
`CompressorsShow`).  Two theorems have a condition on the calibrated flows: the lower
limits of 50 l/s (AHU) and 30 l/s (compressors) are fixed in the code while the values scale
with the sample, so below 95 and 204 l/s a healthy night meets the limit and
`ClampsIdle` is false.  The flows calibrated from the sample are 394 and 468.
A device publishes those of its generator's values that it has
metrics for, and what `Fallback` draws for the rest (`BmsPublished`, `Drawn`); a draw stays
within a tenth of its range (`FallbackShows`).  So `LoopsHold` has a condition where a loop
is not the generator's: the sample's header BG-CHILLER-HEADER calls its ends
`Chiller_Header_Supply_Temp` and `Chiller_Header_Return_Temp`, and only their calibrated
ranges, apart by more than these tenths (`RangesApart`, checked by TLC for the sample),
keep the return above the supply.

**Pipeline.**  `LandedAddsUp` is arithmetic over a sequence of any length.  The sum of the
deltas telescopes (`SumTelescopes`), so only the first and the last reading count, and `ByTime`
is a bijection between places and rows that respects the timestamps (`InTimeOrder`).  No delta
is negative by `EdgeInv`; that none is more than the machine can have used needs what
`EdgeInv` does not contain: between two readings the counter gains at most full power
(`GainInv`).  `OrderedAddUp` proves all of it for any order of the readings with one
timestamp.  `OneSource` is the property's own condition: one simulator process, one setting of
the clock, and readings of one timestamp that show one energy (two that do not, of two
gateway processes within one tick, have no order by time).

**Register map.**  Each side's list is a catalogue: distinct unit ids, sorted keys without
repetition (`Catalogue`); every block holds the encoded values of its unit's device from the
last pass (`AllHold`).  Distinct ids are what keeps one device's block from another's;
for the BMS they are ranks in a finite set, for the EMS places in the fleet.  The codec
lemmas say that decoding an encoded metric gives the metric, at its place in the
block.  `Answered` needs the widest device to fit a read of 125 registers
(`WidestAssumption`: the file has no device with more than 62 metrics; the code does not
check, and with more it could not poll).

**ERP copy.**  `CaughtUpIsEqual` rests on two tails: a key's version at the end of the log is
the last in its topic unless a later change is still to be streamed
(`NothingIsSkipped`, and `SnapshotIsTaken` before the stream takes over); a row of the
copy is the last version in its topic up to some place at or after the sink's
(`CopyAtOrAfterGot`).  Both survive every replay because a restart moves the sender's and the
sink's places back, never the log or the topic.  That the copy never goes back without a
restart needs that a topic tells a row's versions in their order (`SentInOrder`), and that
nothing is sent ahead (`SentSoFar`), which holds only until the first restart.

**Warehouse.**  `KeysExist` needs that a dimension never has fewer rows than one built
earlier (`DimsFollowRaw`: `erp_raw` only grows, an upsert moves rows), `MismatchExplained`
that a finished fact's dimensions were finished before it (`FactsAfterDims`), so that no
later node of the same build replaces them.

Where a proof needs the greatest, least or first element of something, or the values of a
recursive function (`Consumed`, `FlattenSeq`), it argues by a least counterexample, from the
well-foundedness of `<` on the naturals, because the library's induction rules cannot be
instantiated here.

One property changed while it was proved: `DisorderIsRetry` once spoke of a message
behind a later one only; the invariant that carries it also covers a copy of the same
message, and the property now says so.

Model-checked only:

every liveness property (`SubscribedLands`, `SigtermHonoured`, `OpenConnectionFlushes`,
`PauseReconnects`, `Converges`, `BuildsGetThrough`): the prover handles neither fairness
nor ENABLED here.

Every invariant and every action property that a passing run checks is proved.

## 6. Where the documents and the code part

| Run | The document | The code |
|---|---|---|
| `LoopContinuous` | "continuously landing" | a connection lost inside the loop is never replaced while readings keep coming |
| `WarehousePasses` | "`dbt build` then `dbt test` all pass" | two staging views name columns that do not exist once their tables land |
| `WarehouseSlots` | "on a schedule aligned to telemetry cadence" | the docs server of the first build that gets so far keeps the executor's only slot |

More follows from what the passing runs have to say in order to hold:

* The consumer "upserts each record": rows may repeat (`OnlyUncommittedRepeated`
  says which), and a committed record may be in no row, for the reasons that
  `NoUnexplainedLoss` lists (a batch dropped after a failed write, a message that
  does not decode or whose schema cannot be fetched, a kill).
* A message may land twice within one life of the process: after a lost group session
  the client goes back to the offsets of the last background commit (up to 5 seconds
  old), while the rows are there or the batch still holds the first copy.  Order and
  uniqueness hold within one membership only (`OrderedPerSession`).
* The docstring's "all bms.* and ems.* topics" are those that exist at the start
  (`Subscribe`).
* README.md:161 has a machine's events "stay ordered on one partition": they do but
  for retries, which `DisorderIsRetry` names, because the producer sets no
  `enable.idempotence`.
* schema.yml calls machine_key a "FK to dim_machine": after `refresh_dim_machine` a
  key may lead to another machine, with the tests green (`MismatchExplained`).
* `totalEnergy` is cumulative within one simulator process and under one clock: a
  restart makes a negative `delta_kwh` (`OneSource`), and so may a clock set back.
* The docstring of equipment.py says that the generators read its profiles; nothing
  imports it.
* `_diurnal_factor` says that it peaks "mid-afternoon (~15:00)": it peaks at 12:00 UTC.
* DEVELOPMENT.md has BMS values "within calibrated envelopes": a type's generator does
  not look at its metrics' `lo` and `hi` (the header's `CHW_DPT`, about 1.8 in the
  sample, is generated between 200 and 290 when healthy).
* plan.md:24 has all 8 metrics of a Chiller MainHeader correlated, and generators.py:153
  `CHW_PDT` as "derived delta-T across plant".  The one header of the sample that has a
  `CHW_PDT` calls its temperatures `Chiller_Header_Supply_Temp` and
  `Chiller_Header_Return_Temp`, which `Keyed` leaves to `Fallback`: they are drawn on their
  own, 0.7 to 2.6 apart, beside a `CHW_PDT` of 2.7 to 7.3 that they never agree with.
* `supply_temp_status` is never WARN for a generated reading, faulty or not
  (`LoopsHold`), and a machine may draw up to 3 percent above its rated power
  (`PowerNearRating`).

## 7. What is not modelled

* The Avro encoding, topic names, asset tags, most column expressions of dbt:
  computations without state.
* The PyFlink job: not deployed (image and compose file start
  `telemetry_consumer.py`); a mapping record by record inside Flink.
* The equipment profiles: no code reads them.
* A stream of messages that all fail to decode: `LoopTraffic` shows the flush only
  under `Busy`, because the code looks at its timer only on an empty poll and
  after a reading.
* A gateway and a simulator that started from samples with different names publish
  values under other names: `UnderItsName` is about devices both have alike, and no
  document says what should happen to the others.
* Deletes in the ERP database: no handler deletes.
* `fact_machine_state`: empty until its view starts to fail.
* The image of the scheduler: the DAG imports the dbt Cloud provider and calls `dbt`,
  neither of which the stock Airflow image has, and the compose file mounts the dbt
  project read-only.  `WarehouseBuild` takes an image and a mount in which dbt runs.
* Overlapping runs of `dbt_build` (an hourly run that outlasts the hour).
* Compression and retention in TimescaleDB; dashboards and release scripts.

## 8. Plan

Done: consumer, edge, device values, register map, ERP copy, warehouse builds and
pipeline, each modelled, checked and proved.  Left, most important first:

1. An abstract copied table (each row moves among versions its source had), with
   `ErpCdc` implementing it.
2. Two overlapping builds.
3. Device values for every draw between the extremes, not at three points.

## 9. Running

    tlc -config ConsumerSafety.cfg MCTelemetryConsumer.tla
    tlapm TelemetryConsumerProofs.tla

and so for the other six modules of proofs; `RegisterMapProofs` and `ErpCdcProofs` take
longest.

Each configuration goes with the module that PROJECT.json names for it.  An operator
marked "Variant" in a module is a plausible mistake in the definition after it; with
the variant in its place the property that PROJECT.json lists beside it is
violated, which shows that the property depends on that piece of code.
