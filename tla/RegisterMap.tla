------------------------------ MODULE RegisterMap ------------------------------
(***************************************************************************)
(* The register map between a simulator (common/modbus_server.py) and its  *)
(* gateway (common/publisher.py).  Nothing on the wire says which device   *)
(* or metric a register belongs to: each side works it out by itself from  *)
(* the catalogue it read when it started.                                  *)
(*                                                                         *)
(* A value is the device and metric it was generated for and the refresh   *)
(* pass that generated it.                                                 *)
(***************************************************************************)
EXTENDS DeviceRegistry

CONSTANTS
    Rows,            \* rows that may be added to bms.csv
    BlockRegisters,  \* _BLOCK_REGISTERS
    MaxRows,         \* bound: rows in the file
    MaxPass          \* bound: refresh passes of a simulator

\* A number is a member of a value under its key; whole numbers stand for all.
ASSUME RowsAssumption ==
    \A row \in Rows :
        /\ row.name \in Int /\ row.parses \in BOOLEAN
        /\ IsFiniteSet(DOMAIN row.numbers) /\ DOMAIN row.numbers \subseteq Int
        /\ \A k \in DOMAIN row.numbers : row.numbers[k] \in Int

\* No device has more metrics than one read of registers returns.
ASSUME WidestAssumption ==
    LET keys == UNION {DOMAIN row.numbers : row \in Rows}
    IN IsFiniteSet(keys) /\ 2 * Cardinality(keys) <= 125

ASSUME BlockAssumption  == BlockRegisters \in Nat /\ BlockRegisters % 2 = 0
ASSUME BoundsAssumption == MaxRows \in Nat /\ MaxPass \in Nat \ {0}

VARIABLES
    source,   \* "bms" or "ems"
    file,     \* samples/bms.csv
    simUp,    \* the simulator process runs
    sim,      \* its devices
    pass,     \* history: its refresh passes
    regs,     \* the holding registers of each unit it hosts
    gwUp,     \* the gateway process runs
    gw,       \* its devices
    reading   \* the latest message; (history) agreed: both had the device alike

vars == <<source, file, simUp, sim, pass, regs, gwUp, gw, reading>>

NoDevices == [n \in {} |-> 0]
NoReading == [name |-> 0, value |-> NoDevices, agreed |-> FALSE]

-------------------------------------------------------------------------------
(* modbus_codec.py: a float takes two registers, high word first.          *)

Cell(n, k, p) == [name |-> n, key |-> k, pass |-> p]
Zero    == Cell(0, 0, 0)
Garbled == Cell(-1, -1, -1)

Word(c, half) == [cell |-> c, half |-> half]

EncodeMetrics(cells) ==
    [i \in 1 .. 2 * Len(cells) |->
        Word(cells[(i + 1) \div 2], IF i % 2 = 1 THEN "hi" ELSE "lo")]

DecodeMetrics(words, count) ==
    [i \in 1 .. count |->
        LET high == words[2 * i - 1]
            low  == words[2 * i]
        IN IF high = Word(high.cell, "hi") /\ low = Word(high.cell, "lo")
           THEN high.cell ELSE Garbled]

-------------------------------------------------------------------------------
(* The simulator.                                                          *)

\* _build_context(): one block of zeros per unit.
Blank(devices) ==
    [u \in {devices[n].unit : n \in DOMAIN devices} |->
        EncodeMetrics([i \in 1 .. BlockRegisters \div 2 |-> Zero])]

\* Variant: BMS values in the order in which the generator made them.
ValuesAsGenerated(devices, n, p) ==
    LET keys == devices[n].keys
    IN [i \in DOMAIN keys |-> Cell(n, keys[Len(keys) + 1 - i], p)]

\* _compute_values(): power and energy by position; for BMS, whichever
\* generator made it, the value of each metric in the order of d.metrics.
Values(devices, n, p) ==
    IF source = "ems" THEN <<Cell(n, Power, p), Cell(n, Energy, p)>>
    ELSE LET keys == devices[n].keys IN [i \in DOMAIN keys |-> Cell(n, keys[i], p)]

\* Variant: setValues() keeps the block at its size.
SetValuesInBlock(block, words) ==
    [i \in DOMAIN block |-> IF i <= Len(words) THEN words[i] ELSE block[i]]

\* Variant: the words replace the block.
SetValuesOnly(block, words) == words

\* setValues(3, 0, words), a slice assignment: a block may grow.
SetValues(block, words) ==
    [i \in 1 .. Max({Len(words), Len(block)}) |->
        IF i <= Len(words) THEN words[i] ELSE block[i]]

\* One pass of _refresh_loop() over the devices, without an await.
Refreshed(blocks, devices, p) ==
    [u \in DOMAIN blocks |->
        LET n == CHOOSE m \in DOMAIN devices : devices[m].unit = u
        IN SetValues(blocks[u], EncodeMetrics(Values(devices, n, p)))]

\* The first pass runs before the server accepts a connection.
SimStarts ==
    /\ ~simUp
    /\ simUp' = TRUE
    /\ sim' = DevicesFor(source, file)
    /\ pass' = 1
    /\ regs' = Refreshed(Blank(sim'), sim', 1)
    /\ UNCHANGED <<source, file, gwUp, gw, reading>>

Refresh ==
    /\ simUp
    /\ pass < MaxPass
    /\ pass' = pass + 1
    /\ regs' = Refreshed(regs, sim, pass')
    /\ UNCHANGED <<source, file, simUp, sim, gwUp, gw, reading>>

SimStops ==
    /\ simUp
    /\ simUp' = FALSE
    /\ sim' = NoDevices
    /\ pass' = 0
    /\ regs' = NoDevices
    /\ UNCHANGED <<source, file, gwUp, gw, reading>>

-------------------------------------------------------------------------------
(* The gateway.                                                            *)

GatewayStarts ==
    /\ ~gwUp
    /\ gwUp' = TRUE
    /\ gw' = DevicesFor(source, file)
    /\ UNCHANGED <<source, file, simUp, sim, pass, regs, reading>>

GatewayStops ==
    /\ gwUp
    /\ gwUp' = FALSE
    /\ gw' = NoDevices
    /\ UNCHANGED <<source, file, simUp, sim, pass, regs, reading>>

\* pymodbus answers a read of 1 to 125 registers that the unit has.
Answers(n) ==
    LET count == 2 * Len(gw[n].keys) IN
    /\ simUp
    /\ gw[n].unit \in DOMAIN regs
    /\ count \in 1 .. 125
    /\ count <= Len(regs[gw[n].unit])

SameEntry(n) ==
    /\ n \in DOMAIN sim
    /\ sim[n].unit = gw[n].unit
    /\ sim[n].keys = gw[n].keys

\* One iteration of _poll_device() that publishes; one that fails changes
\* nothing here.
Poll(n) ==
    /\ n \in DOMAIN gw
    /\ Answers(n)
    /\ LET keys   == gw[n].keys
           floats == DecodeMetrics(regs[gw[n].unit], Len(keys))
       IN reading' = [name   |-> n,
                      value  |-> [k \in ToSet(keys) |->
                                     floats[CHOOSE i \in DOMAIN keys : keys[i] = k]],
                      agreed |-> SameEntry(n)]
    /\ UNCHANGED <<source, file, simUp, sim, pass, regs, gwUp, gw>>

-------------------------------------------------------------------------------
Init ==
    /\ source \in {"bms", "ems"}
    /\ file = <<>>
    /\ simUp = FALSE /\ sim = NoDevices /\ pass = 0 /\ regs = NoDevices
    /\ gwUp = FALSE /\ gw = NoDevices
    /\ reading = NoReading

\* The operator of the plant adds a row to the sample.
AddRow(row) ==
    /\ source = "bms"
    /\ Len(file) < MaxRows
    /\ file' = Append(file, row)
    /\ UNCHANGED <<source, simUp, sim, pass, regs, gwUp, gw, reading>>

Next ==
    \/ SimStarts \/ Refresh \/ SimStops
    \/ GatewayStarts \/ GatewayStops
    \/ \E n \in DOMAIN gw : Poll(n)
    \/ \E row \in Rows : AddRow(row)

Spec == Init /\ [][Next]_vars

-------------------------------------------------------------------------------
(* Properties.                                                             *)

TypeOK ==
    /\ source \in {"bms", "ems"}
    /\ file \in Seq(Rows)
    /\ simUp \in BOOLEAN /\ gwUp \in BOOLEAN
    /\ pass \in 0 .. MaxPass
    /\ DOMAIN regs = {sim[n].unit : n \in DOMAIN sim}
    /\ \A u \in DOMAIN regs : Len(regs[u]) >= BlockRegisters
    /\ reading.agreed \in BOOLEAN

\* A published value is the one that the simulator generated for that device
\* and metric, and a message comes from one refresh pass, whenever the two
\* sides have the device alike, whatever else changed in the file between
\* the start of one and of the other.
UnderItsName ==
    reading.agreed =>
        \E p \in 1 .. MaxPass :
            \A k \in DOMAIN reading.value : reading.value[k] = Cell(reading.name, k, p)

\* A device that both sides have alike can be polled, unless no row of the
\* sample has a number for it.
Answered ==
    (simUp /\ gwUp) =>
        \A n \in DOMAIN gw : (SameEntry(n) /\ gw[n].keys # <<>>) => Answers(n)

\* The range of every metric is open, with the nominal value and the sample
\* inside of it.
RangesOpen ==
    \A n \in Sampled(file) : \A k \in KeysOf(file, n) :
        LET spec == MetricSpec(file, n, k) IN
        /\ spec.lo < spec.nominal /\ spec.nominal < spec.hi
        /\ \A v \in Observed(file, n, k) : spec.lo <= 40 * v /\ 40 * v <= spec.hi

\* A row that shows no new device and no new metric, only another value,
\* leaves the register map as it was: one side may be restarted without the
\* other.
CalibrationKeepsTheMap ==
    [][\A row \in Rows :
           (/\ file' = Append(file, row)
            /\ row.name \in Sampled(file)
            /\ DOMAIN row.numbers \subseteq KeysOf(file, row.name))
               => BmsCatalogue(file') = BmsCatalogue(file)]_vars
===============================================================================
