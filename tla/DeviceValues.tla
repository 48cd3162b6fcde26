----------------------------- MODULE DeviceValues -----------------------------
(***************************************************************************)
(* What the simulated devices measure (common/generators.py), against what *)
(* the staging views that read them expect.                                *)
(*                                                                         *)
(* Values are in thousandths (degrees, percent, kPa, l/s, kW), load is     *)
(* _diurnal_factor() in percent.  Every value is monotone in each draw of  *)
(* _n(), so draws are taken at the middle and at both ends.  round() at    *)
(* four digits is below the resolution.                                    *)
(***************************************************************************)
EXTENDS Integers, FiniteSetsExt

CONSTANTS
    Devices,   \* the devices: their type, and the calibrated range of each metric
    Loads,     \* the loads of a day
    AirFlow,   \* nominal Supply_Flow of an AHU, from the sample
    PlantFlow  \* nominal Total_Flow of the compressors, from the sample

ASSUME LoadsAssumption == {0, 100} \subseteq Loads /\ Loads \subseteq 0 .. 100
ASSUME FlowsAssumption == AirFlow \in Nat /\ PlantFlow \in Nat

VARIABLE reading  \* a device's type, its load, whether it has a fault, its metrics

\* A metric before _clamp() and its limits.
Metric(raw, lo, hi) == [raw |-> raw, lo |-> lo, hi |-> hi]
Clamp(v, lo, hi)    == Max({lo, Min({hi, v})})
Value(m)            == Clamp(m.raw, m.lo, m.hi)
Percent(v, p)       == (v * p) \div 100
Only(condition, p)  == IF condition THEN p ELSE 100
Unclamped           == 1000000000

-------------------------------------------------------------------------------
(* HVAC.  n: the draws; fault: the draw of the refresh pass; low: fault    *)
(* and the second draw that some faults need.                              *)

\* Variant: the load counts twice.
LiftTwice(load) == 3000 + 30 * load
\* What a chiller's condenser adds to the temperature.
Lift(load) == 3000 + 15 * load

\* Variant: water cools down in what it cools.
Cooled(supply, gain, hi) == Metric(supply - gain, 0, hi)
\* What returns: warmer than the supply by the gain, and by one degree at least.
Warmed(supply, gain, hi) == Metric(supply + gain, supply + 1000, hi)

Chiller(load, n, low) ==
    LET chws == 7000 + 250 * n[1]
        gain == Percent(3000 + 50 * load + 150 * n[2], Only(low, 45))
        cdws == 27000 + 50 * load + 400 * n[3]
    IN [Chilled_Water_Supply_Temp |-> Metric(chws, 5000, 12000),
        Chilled_Water_Return_Temp |-> Warmed(chws, gain, 18000),
        Condensor_Supply_Temp     |-> Metric(cdws, 24000, 34000),
        Condensor_Return_Temp     |-> Warmed(cdws, Lift(load) + 250 * n[4], 38000)]

\* Variant: a stall leaves the flow alone.
FlowUnstalled(load, n, fault) ==
    Percent(1000 * AirFlow, 55 + 2 * n) + Percent(450 * AirFlow, load)
\* Air through an AHU; a stalled fan moves 18 percent of it.
Flow(load, n, fault) ==
    Percent(Percent(1000 * AirFlow, 55 + 2 * n) + Percent(450 * AirFlow, load), Only(fault, 18))

Ahu(load, n, fault) ==
    LET rh == 58000 + 1500 * n[3]
    IN [Supply_Temp |-> Metric(14000 + 350 * n[1] + (IF fault THEN 3500 ELSE 0), 10000, 20000),
        Return_Temp |-> Metric(22000 + 55 * load + 500 * n[2], 18000, 32000),
        Supply_RH   |-> Metric(rh, 45000, 75000),
        Return_RH   |-> Metric(rh - 2000 + 30 * load + 1200 * n[4], 40000, 72000),
        Supply_Flow |-> Metric(Flow(load, n[5], fault), 50000, 1100 * AirFlow)]

CoolingTower(load, n, fault) ==
    LET temp == 22000 + 100 * load + 700 * n[1] + (IF fault THEN 2500 * n[3] ELSE 0)
    IN [Outdoor_MIT_01_Temp |-> Metric(temp, 14000, 40000),
        Outdoor_MIT_01_RH   |-> Metric(78000 - 160 * load + 2000 * n[2], 30000, 95000)]

ChillerHeader(load, n, low) ==
    LET chws == 7000 + 350 * n[1]
        gain == 3000 + 40 * load + 300 * n[2]
        cdws == 28000 + 45 * load + 400 * n[3]
        dpt  == Percent(210000 + 700 * load + 6000 * n[5], Only(low, 55))
    IN [CHWS_Temp |-> Metric(chws, 5000, 12000),
        CHWR_Temp |-> Warmed(chws, gain, 18000),
        CDWS_Temp |-> Metric(cdws, 24000, 36000),
        CDWR_Temp |-> Warmed(cdws, 3000 + 20 * load + 300 * n[4], 40000),
        CHW_DPT   |-> Metric(dpt, 120000, 320000),
        CW_DPT    |-> Metric(175000 + 450 * load + 5000 * n[6], 100000, 260000),
        consumptionFlowRate |-> Metric(420000 + 1100 * load + 12000 * n[7], 150000, 600000),
        CHW_PDT   |-> Metric(gain, 1000, 10000)]

\* stage: quarters of the capacity that run.
Compressors(load, stage, n, fault) ==
    LET capacity == 250 * stage * PlantFlow
        flow     == Percent(capacity, 65) + Percent(Percent(capacity, 35), load)
    IN [Total_Flow |-> Metric(Percent(flow + 15 * PlantFlow * n[1], Only(fault, 35)),
                              30000, 1150 * PlantFlow)]

AirCooler(load, n, fault) ==
    [Supply_Temp |-> Metric(14000 + 25 * load + 450 * n[1] + (IF fault THEN 2000 * n[2] ELSE 0),
                            10000, 22000)]

\* A place in the calibrated range of a metric, in thousandths of it.
At(range, p) == range.lo + ((range.hi - range.lo) * p) \div 1000

\* bms_metric_value(), for what no generator knows.
Fallback(range, load, n, fault) ==
    LET jump == (IF n[2] < 0 THEN -1 ELSE 1) * (450 + 150 * n[3])
    IN Metric(At(range, 350 + 5 * load + 20 * n[1] + (IF fault THEN jump ELSE 0)),
              At(range, -100), At(range, 1100))

-------------------------------------------------------------------------------
(* Manufacturing machines.                                                 *)

\* _EMS_POWER: idle, peak and nominal power.
Envelope(type) ==
    CASE type = "INJECTION_MOULDING" -> [lo |->  8000, hi |-> 140000, nominal |->  75000]
      [] type = "CNC"                -> [lo |->  2000, hi |->  35000, nominal |->  15000]
      [] type = "HEATING"            -> [lo |-> 10000, hi |-> 220000, nominal |-> 120000]

\* The share of the time that a machine runs, in percent.
Duty(load) == 25 + (70 * load) \div 100

\* Variant: the mould cycle does not depend on the duty.
Undiminished(level, load) == level
\* level *= 0.55 + 0.45 * duty
Diminished(level, load) == (level * (5500 + 45 * Duty(load))) \div 10000

\* Clamp, inject, hold, eject.
InjectionMoulding(e, load, n) ==
    {Diminished(level, load) : level \in
        {Percent(e.hi, 55 + 4 * n), Percent(e.hi, 100 + 3 * n),
         Percent(e.nominal, 75 + 4 * n), Percent(e.lo, 120 + 8 * n)}}

\* Six passes, or idle.
Cnc(e, load, n) ==
    {e.lo} \cup {pass + Percent(e.hi - e.lo, 4 * n) : pass \in
        {e.lo, Percent(e.nominal, 60), Percent(e.nominal, 85),
         Percent(e.hi, 90), Percent(e.nominal, 70), Percent(e.lo, 150)}}

Blend(from, to) == {from + Percent(to - from, q) : q \in {0, 50, 100}}

\* Ramp up, soak, overshoot and correct, ramp down.
Heating(e, load, n) ==
    LET settled == Percent(e.nominal, 110)
    IN Blend(e.lo, e.hi) \cup {e.nominal + (25 * e.nominal * n) \div 1000}
           \cup Blend(e.hi, settled) \cup Blend(settled, e.lo)

EmsPower(type, load, n) ==
    LET e      == Envelope(type)
        levels == CASE type = "INJECTION_MOULDING" -> InjectionMoulding(e, load, n[1])
                    [] type = "CNC"                -> Cnc(e, load, n[1])
                    [] type = "HEATING"            -> Heating(e, load, n[1])
        noise  == (15 * (e.hi - e.lo) * n[2]) \div 1000
    IN {[totalPower |-> Metric(level + noise, 0, Unclamped)] : level \in levels}

-------------------------------------------------------------------------------
(* A device.                                                               *)

MachineTypes == {"INJECTION_MOULDING", "CNC", "HEATING"}

\* How many draws the generator of a type needs; the others have none.
Draws == [Chillers |-> 4, AHU |-> 5, CoolingTower |-> 3, ChillerHeader |-> 7,
          AirCompressors |-> 1, AirCoolers |-> 2, Unknown |-> 0,
          INJECTION_MOULDING |-> 2, CNC |-> 2, HEATING |-> 2]

Noise(draws) == [1 .. draws -> -1 .. 1]

ASSUME DevicesAssumption ==
    \A d \in Devices :
        /\ d.type \in DOMAIN Draws
        /\ \A k \in DOMAIN d.metrics :
               LET range == d.metrics[k]
               IN range.lo \in Int /\ range.hi \in Int /\ range.lo < range.hi

\* What the generator of a type may return.
Generated(type, load, n, fault) ==
    CASE type = "Chillers"       -> {Chiller(load, n, low) : low \in {FALSE, fault}}
      [] type = "AHU"            -> {Ahu(load, n, fault)}
      [] type = "CoolingTower"   -> {CoolingTower(load, n, fault)}
      [] type = "ChillerHeader"  -> {ChillerHeader(load, n, low) : low \in {FALSE, fault}}
      [] type = "AirCompressors" -> {Compressors(load, stage, n, fault) : stage \in 1 .. 4}
      [] type = "AirCoolers"     -> {AirCooler(load, n, fault)}
      [] OTHER                   -> {<<>>}

\* Of that, what the device publishes.
Keyed(d, load, fault) ==
    UNION {{[k \in DOMAIN d.metrics \cap DOMAIN g |-> g[k]] : g \in Generated(d.type, load, n, fault)} :
           n \in Noise(Draws[d.type])}

\* bms_values(): what a refresh pass may find for a device.  A metric that the
\* generator does not know is drawn on its own.
BmsValues(d, load, fault) ==
    UNION {{[k \in DOMAIN d.metrics |->
                 IF k \in DOMAIN keyed THEN keyed[k] ELSE Fallback(d.metrics[k], load, n[k], fault)] :
            n \in [DOMAIN d.metrics \ DOMAIN keyed -> Noise(3)]} :
           keyed \in Keyed(d, load, fault)}

Values(d, load, fault) ==
    IF d.type \in MachineTypes
    THEN UNION {EmsPower(d.type, load, n) : n \in Noise(Draws[d.type])}
    ELSE BmsValues(d, load, fault)

Idle == [type |-> "none", load |-> 0, fault |-> FALSE, metrics |-> <<>>]

Init == reading = Idle

\* A machine has no fault draw.
Compute ==
    /\ reading = Idle
    /\ \E d \in Devices, load \in Loads, fault \in BOOLEAN :
           /\ fault => d.type \notin MachineTypes
           /\ \E metrics \in Values(d, load, fault) :
                  reading' = [type |-> d.type, load |-> load, fault |-> fault, metrics |-> metrics]

\* The values go into the registers, and the next unit follows.
Store == reading # Idle /\ reading' = Idle

Next == Compute \/ Store
Spec == Init /\ [][Next]_reading

-------------------------------------------------------------------------------
(* What the rest of the repository expects of the values.                  *)

\* supply_temp_status of the staging views: the supply and its range.
SupplyRange(type) ==
    CASE type = "AHU"      -> <<"Supply_Temp", 10000, 20000>>
      [] type = "Chillers" -> <<"Chilled_Water_Supply_Temp", 4000, 12000>>

\* delta_temp of the staging views, and the other supplies and returns.
Loops(type) ==
    CASE type = "AHU"           -> {<<"Supply_Temp", "Return_Temp">>}
      [] type = "Chillers"      -> {<<"Chilled_Water_Supply_Temp", "Chilled_Water_Return_Temp">>,
                                    <<"Condensor_Supply_Temp", "Condensor_Return_Temp">>}
      [] type = "ChillerHeader" -> {<<"CHWS_Temp", "CHWR_Temp">>, <<"CDWS_Temp", "CDWR_Temp">>,
                                    <<"Chiller_Header_Supply_Temp", "Chiller_Header_Return_Temp">>}
      [] OTHER                  -> {}

\* A header's calibrated loop: drawn on its own at each end, so that only the
\* ranges of the sample, with the tenth that a limit adds, keep them apart.
RangesApart ==
    \A d \in Devices :
        LET s == "Chiller_Header_Supply_Temp"
            r == "Chiller_Header_Return_Temp"
        IN d.type = "ChillerHeader" /\ {s, r} \subseteq DOMAIN d.metrics
               => At(d.metrics[s], 1100) < At(d.metrics[r], -100)

-------------------------------------------------------------------------------
(* Properties.                                                             *)

Shown(k)  == Value(reading.metrics[k])
Published == DOMAIN reading.metrics

\* A limit never flattens the curve of a healthy device, at no hour and for
\* no draw: only a fault is clamped.
ClampsIdle ==
    ~reading.fault =>
        \A k \in Published :
            LET m == reading.metrics[k] IN m.lo <= m.raw /\ m.raw <= m.hi

\* A device never reads as one that runs backwards, faulty or not: what
\* returns is warmer than what was supplied, for every loop of which it
\* publishes both ends, and the supply status of staging is OK.
LoopsHold ==
    /\ \A l \in Loops(reading.type) :
           {l[1], l[2]} \subseteq Published => Shown(l[2]) > Shown(l[1])
    /\ reading.type \in {"AHU", "Chillers"} =>
           LET range == SupplyRange(reading.type)
           IN range[1] \in Published => Shown(range[1]) \in range[2] .. range[3]

\* A stalled fan shows in the flow: it is below that of a healthy unit at
\* any hour, so no night looks like a stall.
StallShows ==
    (reading.type = "AHU" /\ "Supply_Flow" \in Published) =>
        LET least == Min({Value(Ahu(load, [i \in 1 .. 5 |-> -1], FALSE).Supply_Flow) : load \in Loads})
        IN reading.fault <=> Shown("Supply_Flow") < least

\* A machine draws power as long as it is read, and less than 3 percent more
\* than its rated power.
PowerNearRating ==
    reading.type \in MachineTypes =>
        /\ Shown("totalPower") > 0
        /\ 100 * Shown("totalPower") < 103 * Envelope(reading.type).hi
===============================================================================
