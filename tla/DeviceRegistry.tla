---------------------------- MODULE DeviceRegistry ----------------------------
(***************************************************************************)
(* The device catalogue of common/registry.py.  Simulator and gateway each *)
(* derive it at their own start, BMS devices from the bms.csv mounted into *)
(* both containers, EMS machines from a fixed fleet.                       *)
(*                                                                         *)
(* Names and metric keys are integers in the order of the strings.  A row  *)
(* of the file has a name, whether its JSON parses, and the numeric        *)
(* members of the value.  A value that is JSON but not an object is left   *)
(* out, and so are type, building and tags: neither side needs them to     *)
(* find a value.  Calibration is counted in fortieths, which are exact.    *)
(***************************************************************************)
EXTENDS Integers, FiniteSetsExt, SequencesExt

CONSTANTS
    Fleet,   \* _EMS_FLEET: rows of building, type and count
    Power,   \* the key totalPower
    Energy   \* the key totalEnergy

ASSUME FleetAssumption == /\ Fleet \in Seq([building : Nat, type : Nat, count : Nat])
                          /\ Power \in Int /\ Energy \in Int

-------------------------------------------------------------------------------
(* Ranges from the sample.                                                 *)

Named(rows, n) == {i \in DOMAIN rows : rows[i].name = n /\ rows[i].parses}

Observed(rows, n, k) ==
    {rows[i].numbers[k] : i \in {j \in Named(rows, n) : k \in DOMAIN rows[j].numbers}}

\* Variant: a flat sample is widened in proportion only.
WidenedInProportion(lo, hi) ==
    LET by == 2 * Max({lo, -lo}) IN
    IF lo # hi THEN <<40 * lo, 40 * hi>> ELSE <<40 * lo - by, 40 * hi + by>>

\* "widen a flat sample so the generator has room to move"
Widened(lo, hi) ==
    LET by == 2 * Max({lo, -lo}) + 20 IN
    IF lo # hi THEN <<40 * lo, 40 * hi>> ELSE <<40 * lo - by, 40 * hi + by>>

MetricSpec(rows, n, k) ==
    LET seen  == Observed(rows, n, k)
        range == Widened(Min(seen), Max(seen))
    IN [lo |-> range[1], hi |-> range[2], nominal |-> (range[1] + range[2]) \div 2]

-------------------------------------------------------------------------------
(* Catalogues: each device with its unit id and its metrics in order.      *)

Sampled(rows) == {rows[i].name : i \in {j \in DOMAIN rows : rows[j].parses}}

KeysOf(rows, n) == UNION {DOMAIN rows[i].numbers : i \in Named(rows, n)}

\* The place of n in S, counted from the least, and S in order.
Rank(S, n) == Cardinality({m \in S : m <= n})
Sorted(S)  == [i \in 1 .. Cardinality(S) |-> CHOOSE n \in S : Rank(S, n) = i]

\* Variant: each row of a device starts its metrics anew.
MetricsOfLastRow(rows, n) == Sorted(DOMAIN rows[Max(Named(rows, n))].numbers)

Metrics(rows, n) == Sorted(KeysOf(rows, n))

BmsCatalogue(rows) ==
    [n \in Sampled(rows) |->
        [unit |-> Rank(Sampled(rows), n), keys |-> Metrics(rows, n)]]

\* The machines of the fleet in order: "{code}-{type}-{n:02d}".
Machines ==
    FlattenSeq([r \in DOMAIN Fleet |->
        [n \in 1 .. Fleet[r].count |->
            10000 * Fleet[r].building + 100 * Fleet[r].type + n]])

\* A later machine of the same id would replace an earlier one.
EmsUnit(m) == Max({i \in DOMAIN Machines : Machines[i] = m})

EmsCatalogue == [m \in ToSet(Machines) |-> [unit |-> EmsUnit(m), keys |-> <<Power, Energy>>]]

\* devices_for(source)
DevicesFor(source, rows) == IF source = "bms" THEN BmsCatalogue(rows) ELSE EmsCatalogue
===============================================================================
