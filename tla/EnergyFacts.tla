------------------------------ MODULE EnergyFacts ------------------------------
(***************************************************************************)
(* The per-machine energy facts of dbt, fact_energy_reading.sql: the       *)
(* readings of a machine ordered by time, and the energy of each against   *)
(* the one before it.  rows is a sequence of readings with fields dev, ts  *)
(* and energy, in the order in which they arrived.                         *)
(***************************************************************************)
EXTENDS Integers, Sequences, FiniteSets

\* Variant: against the reading that arrived before.
ByArrival(rows, dev) == SelectSeq(rows, LAMBDA r : r.dev = dev)

NotAfter(rows, i, j) ==
    rows[i].ts < rows[j].ts \/ (rows[i].ts = rows[j].ts /\ i <= j)

\* The readings of one machine by time; those of one instant, which the
\* database may order as it likes, as they arrived.
ByTime(rows, dev) ==
    LET at    == {i \in DOMAIN rows : rows[i].dev = dev}
        place == [i \in at |-> Cardinality({j \in at : NotAfter(rows, j, i)})]
    IN [n \in 1 .. Cardinality(at) |-> rows[CHOOSE i \in at : place[i] = n]]

\* delta_kwh of the k-th reading, k > 1; lag() is null for the first.
Delta(ordered, k) == ordered[k].energy - ordered[k - 1].energy

\* What a report adds up for the machine.
Consumed(ordered) ==
    LET upTo[k \in 0 .. Len(ordered)] ==
            IF k <= 1 THEN 0 ELSE upTo[k - 1] + Delta(ordered, k)
    IN upTo[Len(ordered)]
===============================================================================
