----------------------------- MODULE MCRegisterMap -----------------------------
(* RegisterMap for three sampled devices and a fleet of four machines.     *)
EXTENDS RegisterMap

Row(n, numbers) == [name |-> n, parses |-> TRUE, numbers |-> numbers]

\* Two rows of one device that share a key, a device before it in the order,
\* a flat zero, a row without a number and one that does not parse.
MCRows ==
    {Row(2, [k \in {2} |-> 0]),
     Row(2, [k \in {1, 2, 3} |-> k - 3]),
     Row(1, [k \in {1, 3} |-> 7]),
     Row(3, [k \in {} |-> 0]),
     [name |-> 2, parses |-> FALSE, numbers |-> [k \in {} |-> 0]]}

MCFleet == <<[building |-> 1, type |-> 2, count |-> 2],
             [building |-> 1, type |-> 1, count |-> 1],
             [building |-> 2, type |-> 2, count |-> 1]>>
===============================================================================
