------------------------------- MODULE Pipeline -------------------------------
(***************************************************************************)
(* From a machine to the energy report: EdgeStream fills a topic, a        *)
(* consumer that keeps the promises of RawLanding copies it into           *)
(* raw.telemetry, and EnergyFacts is computed from what is there.          *)
(*                                                                         *)
(* A row says which message it holds.  Several rows that the consumer      *)
(* commits at once are several steps here: no reader tells the difference, *)
(* because every property is about all rows so far.                        *)
(***************************************************************************)
EXTENDS EdgeStream, EnergyFacts

CONSTANT MaxSessions  \* bound: times the consumer joins its group

ASSUME SessionsAssumption == MaxSessions \in Nat

VARIABLES rows, session  \* as in RawLanding

pipeVars == <<vars, rows, session>>

Topic == "ems"

Landing == INSTANCE RawLanding
    WITH Topics <- {Topic}, published <- [t \in {Topic} |-> Len(log)]

PipeInit == Init /\ rows = <<>> /\ session = 0

Edge == Next /\ UNCHANGED <<rows, session>>

\* The consumer starts, or joins its group again: once more at an offset
\* committed earlier.
ConsumerJoins == UNCHANGED vars /\ Landing!NewSession

Lands ==
    \E offset \in 0 .. Len(log) - 1, taken \in 0 .. session :
        /\ rows' = Append(rows, [topic |-> Topic, offset |-> offset, session |-> taken])
        /\ UNCHANGED vars
        /\ Landing!Land

PipeNext == Edge \/ ConsumerJoins \/ Lands

PipeSpec == PipeInit /\ [][PipeNext]_pipeVars

-------------------------------------------------------------------------------
\* The readings in raw.telemetry, in the order of the rows.
Landed == [i \in DOMAIN rows |-> log[rows[i].offset + 1]]

\* Readings from one simulator process under an undisturbed clock.
OneSource(facts) ==
    /\ facts # <<>>
    /\ \A k \in DOMAIN facts : facts[k].boot = facts[1].boot
    /\ OneClock({facts[k] : k \in DOMAIN facts})
    /\ \A j, k \in DOMAIN facts :
           facts[j].ts = facts[k].ts => facts[j].energy = facts[k].energy

\* The facts of a machine add up: each delta is what the counter gained
\* between the two readings, never negative, and a gap or a copy changes the
\* number of deltas but not their sum.
AddUp(facts) ==
    /\ \A k \in 2 .. Len(facts) :
           /\ Delta(facts, k) >= 0
           /\ \/ facts[k].ts = facts[k - 1].ts
              \/ Delta(facts, k)
                     <= MaxPower * (facts[k].pass.ticks - facts[k - 1].pass.ticks) + Grid
    /\ Consumed(facts) = facts[Len(facts)].energy - facts[1].energy

\* What the warehouse reports for a machine adds up to what its counter
\* gained between the first and the last reading that landed, although
\* readings are retried, reordered and lost on their way into the topic and
\* skipped and landed again, behind later ones, on their way out of it.
LandedAddsUp ==
    \A d \in Devices : LET facts == ByTime(Landed, d) IN OneSource(facts) => AddUp(facts)
===============================================================================
