------------------------------ MODULE RawLanding ------------------------------
(***************************************************************************)
(* What raw.telemetry promises to its readers, the staging views of dbt    *)
(* and Grafana, about the topics it is filled from.                        *)
(*                                                                         *)
(* Rows are only ever appended: the table has no key, so nothing replaces  *)
(* or rejects a row, and no job updates or deletes one.  Every row is a    *)
(* message of a topic.  A message may be missing and it may be there more  *)
(* than once, but never twice from one membership of the consumer in its   *)
(* group, and one membership lands a topic in the order the topic has.     *)
(***************************************************************************)
EXTENDS Naturals, Sequences

CONSTANTS
    Topics,      \* the telemetry topics
    MaxLog,      \* bound: messages published to one topic
    MaxSessions  \* bound: times the consumer joins its group

VARIABLES
    published,  \* published[t]: messages in the log of t
    rows,       \* raw.telemetry, in the order the rows were inserted
    session     \* the current membership of the consumer in its group

vars == <<published, rows, session>>

Reading == [topic : Topics, offset : 0 .. MaxLog, session : 0 .. MaxSessions]

Init ==
    /\ published = [t \in Topics |-> 0]
    /\ rows = <<>>
    /\ session = 0

Publish(t) ==
    /\ published[t] < MaxLog
    /\ published' = [published EXCEPT ![t] = @ + 1]
    /\ UNCHANGED <<rows, session>>

NewSession ==
    /\ session < MaxSessions
    /\ session' = session + 1
    /\ UNCHANGED <<published, rows>>

\* log grows into longer by messages taken in this membership or, when the
\* consumer had them in memory as it joined again, in an earlier one.
Appended(log, longer) ==
    /\ longer \in Seq(Reading)
    /\ Len(log) < Len(longer)
    /\ \A i \in DOMAIN log : longer[i] = log[i]
    /\ \A i \in DOMAIN longer :
           i > Len(log) => /\ longer[i].session <= session
                           /\ longer[i].offset < published[longer[i].topic]

\* No membership lands a message twice, or two messages of a topic out of
\* order, or anything behind what a later membership landed.
InOrder(log) ==
    \A i, j \in DOMAIN log :
        i < j => /\ log[i].session <= log[j].session
                 /\ (log[i].session = log[j].session /\ log[i].topic = log[j].topic)
                        => log[i].offset < log[j].offset

\* A transaction of the consumer commits.
Land ==
    /\ Appended(rows, rows')
    /\ InOrder(rows')
    /\ UNCHANGED <<published, session>>

Next == (\E t \in Topics : Publish(t)) \/ NewSession \/ Land

Spec == Init /\ [][Next]_vars
===============================================================================
