-------------------------- MODULE MCTelemetryConsumer --------------------------
(* TelemetryConsumer on one HVAC and one machine topic.                    *)
EXTENDS TelemetryConsumer

MCTopics == {"hvac", "machine"}

\* The second message of the machine topic is not a Telemetry record.
MCUndecodable == {<<"machine", 1>>}
===============================================================================
