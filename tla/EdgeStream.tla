------------------------------ MODULE EdgeStream ------------------------------
(***************************************************************************)
(* A gateway (common/publisher.py) in front of ModbusSimulator: one task   *)
(* per machine polls its unit and hands a stamped reading to the Kafka     *)
(* producer, whose defaults send again what was not acknowledged, with     *)
(* other messages in between, and give up after a time.                    *)
(***************************************************************************)
EXTENDS ModbusSimulator, Sequences

CONSTANTS
    Interval,   \* PUBLISH_INTERVAL
    MaxGateway, \* bound: starts of the gateway
    MaxLog      \* bound: messages in the topic

ASSUME GatewayAssumption == /\ Interval \in Nat \ {0}
                            /\ MaxGateway \in Nat
                            /\ MaxLog \in Nat

VARIABLES
    gateway,  \* how often the gateway was started
    task,     \* task[d]: where the task of machine d is
    started,  \* started[d]: the clock when its poll began
    wake,     \* wake[d]: the tick at which its sleep ends
    fresh,    \* messages the producer has not tried yet, in order
    unacked,  \* messages it tried without an acknowledgement
    log       \* the topic

gwVars == <<gateway, task, started, wake, fresh, unacked, log>>
vars   == <<simVars, gwVars>>

\* A reading has its timestamp, energy total and device, and (history) the
\* clock at the start of the poll, the pass whose registers it carries, and
\* whether this is a copy that was sent again.
Message == [dev : Devices, ts : Int, energy : Energy, start : Clock, pass : Clock,
            boot : 0 .. MaxBoots, gateway : 0 .. MaxGateway, again : BOOLEAN]

Running == \E d \in Devices : task[d] # "down"

EdgeTypeOK ==
    /\ SimTypeOK
    /\ gateway \in 0 .. MaxGateway
    /\ task \in [Devices -> {"down", "sleep", "read"}]
    /\ started \in [Devices -> Clock]
    /\ wake \in [Devices -> 0 .. MaxTime + Interval + MaxSteps]
    /\ fresh \in Seq(Message)
    /\ unacked \subseteq Message
    /\ log \in Seq(Message) /\ Len(log) <= MaxLog

Init ==
    /\ SimInit
    /\ gateway = 0
    /\ task = [d \in Devices |-> "down"]
    /\ started = [d \in Devices |-> Zero]
    /\ wake = [d \in Devices |-> 0]
    /\ fresh = <<>>
    /\ unacked = {}
    /\ log = <<>>

-------------------------------------------------------------------------------
(* The tasks.                                                              *)

GatewayStarts ==
    /\ ~Running
    /\ gateway < MaxGateway
    /\ gateway' = gateway + 1
    /\ task' = [d \in Devices |-> "sleep"]
    /\ wake' = [d \in Devices |-> clock.ticks]
    /\ UNCHANGED <<simVars, started, fresh, unacked, log>>

\* The process ends, and with it the messages that wait in the producer.
GatewayCrashes ==
    /\ Running
    /\ task' = [d \in Devices |-> "down"]
    /\ started' = [d \in Devices |-> Zero]
    /\ wake' = [d \in Devices |-> 0]
    /\ fresh' = <<>>
    /\ unacked' = {}
    /\ UNCHANGED <<simVars, gateway, log>>

PollStarts(d) ==
    /\ task[d] = "sleep"
    /\ clock.ticks >= wake[d]
    /\ task' = [task EXCEPT ![d] = "read"]
    /\ started' = [started EXCEPT ![d] = clock]
    /\ wake' = [wake EXCEPT ![d] = 0]
    /\ UNCHANGED <<simVars, gateway, fresh, unacked, log>>

Elapsed(d) == now - Wall(started[d])

SleepsFor(d, pause) ==
    /\ task' = [task EXCEPT ![d] = "sleep"]
    /\ started' = [started EXCEPT ![d] = Zero]
    /\ wake' = [wake EXCEPT ![d] = clock.ticks + (IF pause > 0 THEN pause ELSE 0)]

\* Variant: the sleep ends a tick early.
SleepsTooShort(d) == SleepsFor(d, Interval - 1 - Elapsed(d))

\* Variant: the time the poll took is not subtracted.
SleepsTooLong(d) == SleepsFor(d, Interval + Elapsed(d))

\* sleep(max(0, interval - elapsed)): the elapsed time is the wall clock's,
\* the sleep is not.
Sleeps(d) == SleepsFor(d, Interval - Elapsed(d))

Reading(d) ==
    [dev |-> d, ts |-> Wall(started[d]), energy |-> regs[d].energy,
     start |-> started[d], pass |-> regs[d].pass, boot |-> regs[d].boot,
     gateway |-> gateway, again |-> FALSE]

\* The unit answers with its registers; the reading carries the time at
\* which the poll began.
PollSucceeds(d) ==
    /\ task[d] = "read"
    /\ up
    /\ fresh' = Append(fresh, Reading(d))
    /\ Sleeps(d)
    /\ UNCHANGED <<simVars, gateway, unacked, log>>

\* No answer, an exception response, or a reading that cannot be serialised:
\* the exception is logged and the stream goes on with the next interval.
PollFails(d) ==
    /\ task[d] = "read"
    /\ Sleeps(d)
    /\ UNCHANGED <<simVars, gateway, fresh, unacked, log>>

-------------------------------------------------------------------------------
(* The producer and the broker.                                            *)

\* Variant: the producer takes the latest message first.
SendLast ==
    /\ fresh # <<>>
    /\ Len(log) < MaxLog
    /\ log' = Append(log, fresh[Len(fresh)])
    /\ fresh' = SubSeq(fresh, 1, Len(fresh) - 1)
    /\ UNCHANGED <<simVars, gateway, task, started, wake, unacked>>

\* First attempts leave in order, without waiting for acknowledgements.
Send ==
    /\ fresh # <<>>
    /\ fresh' = Tail(fresh)
    /\ \/ /\ Len(log) < MaxLog
          /\ log' = Append(log, Head(fresh))
          /\ unacked' \in {unacked, unacked \cup {Head(fresh)}}
       \/ /\ unacked' = unacked \cup {Head(fresh)}
          /\ UNCHANGED log
    /\ UNCHANGED <<simVars, gateway, task, started, wake>>

\* A retry, which may itself go unacknowledged.
Resend(m) ==
    /\ m \in unacked
    /\ Len(log) < MaxLog
    /\ log' = Append(log, [m EXCEPT !.again = TRUE])
    /\ unacked' \in {unacked, unacked \ {m}}
    /\ UNCHANGED <<simVars, gateway, task, started, wake, fresh>>

\* message.timeout.ms
Expire(m) ==
    /\ m \in unacked
    /\ unacked' = unacked \ {m}
    /\ UNCHANGED <<simVars, gateway, task, started, wake, fresh, log>>

-------------------------------------------------------------------------------
Next ==
    \/ SimNext /\ UNCHANGED gwVars
    \/ GatewayStarts \/ GatewayCrashes
    \/ \E d \in Devices : PollStarts(d) \/ PollSucceeds(d) \/ PollFails(d)
    \/ Send
    \/ \E m \in unacked : Resend(m) \/ Expire(m)

Spec == Init /\ [][Next]_vars

-------------------------------------------------------------------------------
(* Properties.                                                             *)

SameStream(a, b) == a.dev = b.dev /\ a.gateway = b.gateway

\* Readings taken and measured without the clock being set in between.
OneClock(readings) ==
    \E n \in 0 .. MaxSteps : \A m \in readings : Times(m.start) = n /\ Times(m.pass) = n

\* The readings of a machine carry an energy that grows with their
\* timestamps, whatever was retried, duplicated or lost on the way, as long
\* as the simulator was not restarted and the clock not set between them.
EnergyFollowsTime ==
    \A i, j \in DOMAIN log :
        (/\ log[i].dev = log[j].dev /\ log[i].boot = log[j].boot
         /\ OneClock({log[i], log[j]})
         /\ log[i].ts < log[j].ts)
            => log[i].energy <= log[j].energy

\* A stream has at most one reading per interval: two that are nearer are
\* copies of one, or the clock was set between them.
OnePerInterval ==
    \A i, j \in DOMAIN log :
        (/\ SameStream(log[i], log[j]) /\ log[i].ts <= log[j].ts
         /\ Times(log[i].start) = Times(log[j].start))
            => \/ log[j].ts >= log[i].ts + Interval
               \/ log[i].ts = log[j].ts /\ log[i].energy = log[j].energy

\* A reading behind a later one of its machine, or behind itself, has been
\* sent again: first attempts are in the order of the polls.
DisorderIsRetry ==
    \A i, j \in DOMAIN log :
        (i < j /\ SameStream(log[i], log[j]) /\ ~Before(log[i].start, log[j].start))
            => log[j].again

\* A stream does not fall silent: a clock that is set back delays the next
\* poll by no more than it was set back.
PaceKept ==
    \A d \in Devices :
        task[d] = "sleep" => wake[d] <= clock.ticks + Interval + clock.back
===============================================================================
