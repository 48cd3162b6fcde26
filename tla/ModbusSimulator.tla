--------------------------- MODULE ModbusSimulator ---------------------------
(***************************************************************************)
(* A field gateway's worth of energy meters (common/modbus_server.py with  *)
(* the EnergyIntegrator of common/generators.py): one Modbus unit per      *)
(* machine, refreshed by one background task, energy totals in memory.     *)
(*                                                                         *)
(* The host has two clocks: sleeps of asyncio run on one that only goes    *)
(* forward, time.time() is a wall clock that may also be set.  Energy is   *)
(* counted in power times clock ticks.  round() and the 32-bit float of    *)
(* the registers are rounding to multiples of Grid.                        *)
(***************************************************************************)
EXTENDS Integers

CONSTANTS
    Devices,          \* the machines
    Powers,           \* what ems_power() may return
    Grid,             \* resolution of an energy total in the registers
    RefreshInterval,  \* REFRESH_INTERVAL
    MaxTime,          \* bound: the last clock tick
    MaxBoots,         \* bound: starts of the simulator
    MaxSteps          \* bound: ticks by which the wall clock is set, either way

\* A machine has a power it does not exceed.
ASSUME PowersAssumption == /\ Powers \subseteq Nat
                           /\ \E most \in Powers : \A p \in Powers : p <= most
ASSUME GridAssumption   == Grid \in Nat \ {0}
ASSUME TimeAssumption   == /\ MaxTime \in Nat
                           /\ MaxBoots \in Nat
                           /\ MaxSteps \in Nat
                           /\ RefreshInterval \in Nat \ {0}

VARIABLES
    clock,  \* ticks so far, and those the wall clock was set forth and back
    up,     \* the simulator process runs
    boot,   \* how often it was started
    since,  \* history: the clock when it was last started
    total,  \* EnergyIntegrator._total_kwh
    lastT,  \* EnergyIntegrator._last_t
    regs    \* the holding registers, and (history) the pass that wrote them

simVars == <<clock, up, boot, since, total, lastT, regs>>

Clock    == [ticks : 0 .. MaxTime, forth : 0 .. MaxSteps, back : 0 .. MaxSteps]
Wall(c)  == c.ticks + c.forth - c.back
Times(c) == c.forth + c.back  \* how often it was set
now      == Wall(clock)       \* time.time()

Zero == [ticks |-> 0, forth |-> 0, back |-> 0]

\* Variant: a total goes into the registers as it is.
Unrounded(e) == e

Rounded(e) == Grid * ((2 * e + Grid) \div (2 * Grid))

Energy   == {e \in Int : e % Grid = 0}
Register == [energy : Energy, pass : Clock, boot : 0 .. MaxBoots]
Readout(energy, starts) == [d \in Devices |->
    [energy |-> Rounded(energy[d]), pass |-> clock, boot |-> starts]]

SimTypeOK ==
    /\ clock \in Clock
    /\ up \in BOOLEAN
    /\ boot \in 0 .. MaxBoots
    /\ since \in Clock
    /\ total \in [Devices -> Int]
    /\ lastT \in [Devices -> Int]
    /\ regs \in [Devices -> Register]

Nothing == [d \in Devices |-> 0]

SimInit ==
    /\ clock = Zero
    /\ up = FALSE
    /\ boot = 0
    /\ since = Zero
    /\ total = Nothing
    /\ lastT = Nothing
    /\ regs = [d \in Devices |-> [energy |-> 0, pass |-> Zero, boot |-> 0]]

Tick ==
    /\ clock.ticks < MaxTime
    /\ clock' = [clock EXCEPT !.ticks = @ + 1]
    /\ UNCHANGED <<up, boot, since, total, lastT, regs>>

\* Someone, or a time service, sets the wall clock.
SetClock ==
    /\ Times(clock) < MaxSteps
    /\ \/ clock' = [clock EXCEPT !.forth = @ + 1]
       \/ clock' = [clock EXCEPT !.back = @ + 1]
    /\ UNCHANGED <<up, boot, since, total, lastT, regs>>

\* A new process, whose first pass runs before the server accepts a
\* connection.
Starts(first) ==
    /\ ~up
    /\ boot < MaxBoots
    /\ up' = TRUE
    /\ boot' = boot + 1
    /\ since' = clock
    /\ total' = first
    /\ lastT' = [d \in Devices |-> now]
    /\ regs' = Readout(first, boot + 1)
    /\ UNCHANGED clock

\* Variant: a unit without a last time starts from the epoch.
BootFromEpoch ==
    \E power \in [Devices -> Powers] : Starts([d \in Devices |-> power[d] * now])

\* No unit has a last time: every total stays at zero.
Boot == Starts(Nothing)

\* Variant: the integrator adds the new energy to nothing.
ForgetfulAdd(d, power) == power * (now - lastT[d])

\* EnergyIntegrator.add(): the power of this pass, for the time since the last.
Add(d, power) == total[d] + power * (now - lastT[d])

\* ems_power() is never negative; DeviceValues has what it returns.
EmsPower == [Devices -> Powers]

\* One pass over all units, with one clock reading and without an await.
Refresh ==
    /\ up
    /\ \A d \in Devices : clock.ticks >= regs[d].pass.ticks + RefreshInterval
    /\ \E power \in EmsPower : total' = [d \in Devices |-> Add(d, power[d])]
    /\ lastT' = [d \in Devices |-> now]
    /\ regs' = Readout(total', boot)
    /\ UNCHANGED <<clock, up, boot, since>>

Crash ==
    /\ up
    /\ up' = FALSE
    /\ total' = Nothing
    /\ lastT' = Nothing
    /\ UNCHANGED <<clock, boot, since, regs>>

SimNext == Tick \/ SetClock \/ Boot \/ Refresh \/ Crash
SimSpec == SimInit /\ [][SimNext]_simVars

-------------------------------------------------------------------------------
\* One reading of the clocks is not after, or before, another.
UpTo(c, e)   == c.ticks <= e.ticks /\ c.forth <= e.forth /\ c.back <= e.back
Before(c, e) == UpTo(c, e) /\ c # e

MaxPower == CHOOSE p \in Powers : \A q \in Powers : q <= p

\* The counter never shows energy that could not have been used since the
\* start of the process, up to the resolution of the registers; a wall clock
\* that is set adds or takes no more than full power for the ticks it was set.
NoEnergyInvented ==
    \A d \in Devices :
        LET pass == regs[d].pass
            most  == Wall(pass) - Wall(since) + (pass.back - since.back)
            least == since.back - pass.back
        IN regs[d].boot = boot
           => /\ 2 * regs[d].energy <= 2 * MaxPower * most + Grid
              /\ 2 * regs[d].energy >= 2 * MaxPower * least - Grid
===============================================================================
