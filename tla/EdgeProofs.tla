------------------------------ MODULE EdgeProofs ------------------------------
(***************************************************************************)
(* Proofs about ModbusSimulator and EdgeStream, which extends it, for any  *)
(* number of machines, any powers and resolution of the registers, any     *)
(* interval, any number of restarts and messages, and every way of setting *)
(* the clock.                                                              *)
(***************************************************************************)
EXTENDS EdgeStream, SequenceTheorems, TLAPS

USE PowersAssumption, GridAssumption, TimeAssumption
    DEF PowersAssumption, GridAssumption, TimeAssumption

-------------------------------------------------------------------------------
(* Arithmetic.                                                             *)

LEMMA Division ==
    ASSUME NEW a \in Int, NEW n \in Nat \ {0}
    PROVE  a \div n \in Int /\ n * (a \div n) <= a /\ a < n * (a \div n) + n
OBVIOUS

LEMMA Multiple ==
    ASSUME NEW n \in Nat \ {0}, NEW k \in Int
    PROVE  (n * k) % n = 0
OBVIOUS

\* Rounding moves a total by at most half of the resolution.
LEMMA RoundedIsNear ==
    ASSUME NEW e \in Int
    PROVE  /\ Rounded(e) \in Energy
           /\ 2 * Rounded(e) <= 2 * e + Grid
           /\ 2 * Rounded(e) >= 2 * e - Grid
<1> DEFINE a == 2 * e + Grid
           n == 2 * Grid
           q == a \div n
<1>0. a \in Int /\ n \in Nat \ {0}
  OBVIOUS
<1> HIDE DEF a, n
<1>1. q \in Int /\ n * q <= a /\ a < n * q + n
  BY <1>0, Division
<1> USE DEF a, n
<1>2. Rounded(e) = Grid * q
  BY DEF Rounded
<1>3. (Grid * q) % Grid = 0
  BY <1>1, Multiple
<1> HIDE DEF q
<1>4. Grid * q \in Int /\ 2 * (Grid * q) = n * q
  BY <1>1
<1>5. QED
  BY <1>1, <1>2, <1>3, <1>4 DEF Energy

LEMMA RoundedIsMonotone ==
    ASSUME NEW e \in Int, NEW f \in Int, e <= f
    PROVE  Rounded(e) <= Rounded(f)
BY Division DEF Rounded

LEMMA MaxPowerIsMost ==
    MaxPower \in Nat /\ \A p \in Powers : p \in 0 .. MaxPower
<1>1. \E most \in Powers : \A p \in Powers : p <= most
  OBVIOUS
<1>2. MaxPower \in Powers /\ \A p \in Powers : p <= MaxPower
  BY <1>1 DEF MaxPower
<1>3. QED
  BY <1>2

\* Energy between two passes: full power for the time that passed, less or
\* more by what the clock was set back or forth.
LEMMA PowerTimesTime ==
    ASSUME NEW most \in Nat, NEW p \in 0 .. most,
           NEW x \in Int, NEW back \in Nat, NEW forth \in Nat, -back <= x, x <= forth
    PROVE  p * x \in Int /\ -(most * back) <= p * x /\ p * x <= most * forth
OBVIOUS

-------------------------------------------------------------------------------
(* The clocks.                                                             *)

LEMMA ClockTyping ==
    ASSUME NEW c \in Clock
    PROVE  /\ c.ticks \in Nat /\ c.forth \in Nat /\ c.back \in Nat
           /\ Wall(c) \in Int /\ Times(c) \in Nat
           /\ UpTo(c, c)
BY DEF Clock, Wall, Times, UpTo

LEMMA ZeroTyping ==
    Zero \in Clock
BY DEF Zero, Clock

LEMMA UpToTransitive ==
    ASSUME NEW a \in Clock, NEW b \in Clock, NEW c \in Clock, UpTo(a, b), UpTo(b, c)
    PROVE  UpTo(a, c)
BY DEF Clock, UpTo

\* The clocks only move on, and move in every step that moves them.
LEMMA ClockMoves ==
    ASSUME clock \in Clock, Tick \/ SetClock
    PROVE  clock' \in Clock /\ UpTo(clock, clock') /\ clock' # clock
<1>1. CASE Tick
  BY <1>1 DEF Tick, Clock, UpTo
<1>2. CASE SetClock
  BY <1>2 DEF SetClock, Clock, UpTo, Times
<1>3. QED
  BY <1>1, <1>2

-------------------------------------------------------------------------------
(* The inductive invariant.                                                *)

\* The clocks stand in the order of the events they were read at.
ClocksInOrder ==
    /\ UpTo(since, clock)
    /\ \A d \in Devices : UpTo(since, regs[d].pass) /\ UpTo(regs[d].pass, clock)

\* What a total may be: full power since the start of the process, with the
\* clock's settings in the machine's favour, or to its disadvantage.
Most(start, pass)  == MaxPower * ((pass.ticks - start.ticks) + (pass.forth - start.forth))
Least(start, pass) == -(MaxPower * (pass.back - start.back))
Possible(e, start, pass) == Least(start, pass) <= e /\ e <= Most(start, pass)

\* The integrator is where the last pass left it.
TotalsOfLastPass ==
    \A d \in Devices :
        /\ regs[d].boot = boot
        /\ up => /\ lastT[d] = Wall(regs[d].pass)
                 /\ regs[d].energy = Rounded(total[d])
                 /\ Possible(total[d], since, regs[d].pass)

SimInv == SimTypeOK /\ ClocksInOrder /\ TotalsOfLastPass /\ NoEnergyInvented

-------------------------------------------------------------------------------
(* What the invariant says of one total.                                   *)

LEMMA MostTyping ==
    ASSUME NEW start \in Clock, NEW pass \in Clock
    PROVE  Most(start, pass) \in Int /\ Least(start, pass) \in Int
BY MaxPowerIsMost, ClockTyping DEF Most, Least

LEMMA NothingPossible ==
    ASSUME NEW start \in Clock
    PROVE  Possible(0, start, start)
BY MaxPowerIsMost, ClockTyping DEF Possible, Most, Least

\* One more pass.
LEMMA MorePossible ==
    ASSUME NEW start \in Clock, NEW pass \in Clock, NEW c \in Clock, UpTo(pass, c),
           NEW e \in Int, Possible(e, start, pass),
           NEW p \in Powers
    PROVE  /\ e + p * (Wall(c) - Wall(pass)) \in Int
           /\ Possible(e + p * (Wall(c) - Wall(pass)), start, c)
<1> DEFINE x     == Wall(c) - Wall(pass)
           back  == c.back - pass.back
           forth == (c.ticks - pass.ticks) + (c.forth - pass.forth)
<1>1. /\ x \in Int /\ back \in Nat /\ forth \in Nat /\ -back <= x /\ x <= forth
      /\ MaxPower \in Nat /\ p \in 0 .. MaxPower
  BY MaxPowerIsMost, ClockTyping DEF UpTo, Wall
<1>2. p * x \in Int /\ -(MaxPower * back) <= p * x /\ p * x <= MaxPower * forth
  <2> HIDE DEF x, back, forth
  <2> QED
    BY <1>1, PowerTimesTime
<1>3. /\ Most(start, c) = Most(start, pass) + MaxPower * forth
      /\ Least(start, c) = Least(start, pass) - MaxPower * back
  BY <1>1, ClockTyping DEF Most, Least
<1>4. /\ Most(start, pass) \in Int /\ Least(start, pass) \in Int
      /\ MaxPower * forth \in Int /\ MaxPower * back \in Int
  BY <1>1, MostTyping
<1> HIDE DEF x, back, forth
<1>5. e + p * x \in Int /\ Possible(e + p * x, start, c)
  BY <1>2, <1>3, <1>4 DEF Possible
<1>6. QED
  BY <1>5 DEF x

\* Rounding stays within what NoEnergyInvented allows.
LEMMA PossibleNotInvented ==
    ASSUME NEW start \in Clock, NEW pass \in Clock,
           NEW e \in Int, Possible(e, start, pass)
    PROVE  /\ 2 * Rounded(e) <=
                  2 * MaxPower * (Wall(pass) - Wall(start) + (pass.back - start.back)) + Grid
           /\ 2 * Rounded(e) >= 2 * MaxPower * (start.back - pass.back) - Grid
<1> DEFINE most  == Wall(pass) - Wall(start) + (pass.back - start.back)
           least == start.back - pass.back
<1>1. most \in Int /\ least \in Int /\ MaxPower \in Nat
  BY MaxPowerIsMost, ClockTyping
<1>2. most = (pass.ticks - start.ticks) + (pass.forth - start.forth)
  BY DEF Wall, Clock
<1>3. least = -(pass.back - start.back)
  BY ClockTyping
<1>4. MaxPower * least = Least(start, pass)
  BY <1>1, <1>3, ClockTyping DEF Least
<1>5. MaxPower * most = Most(start, pass)
  BY <1>2 DEF Most
<1> HIDE DEF most, least
<1>6. MaxPower * least <= e /\ e <= MaxPower * most
  BY <1>4, <1>5 DEF Possible
<1>7. Rounded(e) \in Int /\ 2 * Rounded(e) <= 2 * e + Grid /\ 2 * Rounded(e) >= 2 * e - Grid
  BY RoundedIsNear DEF Energy
<1>8. 2 * Rounded(e) <= 2 * MaxPower * most + Grid /\ 2 * Rounded(e) >= 2 * MaxPower * least - Grid
  BY <1>1, <1>6, <1>7
<1>9. QED
  BY <1>8 DEF most, least

LEMMA RegisterTyping ==
    ASSUME SimTypeOK, NEW d \in Devices
    PROVE  /\ regs[d].energy \in Energy /\ regs[d].energy \in Int
           /\ regs[d].pass \in Clock /\ regs[d].boot \in 0 .. MaxBoots
           /\ total[d] \in Int /\ lastT[d] \in Int
BY DEF SimTypeOK, Register, Energy

LEMMA SimInitially ==
    ASSUME SimInit
    PROVE  SimInv
<1>1. 0 \in Energy
  BY Multiple DEF Energy
<1>2. regs \in [Devices -> Register] /\ 0 \in 0 .. MaxBoots
  BY <1>1, ZeroTyping DEF SimInit, Register
<1>3. Nothing \in [Devices -> Int]
  BY DEF Nothing
<1>4. SimTypeOK
  BY <1>2, <1>3, ZeroTyping DEF SimInit, SimTypeOK
<1>5. ClocksInOrder
  BY DEF SimInit, ClocksInOrder, UpTo, Zero
<1>6. TotalsOfLastPass
  BY DEF SimInit, TotalsOfLastPass
<1>7. Rounded(0) = 0
  BY Division DEF Rounded
<1>8. \A d \in Devices : regs[d].pass = Zero /\ since = Zero /\ regs[d].energy = Rounded(0)
  BY <1>7 DEF SimInit
<1>9. NoEnergyInvented
  BY <1>8, ZeroTyping, NothingPossible, PossibleNotInvented DEF NoEnergyInvented
<1>10. QED
  BY <1>4, <1>5, <1>6, <1>9 DEF SimInv

-------------------------------------------------------------------------------
(* The steps.                                                              *)

LEMMA ReadoutTyping ==
    ASSUME SimTypeOK, NEW energy \in [Devices -> Int], NEW starts \in 0 .. MaxBoots
    PROVE  /\ Readout(energy, starts) \in [Devices -> Register]
           /\ \A d \in Devices :
                  /\ Readout(energy, starts)[d].energy = Rounded(energy[d])
                  /\ Readout(energy, starts)[d].pass = clock
                  /\ Readout(energy, starts)[d].boot = starts
<1>1. \A d \in Devices : Rounded(energy[d]) \in Energy
  BY RoundedIsNear
<1>2. QED
  BY <1>1 DEF Readout, Register, SimTypeOK

LEMMA ClockStep ==
    ASSUME SimInv, Tick \/ SetClock
    PROVE  SimInv'
<1>1. UNCHANGED <<up, boot, since, total, lastT, regs>>
  BY DEF Tick, SetClock
<1>2. clock \in Clock /\ since \in Clock /\ \A d \in Devices : regs[d].pass \in Clock
  BY RegisterTyping DEF SimInv, SimTypeOK
<1>3. clock' \in Clock /\ UpTo(clock, clock')
  BY <1>2, ClockMoves
<1>4. SimTypeOK'
  BY <1>1, <1>3 DEF SimInv, SimTypeOK
<1>5. ClocksInOrder'
  BY <1>1, <1>2, <1>3, UpToTransitive DEF SimInv, ClocksInOrder
<1>6. TotalsOfLastPass' /\ NoEnergyInvented'
  BY <1>1 DEF SimInv, TotalsOfLastPass, NoEnergyInvented
<1>7. QED
  BY <1>4, <1>5, <1>6 DEF SimInv

LEMMA BootStep ==
    ASSUME SimInv, Boot
    PROVE  SimInv'
<1>1. clock \in Clock /\ boot + 1 \in 0 .. MaxBoots /\ now \in Int
  BY ClockTyping DEF SimInv, SimTypeOK, Boot, Starts, now
<1>2. Nothing \in [Devices -> Int] /\ \A d \in Devices : Nothing[d] = 0
  BY DEF Nothing
<1>3. /\ clock' = clock /\ since' = clock /\ up' = TRUE /\ boot' = boot + 1
      /\ total' = Nothing /\ lastT' = [d \in Devices |-> now]
      /\ regs' = Readout(Nothing, boot + 1)
  BY DEF Boot, Starts
<1>4. /\ regs' \in [Devices -> Register]
      /\ \A d \in Devices : /\ regs'[d].energy = Rounded(0)
                            /\ regs'[d].pass = clock
                            /\ regs'[d].boot = boot + 1
  BY <1>1, <1>2, <1>3, ReadoutTyping DEF SimInv
<1>5. SimTypeOK'
  BY <1>1, <1>2, <1>3, <1>4 DEF SimTypeOK
<1>6. ClocksInOrder'
  BY <1>1, <1>3, <1>4, ClockTyping DEF ClocksInOrder
<1>7. TotalsOfLastPass'
  BY <1>1, <1>2, <1>3, <1>4, NothingPossible DEF TotalsOfLastPass, now
<1>8. NoEnergyInvented'
  BY <1>1, <1>3, <1>4, NothingPossible, PossibleNotInvented DEF NoEnergyInvented
<1>9. QED
  BY <1>5, <1>6, <1>7, <1>8 DEF SimInv

LEMMA RefreshStep ==
    ASSUME SimInv, Refresh
    PROVE  SimInv'
<1>1. SimTypeOK /\ clock \in Clock /\ since \in Clock /\ boot \in 0 .. MaxBoots /\ now \in Int
  BY ClockTyping DEF SimInv, SimTypeOK, now
<1>2. PICK power \in EmsPower : total' = [d \in Devices |-> Add(d, power[d])]
  BY DEF Refresh
<1>3. /\ UNCHANGED <<clock, up, boot, since>> /\ up
      /\ lastT' = [d \in Devices |-> now] /\ regs' = Readout(total', boot)
  BY DEF Refresh
<1>4. ASSUME NEW d \in Devices
      PROVE  total'[d] \in Int /\ Possible(total'[d], since, clock)
  <2>1. /\ lastT[d] = Wall(regs[d].pass) /\ Possible(total[d], since, regs[d].pass)
        /\ UpTo(regs[d].pass, clock) /\ regs[d].pass \in Clock /\ total[d] \in Int
    BY <1>1, <1>3, RegisterTyping DEF SimInv, TotalsOfLastPass, ClocksInOrder
  <2>2. power[d] \in Powers
    BY <1>2 DEF EmsPower
  <2>3. total'[d] = total[d] + power[d] * (Wall(clock) - Wall(regs[d].pass))
    BY <1>2, <2>1 DEF Add, now
  <2>4. LET e == total[d] + power[d] * (Wall(clock) - Wall(regs[d].pass))
        IN e \in Int /\ Possible(e, since, clock)
    BY <1>1, <2>1, <2>2, MorePossible
  <2>5. QED
    BY <2>3, <2>4
<1>5. total' \in [Devices -> Int]
  BY <1>2, <1>4
<1>6. /\ regs' \in [Devices -> Register]
      /\ \A d \in Devices : /\ regs'[d].energy = Rounded(total'[d])
                            /\ regs'[d].pass = clock
                            /\ regs'[d].boot = boot
  BY <1>1, <1>3, <1>5, ReadoutTyping
<1>7. SimTypeOK'
  BY <1>1, <1>3, <1>5, <1>6 DEF SimTypeOK
<1>8. ClocksInOrder'
  BY <1>1, <1>3, <1>6, ClockTyping DEF SimInv, ClocksInOrder
<1>9. TotalsOfLastPass'
  BY <1>3, <1>4, <1>6 DEF TotalsOfLastPass, now
<1>10. NoEnergyInvented'
  BY <1>1, <1>3, <1>4, <1>6, PossibleNotInvented DEF NoEnergyInvented
<1>11. QED
  BY <1>7, <1>8, <1>9, <1>10 DEF SimInv

LEMMA CrashStep ==
    ASSUME SimInv, Crash
    PROVE  SimInv'
<1>1. Nothing \in [Devices -> Int]
  BY DEF Nothing
<1>2. SimTypeOK'
  BY <1>1 DEF Crash, SimInv, SimTypeOK
<1>3. ClocksInOrder' /\ TotalsOfLastPass' /\ NoEnergyInvented'
  BY DEF Crash, SimInv, ClocksInOrder, TotalsOfLastPass, NoEnergyInvented
<1>4. QED
  BY <1>2, <1>3 DEF SimInv

LEMMA SimInductive ==
    ASSUME SimInv, [SimNext]_simVars
    PROVE  SimInv'
<1>1. CASE UNCHANGED simVars
  BY <1>1 DEF simVars, SimInv, SimTypeOK, ClocksInOrder, TotalsOfLastPass, NoEnergyInvented
<1>2. QED
  BY <1>1, ClockStep, BootStep, RefreshStep, CrashStep DEF SimNext

\* Registers are those of a later pass or the same ones; within one process
\* and one setting of the clock the energy in them only grows.
RegistersMove(d) ==
    /\ UpTo(regs[d].pass, regs'[d].pass)
    /\ boot' = boot =>
           \/ regs'[d] = regs[d]
           \/ /\ regs[d].pass.ticks < regs'[d].pass.ticks
              /\ Times(regs[d].pass) = Times(regs'[d].pass)
                     => regs[d].energy <= regs'[d].energy

LEMMA SimMoves ==
    ASSUME SimInv, SimNext
    PROVE  /\ clock' \in Clock /\ UpTo(clock, clock')
           /\ boot <= boot'
           /\ \A d \in Devices : RegistersMove(d)
<1>1. SimTypeOK /\ clock \in Clock /\ boot \in Nat
  BY DEF SimInv, SimTypeOK
<1>2. \A d \in Devices : /\ UpTo(regs[d].pass, regs[d].pass)
                         /\ UpTo(regs[d].pass, clock)
                         /\ regs[d].pass \in Clock
  BY <1>1, RegisterTyping, ClockTyping DEF SimInv, ClocksInOrder
<1>3. CASE Tick \/ SetClock
  <2>1. UNCHANGED <<boot, regs>>
    BY <1>3 DEF Tick, SetClock
  <2>2. QED
    BY <1>1, <1>2, <1>3, <2>1, ClockMoves DEF RegistersMove
<1>4. CASE Boot
  <2>1. clock' = clock /\ boot' = boot + 1 /\ \A d \in Devices : regs'[d].pass = clock
    BY <1>4 DEF Boot, Starts, Readout
  <2>2. QED
    BY <1>1, <1>2, <2>1, ClockTyping DEF RegistersMove
<1>5. CASE Crash
  BY <1>1, <1>2, <1>5, ClockTyping DEF Crash, RegistersMove
<1>6. CASE Refresh
  <2>1. PICK power \in EmsPower : total' = [d \in Devices |-> Add(d, power[d])]
    BY <1>6 DEF Refresh
  <2>2. /\ UNCHANGED <<clock, boot>> /\ up
        /\ regs' = [d \in Devices |->
                      [energy |-> Rounded(total'[d]), pass |-> clock, boot |-> boot]]
    BY <1>6 DEF Refresh, Readout
  <2>3. ASSUME NEW d \in Devices
        PROVE  RegistersMove(d)
    <3>1. /\ lastT[d] = Wall(regs[d].pass) /\ regs[d].energy = Rounded(total[d])
          /\ UpTo(regs[d].pass, clock) /\ regs[d].pass \in Clock /\ total[d] \in Int
      BY <1>1, <1>2, <2>2, RegisterTyping DEF SimInv, TotalsOfLastPass
    <3>2. regs[d].pass.ticks + RefreshInterval <= clock.ticks
      BY <1>1, <3>1, <1>6 DEF Refresh
    <3>3. /\ regs'[d].pass = clock /\ regs'[d].energy = Rounded(total'[d])
          /\ total'[d] = total[d] + power[d] * (Wall(clock) - Wall(regs[d].pass))
      BY <2>1, <2>2, <3>1 DEF Add, now
    <3>4. ASSUME Times(regs[d].pass) = Times(clock)
          PROVE  regs[d].energy <= regs'[d].energy
      <4> DEFINE x == Wall(clock) - Wall(regs[d].pass)
      <4>1. x \in Nat
        BY <1>1, <3>1, <3>4 DEF UpTo, Times, Wall, Clock
      <4>2. power[d] \in Nat
        BY <2>1 DEF EmsPower
      <4> HIDE DEF x
      <4>3. power[d] * x \in Nat
        BY <4>1, <4>2
      <4>4. total'[d] = total[d] + power[d] * x
        BY <3>3 DEF x
      <4>5. total'[d] \in Int /\ total[d] <= total'[d]
        BY <3>1, <4>3, <4>4
      <4>6. QED
        BY <3>1, <3>3, <4>5, RoundedIsMonotone
    <3>5. regs[d].pass.ticks < clock.ticks
      BY <1>1, <3>1, <3>2, ClockTyping
    <3>6. QED
      BY <3>1, <3>3, <3>4, <3>5 DEF RegistersMove
  <2>4. QED
    BY <1>1, <2>2, <2>3, ClockTyping
<1>7. QED
  BY <1>3, <1>4, <1>5, <1>6 DEF SimNext

\* The invariant of the simulator: registers and totals are what one process
\* may have counted since it started, and the clocks stand in order.
THEOREM SimulatorInvariant == SimSpec => []SimInv
BY SimInitially, SimInductive, PTL DEF SimSpec

\* The counter never shows energy that could not have been used.
THEOREM SimulatorInventsNothing == SimSpec => []NoEnergyInvented
<1>1. SimInv => NoEnergyInvented
  BY DEF SimInv
<1>2. QED
  BY <1>1, SimulatorInvariant, PTL

USE TimeAssumption, GatewayAssumption DEF TimeAssumption, GatewayAssumption

-------------------------------------------------------------------------------
(* The edge is the simulator and more.                                     *)

LEMMA EdgeStepSimulates ==
    ASSUME [Next]_vars
    PROVE  [SimNext]_simVars
BY DEF Next, vars, GatewayStarts, GatewayCrashes, PollStarts, PollSucceeds, PollFails,
       Send, Resend, Expire

\* A gateway does not disturb the simulator: what holds of it alone holds here.
THEOREM EdgeSimulates == Spec => SimSpec
<1>1. Init => SimInit
  BY DEF Init
<1>2. QED
  BY <1>1, EdgeStepSimulates, PTL DEF Spec, SimSpec

\* The counter never shows energy that could not have been used since the
\* start of the process (EnergyIntegrator.add).
THEOREM NothingInvented == Spec => []NoEnergyInvented
BY EdgeSimulates, SimulatorInventsNothing, PTL

-------------------------------------------------------------------------------
(* The inductive invariant.                                                *)

\* The messages under way or in the topic, copies not told apart.
Original(m) == [m EXCEPT !.again = FALSE]
Tried       == unacked \cup {log[i] : i \in DOMAIN log}
Messages    == {Original(m) : m \in Tried \cup {fresh[i] : i \in DOMAIN fresh}}

\* What a message says was in the registers of its machine at some time up
\* to now.
Known(m) ==
    /\ m.ts = Wall(m.start)
    /\ UpTo(m.start, clock)
    /\ UpTo(m.pass, regs[m.dev].pass)
    /\ m.boot <= boot
    /\ m.gateway <= gateway
    /\ m.boot = boot =>
           /\ m.pass.ticks = regs[m.dev].pass.ticks => m.energy = regs[m.dev].energy
           /\ Times(m.pass) = Times(regs[m.dev].pass) => m.energy <= regs[m.dev].energy

AllKnown == \A m \in Messages : Known(m)

\* Two readings of one machine: the later poll found the registers of no
\* earlier pass, a later pass of one process no less energy unless the clock
\* was set, and one gateway polls no more than once in an interval.
Agree(m, n) ==
    /\ UpTo(m.start, n.start) \/ UpTo(n.start, m.start)
    /\ m.start.ticks < n.start.ticks => m.pass.ticks <= n.pass.ticks
    /\ (m.boot = n.boot /\ m.pass.ticks <= n.pass.ticks /\ Times(m.pass) = Times(n.pass))
           => m.energy <= n.energy
    /\ (/\ m.gateway = n.gateway
        /\ Times(m.start) = Times(n.start) /\ m.start.ticks <= n.start.ticks)
           => \/ m.start.ticks + Interval <= n.start.ticks
              \/ m.start = n.start /\ m.energy = n.energy

AllAgree == \A m, n \in Messages : m.dev = n.dev => Agree(m, n)

\* A task that reads began after every reading of its machine, and an
\* interval after those of this gateway.
ReadsInTurn ==
    \A d \in Devices : task[d] = "read" =>
        /\ UpTo(started[d], clock)
        /\ \A m \in Messages : m.dev = d =>
               /\ UpTo(m.start, started[d])
               /\ (m.gateway = gateway /\ Times(m.start) = Times(started[d]))
                      => m.start.ticks + Interval <= started[d].ticks

\* A task that sleeps wakes an interval after its last reading.
SleepsInTurn ==
    \A d \in Devices : task[d] = "sleep" =>
        \A m \in Messages :
            (m.dev = d /\ m.gateway = gateway /\ Times(m.start) = Times(clock))
                => m.start.ticks + Interval <= wake[d]

\* What the producer has not tried yet is of this gateway, in the order of
\* the polls, and behind everything that was tried.
FreshIsLatest ==
    /\ Running \/ fresh = <<>>
    /\ \A i \in DOMAIN fresh :
           /\ fresh[i].gateway = gateway
           /\ \A m \in Tried : SameStream(m, fresh[i]) => Before(m.start, fresh[i].start)
           /\ \A j \in DOMAIN fresh :
                  (i < j /\ fresh[i].dev = fresh[j].dev) => Before(fresh[i].start, fresh[j].start)

EdgeInv ==
    /\ EdgeTypeOK /\ SimInv /\ PaceKept
    /\ AllKnown /\ AllAgree
    /\ ReadsInTurn /\ SleepsInTurn
    /\ FreshIsLatest /\ DisorderIsRetry

-------------------------------------------------------------------------------
(* What the parts are made of.                                             *)

LEMMA MessageTyping ==
    ASSUME NEW m \in Message
    PROVE  /\ m.dev \in Devices /\ m.ts \in Int /\ m.energy \in Int
           /\ m.start \in Clock /\ m.pass \in Clock
           /\ m.boot \in Nat /\ m.gateway \in Nat
BY DEF Message, Energy

LEMMA OriginalOf ==
    ASSUME NEW m \in Message
    PROVE  LET o == Original(m)
           IN /\ o \in Message /\ o.dev = m.dev /\ o.ts = m.ts /\ o.energy = m.energy
              /\ o.start = m.start /\ o.pass = m.pass
              /\ o.boot = m.boot /\ o.gateway = m.gateway
BY DEF Message, Original

LEMMA NotACopy ==
    ASSUME NEW m \in Message, m.again = FALSE
    PROVE  Original(m) = m
BY DEF Message, Original

LEMMA CopyOf ==
    ASSUME NEW m \in Message
    PROVE  LET c == [m EXCEPT !.again = TRUE]
           IN c \in Message /\ c.again /\ Original(c) = Original(m)
BY DEF Message, Original

LEMMA MessagesTyping ==
    ASSUME EdgeTypeOK
    PROVE  /\ \A i \in DOMAIN fresh : fresh[i] \in Message
           /\ \A i \in DOMAIN log : log[i] \in Message
           /\ \A m \in unacked : m \in Message
           /\ Messages \subseteq Message
<1>1. /\ \A i \in DOMAIN fresh : fresh[i] \in Message
      /\ \A i \in DOMAIN log : log[i] \in Message
      /\ \A m \in unacked : m \in Message
  BY ElementOfSeq, LenProperties DEF EdgeTypeOK
<1>2. QED
  BY <1>1, OriginalOf DEF Messages, Tried

\* A message in the topic is one of Messages but for the mark of a copy.
LEMMA LogIsMessages ==
    ASSUME EdgeTypeOK, NEW i \in DOMAIN log
    PROVE  /\ Original(log[i]) \in Messages
           /\ Original(log[i]).dev = log[i].dev /\ Original(log[i]).energy = log[i].energy
           /\ Original(log[i]).ts = log[i].ts /\ Original(log[i]).start = log[i].start
           /\ Original(log[i]).pass = log[i].pass /\ Original(log[i]).boot = log[i].boot
           /\ Original(log[i]).gateway = log[i].gateway
BY MessagesTyping, OriginalOf DEF Messages, Tried

LEMMA StateTyping ==
    ASSUME EdgeTypeOK
    PROVE  /\ clock \in Clock /\ gateway \in Nat
           /\ \A d \in Devices : started[d] \in Clock /\ wake[d] \in Nat
BY DEF EdgeTypeOK, SimTypeOK

\* How long a task sleeps: it wakes an interval after its poll began, unless
\* the clock was set, and even then after an interval and what it was set back.
LEMMA SleepBounds ==
    ASSUME NEW s \in Clock, NEW c \in Clock, UpTo(s, c)
    PROVE  LET pause == Interval - (Wall(c) - Wall(s))
               w     == c.ticks + (IF pause > 0 THEN pause ELSE 0)
           IN /\ w \in 0 .. MaxTime + Interval + MaxSteps
              /\ c.ticks <= w /\ w <= c.ticks + Interval + c.back
              /\ Times(s) = Times(c) => s.ticks + Interval <= w
BY DEF Clock, UpTo, Wall, Times

\* Two settings of the clock that were counted alike are the same.
LEMMA SameTimes ==
    ASSUME NEW a \in Clock, NEW b \in Clock, NEW c \in Clock,
           UpTo(a, b), UpTo(b, c), Times(a) = Times(c)
    PROVE  Times(a) = Times(b) /\ Times(b) = Times(c)
BY DEF Clock, UpTo, Times

LEMMA SetAlike ==
    ASSUME NEW a \in Clock, NEW b \in Clock, UpTo(a, b) \/ UpTo(b, a),
           Times(a) = Times(b), Wall(a) <= Wall(b)
    PROVE  a.forth = b.forth /\ a.back = b.back /\ a.ticks <= b.ticks
BY DEF Clock, UpTo, Times, Wall

LEMMA EdgeInitially ==
    ASSUME Init
    PROVE  EdgeInv
<1>1. SimInv
  BY SimInitially DEF Init
<1>2. <<>> \in Seq(Message)
  BY EmptySeq
<1>3. EdgeTypeOK
  BY <1>1, <1>2, ZeroTyping DEF Init, EdgeTypeOK, SimInv
<1>4. Messages = {}
  BY DEF Init, Messages, Tried
<1>5. AllKnown /\ AllAgree /\ ReadsInTurn /\ SleepsInTurn /\ PaceKept
  BY <1>4 DEF Init, AllKnown, AllAgree, ReadsInTurn, SleepsInTurn, PaceKept
<1>6. FreshIsLatest /\ DisorderIsRetry
  BY DEF Init, FreshIsLatest, DisorderIsRetry
<1>7. QED
  BY <1>1, <1>3, <1>5, <1>6 DEF EdgeInv

-------------------------------------------------------------------------------
(* A step of the simulator or of the clocks.                               *)

LEMMA KnownStays ==
    ASSUME EdgeTypeOK, SimInv, SimNext, NEW m \in Message, Known(m), gateway' = gateway
    PROVE  Known(m)'
<1> DEFINE r == regs[m.dev]
<1>1. /\ m.start \in Clock /\ m.pass \in Clock /\ m.dev \in Devices
      /\ m.boot \in Nat /\ m.energy \in Int
  BY MessageTyping
<1>2. SimTypeOK /\ clock \in Clock /\ boot \in Nat /\ SimInv'
  BY SimInductive DEF SimInv, SimTypeOK
<1>3. clock' \in Clock /\ UpTo(clock, clock') /\ boot <= boot' /\ RegistersMove(m.dev)
  BY <1>1, SimMoves
<1>4. r.pass \in Clock /\ r.energy \in Int /\ r'.pass \in Clock /\ r'.energy \in Int /\ boot' \in Nat
  BY <1>1, <1>2, RegisterTyping DEF SimInv, SimTypeOK, Register, Energy
<1>5. UpTo(m.start, clock') /\ UpTo(m.pass, r'.pass)
  BY <1>1, <1>2, <1>3, <1>4, UpToTransitive DEF Known, RegistersMove
<1>6. m.boot <= boot'
  BY <1>1, <1>2, <1>3, <1>4 DEF Known
<1>7. ASSUME m.boot = boot'
      PROVE  /\ m.pass.ticks = r'.pass.ticks => m.energy = r'.energy
             /\ Times(m.pass) = Times(r'.pass) => m.energy <= r'.energy
  <2>1. m.boot = boot /\ boot' = boot
    BY <1>1, <1>2, <1>3, <1>4, <1>7 DEF Known
  <2>2. /\ m.pass.ticks = r.pass.ticks => m.energy = r.energy
        /\ Times(m.pass) = Times(r.pass) => m.energy <= r.energy
        /\ UpTo(m.pass, r.pass)
    BY <2>1 DEF Known
  <2>3. CASE r' = r
    BY <2>2, <2>3
  <2>4. CASE r' # r
    <3>1. /\ r.pass.ticks < r'.pass.ticks /\ UpTo(r.pass, r'.pass)
          /\ Times(r.pass) = Times(r'.pass) => r.energy <= r'.energy
      BY <1>3, <2>1, <2>4 DEF RegistersMove
    <3>2. m.pass.ticks < r'.pass.ticks
      BY <1>1, <1>4, <2>2, <3>1, ClockTyping DEF UpTo
    <3>3. ASSUME Times(m.pass) = Times(r'.pass)
          PROVE  m.energy <= r'.energy
      <4>1. Times(m.pass) = Times(r.pass) /\ Times(r.pass) = Times(r'.pass)
        BY <1>1, <1>4, <2>2, <3>1, <3>3, SameTimes
      <4>2. QED
        BY <1>1, <1>4, <2>2, <3>1, <4>1
    <3>4. QED
      BY <1>1, <1>4, <3>2, <3>3, ClockTyping
  <2>5. QED
    BY <2>3, <2>4
<1>8. QED
  BY <1>5, <1>6, <1>7 DEF Known

LEMMA EdgeSimStep ==
    ASSUME EdgeInv, SimNext, UNCHANGED gwVars
    PROVE  EdgeInv'
<1>1. EdgeTypeOK /\ SimInv /\ SimInv' /\ SimTypeOK'
  BY SimInductive DEF EdgeInv, SimInv
<1>2. /\ UNCHANGED <<gateway, task, started, wake, fresh, unacked, log>>
      /\ Messages' = Messages
  BY DEF gwVars, Messages, Tried, Original
<1>3. clock \in Clock /\ clock' \in Clock /\ UpTo(clock, clock')
  BY <1>1, StateTyping, SimMoves
<1>4. EdgeTypeOK'
  BY <1>1, <1>2 DEF EdgeTypeOK
<1>5. AllKnown'
  BY <1>1, <1>2, KnownStays, MessagesTyping DEF EdgeInv, AllKnown
<1>6. AllAgree'
  BY <1>2 DEF EdgeInv, AllAgree
<1>7. PaceKept'
  <2>1. clock.ticks <= clock'.ticks /\ clock.back <= clock'.back
    BY <1>3 DEF UpTo
  <2>2. QED
    BY <1>1, <1>2, <1>3, <2>1, ClockTyping, StateTyping DEF EdgeInv, PaceKept
<1>8. ReadsInTurn'
  BY <1>1, <1>2, <1>3, StateTyping, UpToTransitive DEF EdgeInv, ReadsInTurn
<1>9. SleepsInTurn'
  <2>1. ASSUME NEW m \in Messages, Times(m.start) = Times(clock')
        PROVE  Times(m.start) = Times(clock)
    <3>1. m.start \in Clock /\ UpTo(m.start, clock)
      BY <1>1, MessagesTyping, MessageTyping DEF EdgeInv, AllKnown, Known
    <3>2. QED
      BY <1>3, <2>1, <3>1, SameTimes
  <2>2. QED
    BY <1>2, <2>1 DEF EdgeInv, SleepsInTurn
<1>10. FreshIsLatest' /\ DisorderIsRetry'
  BY <1>2 DEF EdgeInv, FreshIsLatest, DisorderIsRetry, Tried, Running
<1>11. QED
  BY <1>1, <1>4, <1>5, <1>6, <1>7, <1>8, <1>9, <1>10 DEF EdgeInv

-------------------------------------------------------------------------------
(* The steps of the gateway, the producer and the broker.                  *)

\* A step that neither disturbs the simulator nor brings a new reading keeps
\* what is said of the messages alone.
LEMMA NoNewReading ==
    ASSUME EdgeInv, UNCHANGED simVars, Messages' \subseteq Messages, gateway' \in {gateway, gateway + 1}
    PROVE  SimInv' /\ AllKnown' /\ AllAgree'
<1>1. UNCHANGED <<clock, up, boot, since, total, lastT, regs>>
  BY DEF simVars
<1>2. SimInv'
  BY <1>1 DEF EdgeInv, SimInv, SimTypeOK, ClocksInOrder, TotalsOfLastPass, NoEnergyInvented
<1>3. AllAgree'
  BY DEF EdgeInv, AllAgree
<1>4. AllKnown'
  <2>1. \A m \in Messages : m.gateway \in Nat /\ gateway \in Nat
    BY MessagesTyping, MessageTyping, StateTyping DEF EdgeInv
  <2>2. ASSUME NEW m \in Messages
        PROVE  Known(m)'
    <3>1. Known(m) /\ m.gateway <= gateway
      BY DEF EdgeInv, AllKnown, Known
    <3>2. m.gateway <= gateway'
      BY <2>1, <3>1
    <3>3. QED
      BY <1>1, <3>1, <3>2 DEF Known
  <2>3. QED
    BY <2>2 DEF AllKnown
<1>5. QED
  BY <1>2, <1>3, <1>4

LEMMA GatewayStartsStep ==
    ASSUME EdgeInv, GatewayStarts
    PROVE  EdgeInv'
<1>1. EdgeTypeOK /\ clock \in Clock /\ gateway \in Nat
  BY StateTyping DEF EdgeInv
<1>2. /\ UNCHANGED <<simVars, clock, started, fresh, unacked, log>> /\ gateway' = gateway + 1
      /\ task' = [d \in Devices |-> "sleep"] /\ wake' = [d \in Devices |-> clock.ticks]
  BY DEF GatewayStarts, simVars
<1>3. Messages' = Messages
  BY <1>2 DEF Messages, Tried, Original
<1>4. SimInv' /\ AllKnown' /\ AllAgree'
  BY <1>2, <1>3, NoNewReading
<1>5. gateway' \in 0 .. MaxGateway /\ clock.ticks \in 0 .. MaxTime + Interval + MaxSteps
  BY <1>1 DEF GatewayStarts, EdgeTypeOK, Clock
<1>6. EdgeTypeOK'
  BY <1>1, <1>2, <1>4, <1>5 DEF EdgeTypeOK, SimInv
<1>7. PaceKept'
  BY <1>1, <1>2, ClockTyping DEF PaceKept
<1>8. ReadsInTurn'
  BY <1>2 DEF ReadsInTurn
<1>9. \A m \in Messages : m.gateway # gateway'
  BY <1>1, <1>2, MessagesTyping, MessageTyping DEF EdgeInv, AllKnown, Known
<1>10. SleepsInTurn'
  BY <1>3, <1>9 DEF SleepsInTurn
<1>11. fresh = <<>>
  BY DEF GatewayStarts, EdgeInv, FreshIsLatest
<1>12. FreshIsLatest' /\ DisorderIsRetry'
  BY <1>2, <1>11 DEF EdgeInv, FreshIsLatest, DisorderIsRetry
<1>13. QED
  BY <1>4, <1>6, <1>7, <1>8, <1>10, <1>12 DEF EdgeInv

LEMMA GatewayCrashesStep ==
    ASSUME EdgeInv, GatewayCrashes
    PROVE  EdgeInv'
<1>1. /\ UNCHANGED <<simVars, clock, gateway, log>>
      /\ task' = [d \in Devices |-> "down"] /\ started' = [d \in Devices |-> Zero]
      /\ wake' = [d \in Devices |-> 0] /\ fresh' = <<>> /\ unacked' = {}
  BY DEF GatewayCrashes, simVars
<1>2. Messages' \subseteq Messages
  BY <1>1 DEF Messages, Tried, Original
<1>3. SimInv' /\ AllKnown' /\ AllAgree'
  BY <1>1, <1>2, NoNewReading
<1>4. <<>> \in Seq(Message)
  BY EmptySeq
<1>5. EdgeTypeOK'
  BY <1>1, <1>3, <1>4, ZeroTyping DEF EdgeInv, EdgeTypeOK, SimInv
<1>6. PaceKept' /\ ReadsInTurn' /\ SleepsInTurn'
  BY <1>1 DEF PaceKept, ReadsInTurn, SleepsInTurn
<1>7. FreshIsLatest' /\ DisorderIsRetry'
  BY <1>1 DEF EdgeInv, FreshIsLatest, DisorderIsRetry
<1>8. QED
  BY <1>3, <1>5, <1>6, <1>7 DEF EdgeInv

LEMMA PollStartsStep ==
    ASSUME EdgeInv, NEW d \in Devices, PollStarts(d)
    PROVE  EdgeInv'
<1>1. EdgeTypeOK /\ clock \in Clock
  BY StateTyping DEF EdgeInv
<1>2. /\ UNCHANGED <<simVars, clock, gateway, fresh, unacked, log>>
      /\ task[d] = "sleep" /\ clock.ticks >= wake[d]
      /\ task' = [task EXCEPT ![d] = "read"] /\ started' = [started EXCEPT ![d] = clock]
      /\ wake' = [wake EXCEPT ![d] = 0]
  BY DEF PollStarts, simVars
<1>3. Messages' = Messages
  BY <1>2 DEF Messages, Tried, Original
<1>4. SimInv' /\ AllKnown' /\ AllAgree'
  BY <1>2, <1>3, NoNewReading
<1>5. EdgeTypeOK'
  BY <1>1, <1>2, <1>4 DEF EdgeTypeOK, SimInv
<1>6. \A e \in Devices \ {d} :
          task'[e] = task[e] /\ started'[e] = started[e] /\ wake'[e] = wake[e]
  BY <1>1, <1>2 DEF EdgeTypeOK
<1>7. task'[d] = "read" /\ started'[d] = clock
  BY <1>1, <1>2 DEF EdgeTypeOK
<1>8. PaceKept'
  BY <1>2, <1>6, <1>7 DEF EdgeInv, PaceKept
<1>9. SleepsInTurn'
  BY <1>2, <1>3, <1>6, <1>7 DEF EdgeInv, SleepsInTurn
<1>10. ASSUME NEW m \in Messages, m.dev = d
       PROVE  /\ UpTo(m.start, clock)
              /\ (m.gateway = gateway /\ Times(m.start) = Times(clock))
                     => m.start.ticks + Interval <= clock.ticks
  <2>1. UpTo(m.start, clock) /\ m.start \in Clock
    BY <1>1, MessagesTyping, MessageTyping DEF EdgeInv, AllKnown, Known
  <2>2. (m.gateway = gateway /\ Times(m.start) = Times(clock))
            => m.start.ticks + Interval <= wake[d]
    BY <1>2, <1>10 DEF EdgeInv, SleepsInTurn
  <2>3. QED
    BY <1>1, <1>2, <2>1, <2>2, StateTyping, ClockTyping
<1>11. ReadsInTurn'
  BY <1>1, <1>2, <1>3, <1>6, <1>7, <1>10, ClockTyping DEF EdgeInv, ReadsInTurn
<1>12. Running' /\ FreshIsLatest' /\ DisorderIsRetry'
  BY <1>2, <1>7 DEF EdgeInv, FreshIsLatest, DisorderIsRetry, Running, Tried
<1>13. QED
  BY <1>4, <1>5, <1>8, <1>9, <1>11, <1>12 DEF EdgeInv

\* The end of a poll: the other tasks stay where they are, this one sleeps
\* until an interval after its readings so far.
LEMMA SleepsStep ==
    ASSUME EdgeInv, NEW d \in Devices, task[d] = "read", Sleeps(d), UNCHANGED <<clock, gateway>>
    PROVE  /\ task' \in [Devices -> {"down", "sleep", "read"}]
           /\ started' \in [Devices -> Clock]
           /\ wake' \in [Devices -> 0 .. MaxTime + Interval + MaxSteps]
           /\ task'[d] = "sleep"
           /\ \A e \in Devices \ {d} :
                  task'[e] = task[e] /\ started'[e] = started[e] /\ wake'[e] = wake[e]
           /\ PaceKept'
           /\ Times(started[d]) = Times(clock) => started[d].ticks + Interval <= wake'[d]
           /\ \A m \in Messages :
                  (m.dev = d /\ m.gateway = gateway /\ Times(m.start) = Times(clock))
                      => m.start.ticks + Interval <= wake'[d]
<1>1. EdgeTypeOK /\ clock \in Clock /\ started[d] \in Clock
  BY StateTyping DEF EdgeInv
<1>2. UpTo(started[d], clock)
  BY DEF EdgeInv, ReadsInTurn
<1> DEFINE pause == Interval - (Wall(clock) - Wall(started[d]))
           w     == clock.ticks + (IF pause > 0 THEN pause ELSE 0)
<1>3. /\ w \in 0 .. MaxTime + Interval + MaxSteps
      /\ clock.ticks <= w /\ w <= clock.ticks + Interval + clock.back
      /\ Times(started[d]) = Times(clock) => started[d].ticks + Interval <= w
  BY <1>1, <1>2, SleepBounds
<1>4. /\ task' = [task EXCEPT ![d] = "sleep"] /\ started' = [started EXCEPT ![d] = Zero]
      /\ wake' = [wake EXCEPT ![d] = w]
  BY DEF Sleeps, SleepsFor, Elapsed, now
<1> HIDE DEF w
<1>5. /\ task' \in [Devices -> {"down", "sleep", "read"}]
      /\ started' \in [Devices -> Clock]
      /\ wake' \in [Devices -> 0 .. MaxTime + Interval + MaxSteps]
      /\ task'[d] = "sleep" /\ wake'[d] = w
      /\ \A e \in Devices \ {d} :
             task'[e] = task[e] /\ started'[e] = started[e] /\ wake'[e] = wake[e]
  BY <1>1, <1>3, <1>4, ZeroTyping DEF EdgeTypeOK
<1>6. PaceKept'
  BY <1>3, <1>5 DEF EdgeInv, PaceKept
<1>7. ASSUME NEW m \in Messages, m.dev = d, m.gateway = gateway, Times(m.start) = Times(clock)
      PROVE  m.start.ticks + Interval <= w
  <2>1. m.start \in Clock /\ UpTo(m.start, started[d])
    BY <1>1, <1>7, MessagesTyping, MessageTyping DEF EdgeInv, ReadsInTurn
  <2>2. Times(m.start) = Times(started[d])
    BY <1>1, <1>2, <1>7, <2>1, SameTimes
  <2>3. m.start.ticks + Interval <= started[d].ticks
    BY <1>7, <2>2 DEF EdgeInv, ReadsInTurn
  <2>4. started[d].ticks <= clock.ticks
    BY <1>2 DEF UpTo
  <2>5. w \in Nat
    BY <1>3
  <2>6. QED
    BY <1>1, <1>3, <2>1, <2>3, <2>4, <2>5, ClockTyping
<1>8. QED
  BY <1>3, <1>5, <1>6, <1>7

LEMMA PollFailsStep ==
    ASSUME EdgeInv, NEW d \in Devices, PollFails(d)
    PROVE  EdgeInv'
<1>1. /\ UNCHANGED <<simVars, clock, gateway, fresh, unacked, log>>
      /\ task[d] = "read" /\ Sleeps(d)
  BY DEF PollFails, simVars
<1>2. Messages' = Messages
  BY <1>1 DEF Messages, Tried, Original
<1>3. SimInv' /\ AllKnown' /\ AllAgree'
  BY <1>1, <1>2, NoNewReading
<1>4. EdgeTypeOK' /\ PaceKept'
  BY <1>1, <1>3, SleepsStep DEF EdgeInv, EdgeTypeOK, SimInv
<1>5. ReadsInTurn'
  BY <1>1, <1>2, SleepsStep DEF EdgeInv, ReadsInTurn
<1>6. SleepsInTurn'
  BY <1>1, <1>2, SleepsStep DEF EdgeInv, SleepsInTurn
<1>7. FreshIsLatest' /\ DisorderIsRetry'
  <2>1. Running'
    BY <1>1, SleepsStep DEF Running
  <2>2. QED
    BY <1>1, <2>1 DEF EdgeInv, FreshIsLatest, DisorderIsRetry, Tried
<1>8. QED
  BY <1>3, <1>4, <1>5, <1>6, <1>7 DEF EdgeInv

\* Everything else is about where the messages are.
LEMMA ProducerStep ==
    ASSUME EdgeInv, UNCHANGED <<simVars, gateway, task, started, wake>>,
           fresh' \in Seq(Message), unacked' \subseteq Message,
           log' \in Seq(Message), Len(log') <= MaxLog,
           Messages' \subseteq Messages,
           FreshIsLatest', DisorderIsRetry'
    PROVE  EdgeInv'
<1>1. UNCHANGED clock
  BY DEF simVars
<1>2. SimInv' /\ AllKnown' /\ AllAgree'
  BY NoNewReading
<1>3. EdgeTypeOK'
  BY <1>2 DEF EdgeInv, EdgeTypeOK, SimInv
<1>4. PaceKept' /\ ReadsInTurn' /\ SleepsInTurn'
  BY <1>1 DEF EdgeInv, PaceKept, ReadsInTurn, SleepsInTurn
<1>5. QED
  BY <1>2, <1>3, <1>4 DEF EdgeInv

LEMMA ExpireStep ==
    ASSUME EdgeInv, NEW m \in unacked, Expire(m)
    PROVE  EdgeInv'
<1>1. /\ UNCHANGED <<simVars, gateway, task, started, wake, fresh, log>>
      /\ unacked' = unacked \ {m}
  BY DEF Expire
<1>2. Messages' \subseteq Messages
  BY <1>1 DEF Messages, Tried, Original
<1>3. FreshIsLatest' /\ DisorderIsRetry'
  BY <1>1 DEF EdgeInv, FreshIsLatest, DisorderIsRetry, Tried, Running
<1>4. QED
  BY <1>1, <1>2, <1>3, ProducerStep DEF EdgeInv, EdgeTypeOK

LEMMA ResendStep ==
    ASSUME EdgeInv, NEW m \in unacked, Resend(m)
    PROVE  EdgeInv'
<1> DEFINE c == [m EXCEPT !.again = TRUE]
<1>1. EdgeTypeOK /\ m \in Message /\ log \in Seq(Message) /\ Len(log) < MaxLog
  BY DEF EdgeInv, EdgeTypeOK, Resend
<1>2. /\ UNCHANGED <<simVars, gateway, task, started, wake, fresh>>
      /\ unacked' \in {unacked, unacked \ {m}} /\ log' = Append(log, c)
  BY DEF Resend
<1>3. /\ c \in Message /\ c.again /\ Original(c) = Original(m)
      /\ c.dev = m.dev /\ c.start = m.start /\ c.gateway = m.gateway
  BY <1>1, CopyOf, OriginalOf DEF Message
<1> HIDE DEF c
<1>4. /\ log' \in Seq(Message) /\ Len(log') <= MaxLog
      /\ DOMAIN log' = DOMAIN log \cup {Len(log) + 1}
      /\ \A i \in DOMAIN log : log'[i] = log[i]
      /\ log'[Len(log) + 1] = c
      /\ \A i \in DOMAIN log : i < Len(log) + 1
  BY <1>1, <1>2, <1>3, AppendProperties, LenProperties
<1>5. Tried' \subseteq Tried \cup {c}
  BY <1>2, <1>4 DEF Tried
<1>6. Original(c) \in Messages
  BY <1>3 DEF Messages, Tried
<1>7. Messages' \subseteq Messages
  BY <1>2, <1>5, <1>6 DEF Messages, Original
<1>8. FreshIsLatest'
  <2>1. ASSUME NEW i \in DOMAIN fresh, NEW n \in Tried', SameStream(n, fresh[i])
        PROVE  Before(n.start, fresh[i].start)
    <3>1. CASE n \in Tried
      BY <2>1, <3>1 DEF EdgeInv, FreshIsLatest
    <3>2. CASE n = c
      BY <1>3, <2>1, <3>2 DEF EdgeInv, FreshIsLatest, SameStream, Tried
    <3>3. QED
      BY <1>5, <3>1, <3>2
  <2>2. QED
    BY <1>2, <2>1 DEF EdgeInv, FreshIsLatest, Running
<1>9. DisorderIsRetry'
  <2>1. ASSUME NEW i \in DOMAIN log', NEW j \in DOMAIN log',
               i < j, SameStream(log'[i], log'[j]), ~Before(log'[i].start, log'[j].start)
        PROVE  log'[j].again
    <3>1. CASE j = Len(log) + 1
      BY <1>3, <1>4, <3>1
    <3>2. CASE j \in DOMAIN log
      <4>1. i \in DOMAIN log
        <5>1. i # Len(log) + 1
          BY <1>1, <1>4, <2>1, <3>2, LenProperties
        <5>2. QED
          BY <1>4, <5>1
      <4>2. QED
        BY <1>4, <2>1, <3>2, <4>1 DEF EdgeInv, DisorderIsRetry
    <3>3. QED
      BY <1>4, <3>1, <3>2
  <2>2. QED
    BY <2>1 DEF DisorderIsRetry
<1>10. QED
  BY <1>1, <1>2, <1>4, <1>7, <1>8, <1>9, ProducerStep DEF EdgeTypeOK

\* The first attempt at a message: the topic gets it, or nothing.
LEMMA SendStep ==
    ASSUME EdgeInv, Send
    PROVE  EdgeInv'
<1> DEFINE h == Head(fresh)
<1>1. EdgeTypeOK /\ fresh \in Seq(Message) /\ fresh # <<>> /\ log \in Seq(Message)
  BY DEF EdgeInv, EdgeTypeOK, Send
<1>2. /\ UNCHANGED <<simVars, gateway, task, started, wake>> /\ fresh' = Tail(fresh)
      /\ unacked' \subseteq unacked \cup {h}
      /\ \/ Len(log) < MaxLog /\ log' = Append(log, h)
         \/ log' = log
  BY DEF Send
<1>3. /\ 1 \in DOMAIN fresh /\ h = fresh[1] /\ h \in Message
      /\ fresh' \in Seq(Message)
      /\ \A i \in DOMAIN fresh' :
             i \in Nat /\ i >= 1 /\ i + 1 \in DOMAIN fresh /\ fresh'[i] = fresh[i + 1]
  BY <1>1, <1>2, HeadTailProperties, LenProperties
<1> HIDE DEF h
<1>4. /\ log' \in Seq(Message) /\ Len(log') <= MaxLog
      /\ DOMAIN log \subseteq DOMAIN log'
      /\ \A i \in DOMAIN log : log'[i] = log[i] /\ i <= Len(log)
      /\ \A i \in DOMAIN log' \ DOMAIN log : i = Len(log) + 1 /\ log'[i] = h
  <2>1. CASE log' = log
    BY <1>1, <2>1, LenProperties DEF EdgeTypeOK
  <2>2. CASE Len(log) < MaxLog /\ log' = Append(log, h)
    BY <1>1, <1>3, <2>2, AppendProperties, LenProperties
  <2>3. QED
    BY <1>2, <2>1, <2>2
<1>5. Tried' \subseteq Tried \cup {h}
  BY <1>2, <1>4 DEF Tried
<1>6. Messages' \subseteq Messages
  <2>1. {fresh'[i] : i \in DOMAIN fresh'} \subseteq {fresh[i] : i \in DOMAIN fresh}
    BY <1>3
  <2>2. h \in {fresh[i] : i \in DOMAIN fresh}
    BY <1>3
  <2>3. QED
    BY <1>5, <2>1, <2>2 DEF Messages, Original
<1>7. unacked' \subseteq Message
  BY <1>1, <1>2, <1>3 DEF EdgeTypeOK
<1>8. FreshIsLatest'
  <2>1. Running'
    BY <1>1, <1>2 DEF EdgeInv, FreshIsLatest, Running
  <2>2. ASSUME NEW i \in DOMAIN fresh'
        PROVE  fresh'[i].gateway = gateway'
    BY <1>2, <1>3 DEF EdgeInv, FreshIsLatest
  <2>3. ASSUME NEW i \in DOMAIN fresh', NEW m \in Tried', SameStream(m, fresh'[i])
        PROVE  Before(m.start, fresh'[i].start)
    <3>1. i + 1 \in DOMAIN fresh /\ fresh'[i] = fresh[i + 1] /\ 1 < i + 1
      BY <1>3
    <3>2. CASE m \in Tried
      BY <2>3, <3>1, <3>2 DEF EdgeInv, FreshIsLatest
    <3>3. CASE m = h
      BY <1>3, <2>3, <3>1, <3>3 DEF EdgeInv, FreshIsLatest, SameStream
    <3>4. QED
      BY <1>5, <3>2, <3>3
  <2>4. ASSUME NEW i \in DOMAIN fresh', NEW j \in DOMAIN fresh',
               i < j, fresh'[i].dev = fresh'[j].dev
        PROVE  Before(fresh'[i].start, fresh'[j].start)
    <3>1. /\ i + 1 \in DOMAIN fresh /\ fresh'[i] = fresh[i + 1]
          /\ j + 1 \in DOMAIN fresh /\ fresh'[j] = fresh[j + 1]
          /\ i + 1 < j + 1
      BY <1>3, <2>4
    <3>2. QED
      BY <2>4, <3>1 DEF EdgeInv, FreshIsLatest
  <2>5. QED
    BY <2>1, <2>2, <2>3, <2>4 DEF FreshIsLatest
<1>9. DisorderIsRetry'
  <2>1. ASSUME NEW i \in DOMAIN log', NEW j \in DOMAIN log',
               i < j, SameStream(log'[i], log'[j]), ~Before(log'[i].start, log'[j].start)
        PROVE  log'[j].again
    <3>1. i \in DOMAIN log
      <4>1. CASE i \notin DOMAIN log
        <5>1. i = Len(log) + 1
          BY <1>4, <4>1
        <5>2. j <= Len(log) + 1 /\ Len(log) \in Nat /\ j \in Int
          <6>1. Len(log) \in Nat /\ DOMAIN log = 1 .. Len(log)
            BY <1>1, LenProperties
          <6>2. QED
            BY <1>4, <6>1
        <5>3. QED
          BY <2>1, <5>1, <5>2
      <4>2. QED
        BY <4>1
    <3>2. CASE j \in DOMAIN log
      BY <1>4, <2>1, <3>1, <3>2 DEF EdgeInv, DisorderIsRetry
    <3>3. CASE j \notin DOMAIN log
      <4>1. log'[j] = h /\ log'[i] = log[i] /\ log[i] \in Tried
        BY <1>4, <3>1, <3>3 DEF Tried
      <4>2. Before(log[i].start, h.start)
        BY <1>3, <2>1, <4>1 DEF EdgeInv, FreshIsLatest
      <4>3. QED
        BY <2>1, <4>1, <4>2
    <3>4. QED
      BY <3>2, <3>3
  <2>2. QED
    BY <2>1 DEF DisorderIsRetry
<1>10. QED
  BY <1>2, <1>3, <1>4, <1>6, <1>7, <1>8, <1>9, ProducerStep

-------------------------------------------------------------------------------
(* A new reading.                                                          *)

\* What it says is known, and it agrees with every earlier reading of its
\* machine.
LEMMA ReadingAgrees ==
    ASSUME EdgeInv, NEW d \in Devices, task[d] = "read"
    PROVE  LET r == Reading(d)
           IN /\ r \in Message /\ Original(r) = r /\ r.dev = d /\ r.gateway = gateway
              /\ r.start = started[d] /\ Known(r) /\ Agree(r, r)
              /\ \A m \in Messages : m.dev = d =>
                     Agree(m, r) /\ Agree(r, m)
              /\ \A m \in Messages : (m.dev = d /\ m.gateway = gateway)
                     => Before(m.start, r.start)
<1> DEFINE r == Reading(d)
           s == started[d]
<1>1. /\ EdgeTypeOK /\ SimTypeOK /\ clock \in Clock /\ s \in Clock /\ gateway \in 0 .. MaxGateway
      /\ boot \in Nat
  BY StateTyping DEF EdgeInv, EdgeTypeOK, SimTypeOK
<1>2. /\ regs[d].energy \in Energy /\ regs[d].energy \in Int /\ regs[d].pass \in Clock
      /\ regs[d].boot \in 0 .. MaxBoots /\ regs[d].boot = boot
  BY <1>1, RegisterTyping DEF EdgeInv, SimInv, TotalsOfLastPass
<1>3. Wall(s) \in Int
  BY <1>1, ClockTyping
<1>4. /\ r \in Message /\ Original(r) = r /\ r.dev = d /\ r.ts = Wall(s) /\ r.energy = regs[d].energy
      /\ r.start = s /\ r.pass = regs[d].pass /\ r.boot = boot /\ r.gateway = gateway
  <2>1. /\ r.dev = d /\ r.ts = Wall(s) /\ r.energy = regs[d].energy
        /\ r.start = s /\ r.pass = regs[d].pass /\ r.boot = boot /\ r.gateway = gateway
    BY <1>2 DEF Reading
  <2>2. r \in Message
    BY <1>1, <1>2, <1>3 DEF Reading, Message
  <2>3. Original(r) = r
    BY <2>2, NotACopy DEF Reading
  <2>4. QED
    BY <2>1, <2>2, <2>3
<1>5. UpTo(s, clock)
  BY DEF EdgeInv, ReadsInTurn
<1> HIDE DEF r
<1>6. Known(r)
  BY <1>1, <1>2, <1>4, <1>5, ClockTyping DEF Known
<1>7. Agree(r, r)
  BY <1>1, <1>2, <1>4, ClockTyping DEF Agree
<1>8. ASSUME NEW m \in Messages, m.dev = d
      PROVE  /\ Agree(m, r) /\ Agree(r, m)
             /\ m.gateway = gateway => Before(m.start, s)
  <2>1. /\ m.start \in Clock /\ m.pass \in Clock /\ m.energy \in Int /\ m.boot \in Nat
        /\ m.start.ticks \in Nat /\ s.ticks \in Nat
        /\ m.pass.ticks \in Nat /\ regs[d].pass.ticks \in Nat
    BY <1>1, <1>2, MessagesTyping, MessageTyping, ClockTyping
  <2>2. /\ UpTo(m.start, s)
        /\ (m.gateway = gateway /\ Times(m.start) = Times(s)) => m.start.ticks + Interval <= s.ticks
    BY <1>8 DEF EdgeInv, ReadsInTurn
  <2>3. /\ UpTo(m.pass, regs[d].pass)
        /\ m.boot = boot =>
               /\ m.pass.ticks = regs[d].pass.ticks => m.energy = regs[d].energy
               /\ Times(m.pass) = Times(regs[d].pass) => m.energy <= regs[d].energy
    BY <1>8 DEF EdgeInv, AllKnown, Known
  <2>4. m.start.ticks <= s.ticks /\ m.pass.ticks <= regs[d].pass.ticks
    BY <2>2, <2>3 DEF UpTo
  <2>5. Agree(m, r)
    BY <1>4, <2>1, <2>2, <2>3, <2>4 DEF Agree
  <2>6. Agree(r, m)
    <3>1. ~(s.ticks < m.start.ticks)
      BY <2>1, <2>4
    <3>2. (boot = m.boot /\ regs[d].pass.ticks <= m.pass.ticks) => regs[d].energy <= m.energy
      BY <1>2, <2>1, <2>3, <2>4
    <3>3. (gateway = m.gateway /\ Times(s) = Times(m.start)) => ~(s.ticks <= m.start.ticks)
      BY <2>1, <2>2
    <3>4. QED
      BY <1>4, <2>2, <3>1, <3>2, <3>3 DEF Agree
  <2>7. m.gateway = gateway => m.start # s
    BY <2>1, <2>2
  <2>8. QED
    BY <2>2, <2>5, <2>6, <2>7 DEF Before
<1>9. QED
  BY <1>4, <1>6, <1>7, <1>8 DEF r

LEMMA PollSucceedsStep ==
    ASSUME EdgeInv, NEW d \in Devices, PollSucceeds(d)
    PROVE  EdgeInv'
<1> DEFINE r == Reading(d)
<1>1. /\ UNCHANGED <<simVars, clock, gateway, unacked, log>>
      /\ UNCHANGED <<up, boot, since, total, lastT, regs>>
      /\ task[d] = "read" /\ Sleeps(d) /\ fresh' = Append(fresh, r)
  BY DEF PollSucceeds, simVars
<1>2. EdgeTypeOK /\ fresh \in Seq(Message)
  BY DEF EdgeInv, EdgeTypeOK
<1>3. /\ r \in Message /\ Original(r) = r /\ r.dev = d /\ r.gateway = gateway
      /\ r.start = started[d] /\ Known(r) /\ Agree(r, r)
      /\ \A m \in Messages : m.dev = d => Agree(m, r) /\ Agree(r, m)
      /\ \A m \in Messages : (m.dev = d /\ m.gateway = gateway) => Before(m.start, r.start)
  BY <1>1, ReadingAgrees
<1> HIDE DEF r
<1>4. /\ fresh' \in Seq(Message)
      /\ DOMAIN fresh' = DOMAIN fresh \cup {Len(fresh) + 1}
      /\ \A i \in DOMAIN fresh : fresh'[i] = fresh[i] /\ i < Len(fresh) + 1
      /\ fresh'[Len(fresh) + 1] = r
  BY <1>1, <1>2, <1>3, AppendProperties, LenProperties
<1>5. Tried' = Tried
  BY <1>1 DEF Tried
<1>6. Messages' = Messages \cup {r}
  <2>1. {fresh'[i] : i \in DOMAIN fresh'} = {fresh[i] : i \in DOMAIN fresh} \cup {r}
    BY <1>4
  <2>2. QED
    BY <1>3, <1>5, <2>1 DEF Messages, Original
<1>7. SimInv'
  BY <1>1 DEF EdgeInv, SimInv, SimTypeOK, ClocksInOrder, TotalsOfLastPass, NoEnergyInvented
<1>8. EdgeTypeOK' /\ PaceKept'
  BY <1>1, <1>4, <1>7, SleepsStep DEF EdgeInv, EdgeTypeOK, SimInv
<1>9. AllKnown'
  <2>1. ASSUME NEW m, Known(m)
        PROVE  Known(m)'
    BY <1>1, <2>1 DEF Known
  <2>2. QED
    BY <1>3, <1>6, <2>1 DEF EdgeInv, AllKnown
<1>10. AllAgree'
  BY <1>3, <1>6 DEF EdgeInv, AllAgree
<1>11. ReadsInTurn'
  BY <1>1, <1>3, <1>6, SleepsStep DEF EdgeInv, ReadsInTurn
<1>12. SleepsInTurn'
  <2>1. \A m \in Messages' :
            (m.dev = d /\ m.gateway = gateway /\ Times(m.start) = Times(clock))
                => m.start.ticks + Interval <= wake'[d]
    BY <1>1, <1>3, <1>6, SleepsStep
  <2>2. QED
    BY <1>1, <1>3, <1>6, <2>1, SleepsStep, SMTT(30) DEF EdgeInv, SleepsInTurn
<1>13. FreshIsLatest'
  <2>1. Running'
    BY <1>1, SleepsStep DEF Running
  <2>2. ASSUME NEW i \in DOMAIN fresh'
        PROVE  fresh'[i].gateway = gateway'
    BY <1>1, <1>3, <1>4 DEF EdgeInv, FreshIsLatest
  <2>3. ASSUME NEW i \in DOMAIN fresh', NEW m \in Tried', SameStream(m, fresh'[i])
        PROVE  Before(m.start, fresh'[i].start)
    <3>1. CASE i \in DOMAIN fresh
      BY <1>4, <1>5, <2>3, <3>1 DEF EdgeInv, FreshIsLatest
    <3>2. CASE i = Len(fresh) + 1
      <4>1. m \in Message /\ Original(m) \in Messages
        BY <1>2, <1>5, MessagesTyping DEF Tried, Messages
      <4>2. m.dev = d /\ m.gateway = gateway
        BY <1>3, <1>4, <2>3, <3>2 DEF SameStream
      <4>3. Before(Original(m).start, r.start)
        BY <1>3, <4>1, <4>2, OriginalOf
      <4>4. QED
        BY <1>4, <3>2, <4>1, <4>3, OriginalOf
    <3>3. QED
      BY <1>4, <3>1, <3>2
  <2>4. ASSUME NEW i \in DOMAIN fresh', NEW j \in DOMAIN fresh',
               i < j, fresh'[i].dev = fresh'[j].dev
        PROVE  Before(fresh'[i].start, fresh'[j].start)
    <3>1. i \in DOMAIN fresh
      <4>1. i # Len(fresh) + 1
        <5>1. DOMAIN fresh' = 1 .. Len(fresh) + 1 /\ Len(fresh) \in Nat
          BY <1>1, <1>2, <1>3, AppendProperties, LenProperties
        <5>2. QED
          BY <2>4, <5>1
      <4>2. QED
        BY <1>4, <4>1
    <3>2. CASE j \in DOMAIN fresh
      BY <1>4, <2>4, <3>1, <3>2 DEF EdgeInv, FreshIsLatest
    <3>3. CASE j = Len(fresh) + 1
      <4>1. fresh[i] \in Message /\ fresh[i].dev = d /\ fresh[i].gateway = gateway
        BY <1>2, <1>3, <1>4, <2>4, <3>1, <3>3, MessagesTyping DEF EdgeInv, FreshIsLatest
      <4>2. Original(fresh[i]) \in Messages
        BY <3>1 DEF Messages
      <4>3. Before(fresh[i].start, r.start)
        BY <1>3, <4>1, <4>2, OriginalOf
      <4>4. QED
        BY <1>4, <3>1, <3>3, <4>3
    <3>4. QED
      BY <1>4, <3>2, <3>3
  <2>5. QED
    BY <2>1, <2>2, <2>3, <2>4 DEF FreshIsLatest
<1>14. DisorderIsRetry'
  BY <1>1 DEF EdgeInv, DisorderIsRetry
<1>15. QED
  BY <1>7, <1>8, <1>9, <1>10, <1>11, <1>12, <1>13, <1>14 DEF EdgeInv

-------------------------------------------------------------------------------
(* The theorems.                                                           *)

LEMMA EdgeInductive ==
    ASSUME EdgeInv, [Next]_vars
    PROVE  EdgeInv'
<1>1. CASE SimNext /\ UNCHANGED gwVars
  BY <1>1, EdgeSimStep
<1>2. CASE UNCHANGED vars
  <2>1. /\ UNCHANGED simVars /\ UNCHANGED <<clock, gateway, task, started, wake, fresh, unacked, log>>
        /\ Messages' = Messages
    BY <1>2 DEF vars, gwVars, simVars, Messages, Tried, Original
  <2>2. FreshIsLatest' /\ DisorderIsRetry'
    BY <2>1 DEF EdgeInv, FreshIsLatest, DisorderIsRetry, Tried, Running
  <2>3. QED
    BY <2>1, <2>2, ProducerStep DEF EdgeInv, EdgeTypeOK
<1>3. CASE Next /\ ~(SimNext /\ UNCHANGED gwVars)
  BY <1>3, GatewayStartsStep, GatewayCrashesStep, PollStartsStep, PollSucceedsStep,
     PollFailsStep, SendStep, ResendStep, ExpireStep DEF Next
<1>4. QED
  BY <1>1, <1>2, <1>3

\* The invariant of the edge (simulator, tasks, messages and topic).
THEOREM EdgeInvariant == Spec => []EdgeInv
BY EdgeInitially, EdgeInductive, PTL DEF Spec

\* Types of the edge's state: among others an energy is a multiple of the
\* registers' resolution, and a sleep ends within bounds whatever the clock
\* does.
THEOREM EdgeTypeCorrect == Spec => []EdgeTypeOK
<1>1. EdgeInv => EdgeTypeOK
  BY DEF EdgeInv
<1>2. QED
  BY <1>1, EdgeInvariant, PTL

\* A stream does not fall silent (publisher.py:79).
THEOREM StreamsKeepPace == Spec => []PaceKept
<1>1. EdgeInv => PaceKept
  BY DEF EdgeInv
<1>2. QED
  BY <1>1, EdgeInvariant, PTL

\* Disorder in a topic is the work of retries (publisher.py:28, :69).
THEOREM OnlyRetriesDisorder == Spec => []DisorderIsRetry
<1>1. EdgeInv => DisorderIsRetry
  BY DEF EdgeInv
<1>2. QED
  BY <1>1, EdgeInvariant, PTL

LEMMA LogAgrees ==
    ASSUME EdgeInv, NEW i \in DOMAIN log, NEW j \in DOMAIN log, log[i].dev = log[j].dev
    PROVE  /\ Agree(log[i], log[j])
           /\ log[i] \in Message /\ log[i].ts = Wall(log[i].start)
<1>1. EdgeTypeOK /\ log[i] \in Message
  BY MessagesTyping DEF EdgeInv
<1>2. Agree(Original(log[i]), Original(log[j])) /\ Known(Original(log[i]))
  BY <1>1, LogIsMessages DEF EdgeInv, AllAgree, AllKnown
<1>3. QED
  BY <1>1, <1>2, LogIsMessages DEF Agree, Known

\* Energy follows the timestamps, whatever was retried, duplicated or lost
\* on the way (publisher.py:44-75, EnergyIntegrator.add).
THEOREM EnergyInOrder == Spec => []EnergyFollowsTime
<1>1. ASSUME EdgeInv
      PROVE  EnergyFollowsTime
  <2> SUFFICES ASSUME NEW i \in DOMAIN log, NEW j \in DOMAIN log,
                      log[i].dev = log[j].dev, log[i].boot = log[j].boot,
                      OneClock({log[i], log[j]}), log[i].ts < log[j].ts
               PROVE  log[i].energy <= log[j].energy
    BY DEF EnergyFollowsTime
  <2> DEFINE m == log[i]
             n == log[j]
  <2>1. /\ m \in Message /\ n \in Message /\ m.ts = Wall(m.start) /\ n.ts = Wall(n.start)
        /\ Agree(m, n)
    BY <1>1, LogAgrees
  <2>2. Times(m.start) = Times(n.start) /\ Times(m.pass) = Times(n.pass)
    BY DEF OneClock
  <2>3. m.start.ticks < n.start.ticks
    <3>1. m.start \in Clock /\ n.start \in Clock /\ Wall(m.start) < Wall(n.start)
      BY <2>1, MessageTyping
    <3>2. UpTo(m.start, n.start) \/ UpTo(n.start, m.start)
      BY <2>1 DEF Agree
    <3>3. QED
      BY <2>2, <3>1, <3>2 DEF UpTo, Times, Wall, Clock
  <2>4. QED
    BY <2>1, <2>2, <2>3 DEF Agree
<1>2. QED
  BY <1>1, EdgeInvariant, PTL

\* A stream has at most one reading per interval, but for copies
\* (publisher.py:41-79).
THEOREM ReadingsAreSpaced == Spec => []OnePerInterval
<1>1. ASSUME EdgeInv
      PROVE  OnePerInterval
  <2> SUFFICES ASSUME NEW i \in DOMAIN log, NEW j \in DOMAIN log,
                      SameStream(log[i], log[j]), log[i].ts <= log[j].ts,
                      Times(log[i].start) = Times(log[j].start)
               PROVE  \/ log[j].ts >= log[i].ts + Interval
                      \/ log[i].ts = log[j].ts /\ log[i].energy = log[j].energy
    BY DEF OnePerInterval
  <2> DEFINE m == log[i]
             n == log[j]
  <2>1. /\ m \in Message /\ n \in Message /\ m.ts = Wall(m.start) /\ n.ts = Wall(n.start)
        /\ Agree(m, n) /\ m.gateway = n.gateway
    BY <1>1, LogAgrees DEF SameStream
  <2>2. m.start \in Clock /\ n.start \in Clock /\ Wall(m.start) <= Wall(n.start)
    BY <2>1, MessageTyping
  <2>3. UpTo(m.start, n.start) \/ UpTo(n.start, m.start)
    BY <2>1 DEF Agree
  <2>4. m.start.forth = n.start.forth /\ m.start.back = n.start.back /\ m.start.ticks <= n.start.ticks
    BY <2>2, <2>3, SetAlike
  <2>5. CASE m.start.ticks + Interval <= n.start.ticks
    BY <2>1, <2>2, <2>4, <2>5 DEF Wall, Clock
  <2>6. CASE m.start = n.start /\ m.energy = n.energy
    BY <2>1, <2>6
  <2>7. QED
    BY <2>1, <2>4, <2>5, <2>6 DEF Agree
<1>2. QED
  BY <1>1, EdgeInvariant, PTL
===============================================================================
