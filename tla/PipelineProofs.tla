----------------------------- MODULE PipelineProofs -----------------------------
(***************************************************************************)
(* Proofs about Pipeline: what a machine's counter showed, what landed of  *)
(* it and what the energy facts make of that agree, for every number of    *)
(* machines, restarts, messages, rows and sessions of the consumer.        *)
(***************************************************************************)
EXTENDS Pipeline, EdgeProofs, FiniteSetTheorems, WellFoundedInduction

USE PowersAssumption, GridAssumption, TimeAssumption, GatewayAssumption, SessionsAssumption
    DEF PowersAssumption, GridAssumption, TimeAssumption, GatewayAssumption, SessionsAssumption

-------------------------------------------------------------------------------
(* The facts of a machine in order.                                        *)

\* The number of those not after i: from 1 to all of them, different for each,
\* and never less for a later one.
LEMMA Places ==
    ASSUME NEW readings, NEW at, IsFiniteSet(at), at \subseteq Int,
           \A i \in at : readings[i].ts \in Int,
           NEW place, place = [i \in at |-> Cardinality({j \in at : NotAfter(readings, j, i)})]
    PROVE  /\ place \in Bijection(at, 1 .. Cardinality(at))
           /\ \A i, j \in at : place[i] < place[j] => readings[i].ts <= readings[j].ts
<1> DEFINE c == Cardinality(at)
           Upto(i) == {j \in at : NotAfter(readings, j, i)}
<1>1. c \in Nat
  BY FS_CardinalityType
<1>2. ASSUME NEW i
      PROVE  /\ IsFiniteSet(Upto(i)) /\ Cardinality(Upto(i)) \in Nat
             /\ Cardinality(Upto(i)) <= c
  <2>1. Upto(i) \in SUBSET at
    OBVIOUS
  <2> HIDE DEF Upto
  <2>2. QED
    BY <2>1, FS_Subset, FS_CardinalityType
<1>3. ASSUME NEW i \in at
      PROVE  Cardinality(Upto(i)) # 0
  <2>1. NotAfter(readings, i, i)
    <3>1. i \in Int
      OBVIOUS
    <3>2. QED
      BY <3>1 DEF NotAfter
  <2>2. i \in Upto(i)
    BY <2>1
  <2> HIDE DEF Upto
  <2>3. QED
    BY <1>2, <2>2, FS_EmptySet
<1>4. ASSUME NEW i \in at, NEW j \in at, i # j, NotAfter(readings, i, j)
      PROVE  Cardinality(Upto(i)) < Cardinality(Upto(j))
  <2>1. i \in Int /\ j \in Int /\ readings[i].ts \in Int /\ readings[j].ts \in Int
    OBVIOUS
  <2>2. ~NotAfter(readings, j, i)
    BY <1>4, <2>1 DEF NotAfter
  <2>3. ASSUME NEW k \in at, NotAfter(readings, k, i)
        PROVE  NotAfter(readings, k, j)
    <3>1. k \in Int /\ readings[k].ts \in Int
      OBVIOUS
    <3>2. QED
      BY <1>4, <2>1, <2>3, <3>1 DEF NotAfter
  <2>4. NotAfter(readings, j, j)
    BY <2>1 DEF NotAfter
  <2>5. Upto(i) \in SUBSET Upto(j) /\ j \in Upto(j) /\ j \notin Upto(i)
    BY <2>2, <2>3, <2>4
  <2> HIDE DEF Upto
  <2>6. /\ Cardinality(Upto(i)) <= Cardinality(Upto(j))
        /\ Cardinality(Upto(i)) # Cardinality(Upto(j))
    BY <1>2, <2>5, FS_Subset
  <2>7. QED
    BY <1>2, <2>6
<1>5. DOMAIN place = at /\ \A i \in at : place[i] = Cardinality(Upto(i))
  OBVIOUS
<1> HIDE DEF Upto
<1>6. \A i, j \in at : i # j => NotAfter(readings, i, j) \/ NotAfter(readings, j, i)
  BY DEF NotAfter
<1>7. place \in [at -> 1 .. c]
  <2>1. \A i \in at : place[i] \in 1 .. c
    BY <1>1, <1>2, <1>3, <1>5
  <2>2. place = [i \in at |-> place[i]]
    OBVIOUS
  <2>3. QED
    BY <2>1, <2>2
<1>8. \A i, j \in at : place[i] = place[j] => i = j
  <2>1. ASSUME NEW i \in at, NEW j \in at, i # j
        PROVE  place[i] # place[j]
    <3>1. place[i] < place[j] \/ place[j] < place[i]
      BY <1>4, <1>5, <1>6, <2>1
    <3>2. place[i] \in Nat /\ place[j] \in Nat
      BY <1>2, <1>5
    <3>3. QED
      BY <3>1, <3>2
  <2>2. QED
    BY <2>1
<1>9. place \in Injection(at, 1 .. c)
  <2> HIDE DEF c
  <2>1. QED
    BY <1>7, <1>8 DEF Injection, IsInjective
<1>10. IsFiniteSet(1 .. c) /\ Cardinality(1 .. c) = c
  <2> HIDE DEF c
  <2>1. /\ IsFiniteSet(1 .. c) /\ Cardinality(1 .. c) = IF 1 > c THEN 0 ELSE c - 1 + 1
    BY <1>1, FS_Interval
  <2>2. QED
    BY <1>1, <2>1
<1>11. place \in Surjection(at, 1 .. c)
  BY <1>9, <1>10, FS_Injection
<1>12. place \in Bijection(at, 1 .. c)
  <2> HIDE DEF c
  <2>1. QED
    BY <1>9, <1>11 DEF Bijection
<1>13. ASSUME NEW i \in at, NEW j \in at, place[i] < place[j]
       PROVE  readings[i].ts <= readings[j].ts
  <2>1. readings[i].ts \in Int /\ readings[j].ts \in Int
    OBVIOUS
  <2>2. place[i] \in Nat /\ place[j] \in Nat
    BY <1>2, <1>5
  <2>3. i # j /\ ~(place[j] < place[i])
    BY <1>13, <2>2
  <2>4. ~NotAfter(readings, j, i)
    BY <1>4, <1>5, <2>3
  <2>5. QED
    BY <2>1, <2>4 DEF NotAfter
<1>14. QED
  BY <1>12, <1>13

\* ByTime() has every reading of the machine once, the earlier before the
\* later.
LEMMA InTimeOrder ==
    ASSUME NEW readings, IsFiniteSet(DOMAIN readings), DOMAIN readings \subseteq Int,
           \A i \in DOMAIN readings : readings[i].ts \in Int,
           NEW dev
    PROVE  \E p :
        LET facts == ByTime(readings, dev)
            at    == {i \in DOMAIN readings : readings[i].dev = dev}
        IN /\ Len(facts) \in Nat /\ DOMAIN facts = 1 .. Len(facts)
           /\ p \in Bijection(1 .. Len(facts), at)
           /\ \A k \in 1 .. Len(facts) : facts[k] = readings[p[k]]
           /\ \A k \in 2 .. Len(facts) : facts[k - 1].ts <= facts[k].ts
<1> DEFINE facts == ByTime(readings, dev)
           at    == {i \in DOMAIN readings : readings[i].dev = dev}
           c     == Cardinality(at)
           place == [i \in at |-> Cardinality({j \in at : NotAfter(readings, j, i)})]
           p     == [n \in 1 .. c |-> CHOOSE i \in at : place[i] = n]
<1>1. IsFiniteSet(at) /\ at \subseteq Int /\ \A i \in at : readings[i].ts \in Int
  <2>1. at \in SUBSET DOMAIN readings
    OBVIOUS
  <2>2. \A i \in at : readings[i].ts \in Int
    OBVIOUS
  <2> HIDE DEF at
  <2>3. QED
    BY <2>1, <2>2, FS_Subset
<1>2. facts = [n \in 1 .. c |-> readings[CHOOSE i \in at : place[i] = n]]
  BY Zenon DEF ByTime
<1>3. c \in Nat
  BY <1>1, FS_CardinalityType
<1>4. /\ place \in Bijection(at, 1 .. c)
      /\ \A i, j \in at : place[i] < place[j] => readings[i].ts <= readings[j].ts
  <2> HIDE DEF at, place
  <2>1. place = [i \in at |-> Cardinality({j \in at : NotAfter(readings, j, i)})]
    BY DEF place
  <2>2. QED
    BY <1>1, <2>1, Places
<1> HIDE DEF facts, at, c, place
<1>5. \A n \in 1 .. c : \E i \in at : place[i] = n
  BY <1>4 DEF Bijection, Surjection
<1>6. \A n \in 1 .. c : p[n] \in at /\ place[p[n]] = n
  BY <1>5
<1>7. \A i \in at : place[i] \in 1 .. c /\ p[place[i]] = i
  <2>1. ASSUME NEW i \in at
        PROVE  place[i] \in 1 .. c /\ p[place[i]] = i
    <3>1. place[i] \in 1 .. c
      BY <1>4 DEF Bijection, Injection
    <3>2. p[place[i]] \in at /\ place[p[place[i]]] = place[i]
      BY <1>6, <3>1
    <3>3. QED
      BY <1>4, <3>1, <3>2 DEF Bijection, Injection, IsInjective
  <2>2. QED
    BY <2>1
<1>8. \A n \in 1 .. c : facts[n] = readings[p[n]]
  BY <1>2
<1>9. DOMAIN facts = 1 .. c /\ Len(facts) = c
  <2> DEFINE S == {readings[p[n]] : n \in 1 .. c}
  <2>1. DOMAIN facts = 1 .. c /\ facts = [n \in 1 .. c |-> facts[n]]
    BY <1>2
  <2>2. \A n \in 1 .. c : facts[n] \in S
    BY <1>8
  <2> HIDE DEF S
  <2>3. facts \in [1 .. c -> S]
    BY <2>1, <2>2
  <2>4. QED
    BY <1>3, <2>1, <2>3
<1>10. p \in Bijection(1 .. c, at)
  <2>1. p \in [1 .. c -> at]
    BY <1>6
  <2> HIDE DEF p
  <2>2. \A m, n \in 1 .. c : p[m] = p[n] => m = n
    BY <1>6
  <2>3. \A i \in at : \E n \in 1 .. c : p[n] = i
    BY <1>7
  <2>4. QED
    BY <2>1, <2>2, <2>3 DEF Bijection, Injection, Surjection, IsInjective
<1>11. ASSUME NEW k \in 2 .. c
       PROVE  facts[k - 1].ts <= facts[k].ts
  <2>1. k \in 1 .. c /\ k - 1 \in 1 .. c /\ k - 1 < k
    BY <1>3
  <2>2. p[k - 1] \in at /\ p[k] \in at /\ place[p[k - 1]] = k - 1 /\ place[p[k]] = k
    BY <1>6, <2>1
  <2> HIDE DEF p
  <2>3. place[p[k - 1]] < place[p[k]]
    BY <2>1, <2>2
  <2>4. readings[p[k - 1]].ts <= readings[p[k]].ts
    BY <1>4, <2>2, <2>3
  <2>5. QED
    BY <1>8, <2>1, <2>4
<1> HIDE DEF p
<1>12. QED
  BY <1>3, <1>8, <1>9, <1>10, <1>11 DEF facts, at

-------------------------------------------------------------------------------
(* What they add up to.                                                    *)

SumsUp(f, facts, n) ==
    f = [k \in 0 .. n |-> IF k <= 1 THEN 0 ELSE f[k - 1] + Delta(facts, k)]

\* A set of numbers has a least one: < is well founded.
LEMMA LeastOf ==
    ASSUME NEW T, T \subseteq Nat, T # {}
    PROVE  \E x \in T : \A y \in T : x <= y
<1>1. PICK x \in T : \A y \in T : ~(<<y, x>> \in OpToRel(<, Nat))
  BY NatLessThanWellFounded, WFMin
<1>2. \A y \in T : ~(y < x)
  BY <1>1, Zenon DEF OpToRel
<1>3. QED
  BY <1>2, SMT

\* Gains and losses between the first and the last reading cancel out.
LEMMA SumTelescopes ==
    ASSUME NEW facts, Len(facts) \in Nat, Len(facts) # 0,
           \A k \in 1 .. Len(facts) : facts[k].energy \in Int
    PROVE  Consumed(facts) = facts[Len(facts)].energy - facts[1].energy
<1> DEFINE n == Len(facts)
           gain(k) == facts[k].energy - facts[1].energy
           g == [k \in 0 .. n |-> IF k <= 1 THEN 0 ELSE gain(k)]
<1>1. n \in Nat /\ n # 0
  OBVIOUS
<1>2. \E f : SumsUp(f, facts, n)
  <2>1. \A k \in 0 .. n : k > 1 => k - 1 \in 0 .. n
    BY <1>1
  <2>2. ASSUME NEW k \in 0 .. n
        PROVE  g[k] = IF k <= 1 THEN 0 ELSE g[k - 1] + Delta(facts, k)
    <3>1. CASE k <= 1
      BY <3>1
    <3>2. CASE k = 2
      <4>1. g[k] = gain(2) /\ g[k - 1] = 0 /\ 2 \in 1 .. n /\ 1 \in 1 .. n
        BY <1>1, <2>1, <3>2
      <4>2. QED
        BY <3>2, <4>1 DEF Delta
    <3>3. CASE k > 2
      <4>1. g[k] = gain(k) /\ g[k - 1] = gain(k - 1)
        BY <1>1, <2>1, <3>3
      <4>2. /\ facts[k].energy \in Int /\ facts[k - 1].energy \in Int
            /\ facts[1].energy \in Int
        BY <1>1, <3>3
      <4> HIDE DEF g
      <4>3. g[k] = g[k - 1] + Delta(facts, k)
        BY <4>1, <4>2 DEF Delta
      <4>4. QED
        BY <3>3, <4>3
    <3>4. QED
      BY <1>1, <3>1, <3>2, <3>3
  <2>3. g = [k \in 0 .. n |-> g[k]]
    OBVIOUS
  <2> HIDE DEF g
  <2>4. SumsUp(g, facts, n)
    BY <2>2, <2>3, Zenon DEF SumsUp
  <2>5. QED
    BY <2>4
<1> DEFINE f == CHOOSE h : SumsUp(h, facts, n)
<1>3. SumsUp(f, facts, n)
  BY <1>2, Zenon
<1>4. Consumed(facts) = f[n]
  BY Zenon DEF Consumed, SumsUp
<1> HIDE DEF f, g
<1>5. \A k \in 0 .. n : f[k] = IF k <= 1 THEN 0 ELSE f[k - 1] + Delta(facts, k)
  BY <1>3, Zenon DEF SumsUp
<1> DEFINE T == {k \in 1 .. n : f[k] # gain(k)}
<1>6. T = {}
  <2>1. SUFFICES ASSUME T # {} PROVE FALSE
    OBVIOUS
  <2>2. PICK k \in T : \A y \in T : k <= y
    <3>1. T \subseteq Nat
      OBVIOUS
    <3> HIDE DEF T
    <3>2. QED
      BY <2>1, <3>1, LeastOf
  <2>3. k \in 1 .. n /\ k \in 0 .. n /\ f[k] # gain(k)
    BY <2>2
  <2>4. k # 1
    BY <1>1, <1>5, <2>3
  <2>5. k - 1 \in 1 .. n /\ f[k - 1] = gain(k - 1)
    BY <2>2, <2>3, <2>4
  <2>6. f[k] = f[k - 1] + Delta(facts, k)
    BY <1>5, <2>3, <2>4
  <2>7. facts[k].energy \in Int /\ facts[k - 1].energy \in Int /\ facts[1].energy \in Int
    BY <1>1, <2>3, <2>5
  <2>8. QED
    BY <2>3, <2>5, <2>6, <2>7 DEF Delta
<1>7. n \in 1 .. n
  BY <1>1
<1>8. f[n] = gain(n)
  BY <1>6, <1>7
<1>9. QED
  BY <1>4, <1>8

-------------------------------------------------------------------------------
(* What a machine can have gained between two readings.                    *)

\* The counter of a machine that runs went up by no more than full power since
\* the pass that m is from, if the clock was not set since.
Reached(m) ==
    (up /\ m.boot = boot /\ Times(m.pass) = Times(regs[m.dev].pass))
        => 2 * (total[m.dev] - m.energy)
               <= 2 * (MaxPower * (regs[m.dev].pass.ticks - m.pass.ticks)) + Grid

\* The same between two messages of one process.
Gains(m, n) ==
    (m.boot = n.boot /\ m.pass.ticks <= n.pass.ticks /\ Times(m.pass) = Times(n.pass))
        => n.energy - m.energy <= MaxPower * (n.pass.ticks - m.pass.ticks) + Grid

GainInv ==
    /\ \A m \in Messages : Reached(m)
    /\ \A m, n \in Messages : m.dev = n.dev => Gains(m, n)

\* One more pass at a power the machine has.
LEMMA ReachedStays ==
    ASSUME EdgeInv, SimNext, NEW m \in Message, Known(m), Reached(m)
    PROVE  Reached(m)'
<1> DEFINE d == m.dev
           r == regs[d]
<1>1. /\ d \in Devices /\ m.pass \in Clock /\ m.energy \in Int /\ m.boot \in Nat
      /\ EdgeTypeOK /\ SimTypeOK /\ clock \in Clock /\ boot \in Nat
      /\ r.pass \in Clock /\ total[d] \in Int
  BY MessageTyping, RegisterTyping DEF EdgeInv, EdgeTypeOK, SimTypeOK
<1>2. m.boot <= boot /\ UpTo(m.pass, r.pass) /\ UpTo(r.pass, clock)
  BY <1>1 DEF Known, EdgeInv, SimInv, ClocksInOrder
<1>3. CASE Tick \/ SetClock \/ Crash
  BY <1>3 DEF Tick, SetClock, Crash, Reached
<1>4. CASE Boot
  <2>1. boot' = boot + 1
    BY <1>4 DEF Boot, Starts
  <2>2. m.boot # boot'
    BY <1>1, <1>2, <2>1
  <2>3. QED
    BY <2>2 DEF Reached
<1>5. CASE Refresh
  <2> SUFFICES ASSUME m.boot = boot', Times(m.pass) = Times(regs'[d].pass)
               PROVE  2 * (total'[d] - m.energy)
                          <= 2 * (MaxPower * (regs'[d].pass.ticks - m.pass.ticks)) + Grid
    BY DEF Reached
  <2>1. PICK power \in EmsPower : total' = [x \in Devices |-> Add(x, power[x])]
    BY <1>5 DEF Refresh
  <2>2. boot' = boot /\ up /\ regs' = Readout(total', boot)
    BY <1>5 DEF Refresh
  <2>3. regs'[d].pass = clock
    BY <1>1, <2>2 DEF Readout
  <2>4. total'[d] = total[d] + power[d] * (Wall(clock) - Wall(r.pass))
    BY <1>1, <2>1, <2>2 DEF Add, now, EdgeInv, SimInv, TotalsOfLastPass
  <2>5. Times(m.pass) = Times(r.pass) /\ Times(r.pass) = Times(clock)
    BY <1>1, <1>2, <2>3, SameTimes
  <2> DEFINE before == r.pass.ticks - m.pass.ticks
             step   == clock.ticks - r.pass.ticks
  <2>6. before \in Nat /\ step \in Nat /\ clock.ticks - m.pass.ticks = before + step
    BY <1>1, <1>2, ClockTyping DEF UpTo
  <2>7. Wall(clock) - Wall(r.pass) = step
    BY <1>1, <1>2, <2>5 DEF UpTo, Times, Wall, Clock
  <2>8. /\ MaxPower \in Nat /\ power[d] \in 0 .. MaxPower
    BY <1>1, <2>1, MaxPowerIsMost DEF EmsPower
  <2>9. 2 * (total[d] - m.energy) <= 2 * (MaxPower * before) + Grid
    BY <2>2, <2>5 DEF Reached
  <2> DEFINE p == power[d]
             e == total[d]
             after == total'[d]
             apart == regs'[d].pass.ticks - m.pass.ticks
  <2>10. after = e + p * step /\ apart = before + step
    BY <2>3, <2>4, <2>6, <2>7
  <2>11. e \in Int /\ p \in 0 .. MaxPower /\ 2 * (e - m.energy) <= 2 * (MaxPower * before) + Grid
    BY <1>1, <2>8, <2>9
  <2> HIDE DEF before, step, p, e, after, apart
  <2>12. /\ p * step \in Int /\ p * step <= MaxPower * step
         /\ MaxPower * before \in Int /\ MaxPower * step \in Int
         /\ MaxPower * (before + step) = MaxPower * before + MaxPower * step
    BY <2>6, <2>8, <2>11
  <2>13. 2 * (after - m.energy) <= 2 * (MaxPower * apart) + Grid
    BY <1>1, <2>10, <2>11, <2>12
  <2>14. QED
    BY <2>13 DEF after, apart
<1>6. QED
  BY <1>3, <1>4, <1>5 DEF SimNext

\* A new reading has the total of the last pass, rounded.
LEMMA ReadingReaches ==
    ASSUME EdgeInv, GainInv, NEW d \in Devices, up, task[d] = "read"
    PROVE  LET r == Reading(d)
           IN /\ Reached(r) /\ Gains(r, r)
              /\ \A m \in Messages : m.dev = d => Gains(m, r) /\ Gains(r, m)
<1> DEFINE r == Reading(d)
           e == total[d]
           t == regs[d].pass.ticks
<1>1. /\ r.dev = d /\ r.boot = boot /\ r.pass = regs[d].pass /\ r.energy = Rounded(e)
  BY DEF Reading, EdgeInv, SimInv, TotalsOfLastPass
<1>2. /\ EdgeTypeOK /\ SimTypeOK /\ regs[d].pass \in Clock /\ e \in Int /\ boot \in Nat
      /\ regs[d].energy \in Int /\ regs[d].energy = Rounded(e)
  BY RegisterTyping DEF EdgeInv, EdgeTypeOK, SimTypeOK, SimInv, TotalsOfLastPass
<1>3. /\ Rounded(e) \in Int
      /\ 2 * Rounded(e) <= 2 * e + Grid /\ 2 * Rounded(e) >= 2 * e - Grid
  BY <1>2, RoundedIsNear DEF Energy
<1>4. t \in Nat /\ MaxPower \in Nat /\ MaxPower * 0 = 0
  BY <1>2, ClockTyping, MaxPowerIsMost
<1> HIDE DEF r, e
<1>5. t - t = 0
  BY <1>4
<1>6. Reached(r)
  <2>1. 2 * (e - Rounded(e)) <= 2 * 0 + Grid
    BY <1>2, <1>3
  <2>2. QED
    BY <1>1, <1>4, <1>5, <2>1 DEF Reached, e
<1>7. Gains(r, r)
  <2>1. Rounded(e) - Rounded(e) <= 0 + Grid
    BY <1>3
  <2>2. QED
    BY <1>1, <1>4, <1>5, <2>1 DEF Gains
<1>8. ASSUME NEW m \in Messages, m.dev = d
      PROVE  Gains(m, r) /\ Gains(r, m)
  <2>1. /\ m \in Message /\ m.pass \in Clock /\ m.energy \in Int /\ m.pass.ticks \in Nat
    BY <1>2, MessagesTyping, MessageTyping, ClockTyping
  <2>2. /\ UpTo(m.pass, regs[d].pass)
        /\ m.boot = boot => (m.pass.ticks = t => m.energy = regs[d].energy)
    BY <1>8 DEF EdgeInv, AllKnown, Known
  <2>3. Gains(m, r)
    <3> SUFFICES ASSUME m.boot = boot, Times(m.pass) = Times(regs[d].pass)
                 PROVE  Rounded(e) - m.energy <= MaxPower * (t - m.pass.ticks) + Grid
      BY <1>1 DEF Gains
    <3> DEFINE most == MaxPower * (t - m.pass.ticks)
    <3>1. 2 * (e - m.energy) <= 2 * most + Grid
      BY <1>8 DEF GainInv, Reached, e
    <3>2. most \in Int
      BY <1>4, <2>1
    <3> HIDE DEF most
    <3>3. Rounded(e) - m.energy <= most + Grid
      BY <1>2, <1>3, <2>1, <3>1, <3>2
    <3>4. QED
      BY <3>3 DEF most
  <2>4. Gains(r, m)
    <3> SUFFICES ASSUME m.boot = boot, t <= m.pass.ticks
                 PROVE  m.energy - Rounded(e) <= MaxPower * (m.pass.ticks - t) + Grid
      BY <1>1 DEF Gains
    <3>1. m.pass.ticks = t
      BY <1>4, <2>1, <2>2 DEF UpTo
    <3>2. m.energy = Rounded(e) /\ m.pass.ticks - t = 0
      BY <1>2, <1>4, <2>2, <3>1
    <3>3. Rounded(e) - Rounded(e) <= 0 + Grid
      BY <1>3
    <3>4. QED
      BY <1>4, <3>2, <3>3
  <2>5. QED
    BY <2>3, <2>4
<1>9. QED
  BY <1>6, <1>7, <1>8 DEF r

\* Only a poll brings a new message.
LEMMA OldMessages ==
    ASSUME EdgeInv, [Next]_vars, ~(\E d \in Devices : PollSucceeds(d))
    PROVE  Messages' \subseteq Messages
<1>1. EdgeTypeOK /\ fresh \in Seq(Message) /\ log \in Seq(Message) /\ unacked \subseteq Message
  BY DEF EdgeInv, EdgeTypeOK
<1>2. CASE UNCHANGED <<fresh, unacked, log>>
  BY <1>2 DEF Messages, Tried, Original
<1>3. CASE GatewayCrashes
  BY <1>3 DEF GatewayCrashes, Messages, Tried, Original
<1>4. CASE Send
  <2> DEFINE h == Head(fresh)
  <2>1. /\ fresh # <<>> /\ fresh' = Tail(fresh) /\ unacked' \subseteq unacked \cup {h}
        /\ log' = log \/ log' = Append(log, h)
    BY <1>4 DEF Send
  <2>2. /\ 1 \in DOMAIN fresh /\ h = fresh[1] /\ h \in Message
        /\ \A i \in DOMAIN fresh' : i + 1 \in DOMAIN fresh /\ fresh'[i] = fresh[i + 1]
    BY <1>1, <2>1, HeadTailProperties, LenProperties
  <2> HIDE DEF h
  <2>3. \A i \in DOMAIN log' : log'[i] = h \/ (i \in DOMAIN log /\ log'[i] = log[i])
    <3>1. CASE log' = log
      BY <3>1
    <3>2. CASE log' = Append(log, h)
      BY <1>1, <2>2, <3>2, AppendProperties, LenProperties
    <3>3. QED
      BY <2>1, <3>1, <3>2
  <2>4. Tried' \subseteq Tried \cup {h}
    BY <2>1, <2>3 DEF Tried
  <2>5. {fresh'[i] : i \in DOMAIN fresh'} \subseteq {fresh[i] : i \in DOMAIN fresh}
    BY <2>2
  <2>6. h \in {fresh[i] : i \in DOMAIN fresh}
    BY <2>2
  <2>7. QED
    BY <2>4, <2>5, <2>6 DEF Messages, Original
<1>5. CASE \E m \in unacked : Resend(m)
  <2>1. PICK m \in unacked : Resend(m)
    BY <1>5
  <2> DEFINE c == [m EXCEPT !.again = TRUE]
  <2>2. /\ fresh' = fresh /\ unacked' \subseteq unacked /\ log' = Append(log, c)
    BY <2>1 DEF Resend
  <2>3. c \in Message /\ Original(c) = Original(m)
    BY <1>1, <2>1, CopyOf
  <2> HIDE DEF c
  <2>4. \A i \in DOMAIN log' : log'[i] = c \/ (i \in DOMAIN log /\ log'[i] = log[i])
    BY <1>1, <2>2, <2>3, AppendProperties, LenProperties
  <2>5. Tried' \subseteq Tried \cup {c}
    BY <2>2, <2>4 DEF Tried
  <2>6. Original(c) \in Messages
    BY <2>1, <2>3 DEF Messages, Tried
  <2>7. QED
    BY <2>2, <2>5, <2>6 DEF Messages, Original
<1>6. CASE \E m \in unacked : Expire(m)
  BY <1>6 DEF Expire, Messages, Tried, Original
<1>7. QED
  <2>1. CASE SimNext /\ UNCHANGED gwVars
    BY <1>2, <2>1 DEF gwVars
  <2>2. CASE UNCHANGED vars
    BY <1>2, <2>2 DEF vars, gwVars
  <2>3. CASE GatewayStarts
    BY <1>2, <2>3 DEF GatewayStarts
  <2>4. CASE \E d \in Devices : PollStarts(d) \/ PollFails(d)
    BY <1>2, <2>4 DEF PollStarts, PollFails
  <2>5. QED
    BY <1>3, <1>4, <1>5, <1>6, <2>1, <2>2, <2>3, <2>4 DEF Next

LEMMA GainInductive ==
    ASSUME EdgeInv, GainInv, [Next]_vars
    PROVE  GainInv'
<1>1. EdgeTypeOK /\ Messages \subseteq Message
  BY MessagesTyping DEF EdgeInv
<1>2. CASE \E d \in Devices : PollSucceeds(d)
  <2>1. PICK d \in Devices : PollSucceeds(d)
    BY <1>2
  <2> DEFINE r == Reading(d)
  <2>2. /\ UNCHANGED <<up, boot, total, regs, unacked, log>> /\ up /\ task[d] = "read"
        /\ fresh' = Append(fresh, r) /\ fresh \in Seq(Message)
    BY <1>1, <2>1 DEF PollSucceeds, simVars, EdgeTypeOK
  <2>3. r \in Message /\ Original(r) = r /\ r.dev = d
    BY <2>2, ReadingAgrees
  <2>4. /\ Reached(r) /\ Gains(r, r)
        /\ \A m \in Messages : m.dev = d => Gains(m, r) /\ Gains(r, m)
    BY <2>2, ReadingReaches
  <2> HIDE DEF r
  <2>5. \A i \in DOMAIN fresh' : fresh'[i] = r \/ (i \in DOMAIN fresh /\ fresh'[i] = fresh[i])
    BY <2>2, <2>3, AppendProperties, LenProperties
  <2>6. Messages' \subseteq Messages \cup {r}
    <3>1. Tried' = Tried
      BY <2>2 DEF Tried
    <3>2. {fresh'[i] : i \in DOMAIN fresh'} \subseteq {fresh[i] : i \in DOMAIN fresh} \cup {r}
      BY <2>5
    <3>3. QED
      BY <2>3, <3>1, <3>2 DEF Messages, Original
  <2>7. \A m : Reached(m) => Reached(m)'
    BY <2>2 DEF Reached
  <2>8. \A m \in Messages' : Reached(m)'
    BY <2>4, <2>6, <2>7 DEF GainInv
  <2>9. \A m, n \in Messages' : m.dev = n.dev => Gains(m, n)
    BY <2>3, <2>4, <2>6 DEF GainInv
  <2>10. QED
    BY <2>8, <2>9 DEF GainInv
<1>3. CASE ~(\E d \in Devices : PollSucceeds(d))
  <2>1. Messages' \subseteq Messages
    BY <1>3, OldMessages
  <2>2. SimNext \/ UNCHANGED simVars
    BY EdgeStepSimulates
  <2>3. ASSUME NEW m \in Messages
        PROVE  Reached(m)'
    <3>1. m \in Message /\ Known(m) /\ Reached(m)
      BY <1>1 DEF EdgeInv, AllKnown, GainInv
    <3>2. CASE SimNext
      BY <3>1, <3>2, ReachedStays
    <3>3. CASE UNCHANGED simVars
      BY <3>1, <3>3 DEF Reached, simVars
    <3>4. QED
      BY <2>2, <3>2, <3>3
  <2>4. QED
    BY <2>1, <2>3 DEF GainInv
<1>4. QED
  BY <1>2, <1>3

-------------------------------------------------------------------------------
(* The topic and what landed of it.                                        *)

\* A topic is only appended to, one message at a time.
LEMMA TopicGrows ==
    ASSUME EdgeInv, EdgeInv', [Next]_vars
    PROVE  /\ Len(log) \in Nat /\ Len(log') \in Nat
           /\ \/ log' = log
              \/ Len(log) < MaxLog /\ Len(log') = Len(log) + 1
<1>1. /\ fresh \in Seq(Message) /\ log \in Seq(Message) /\ unacked \subseteq Message
      /\ log' \in Seq(Message)
  BY DEF EdgeInv, EdgeTypeOK
<1>2. Len(log) \in Nat /\ Len(log') \in Nat
  BY <1>1, LenProperties
<1>3. CASE UNCHANGED log
  BY <1>2, <1>3
<1>4. CASE Send
  <2>1. fresh # <<>> /\ (log' = log \/ (Len(log) < MaxLog /\ log' = Append(log, Head(fresh))))
    BY <1>4 DEF Send
  <2>2. Head(fresh) \in Message
    BY <1>1, <2>1, HeadTailProperties
  <2>3. QED
    BY <1>1, <1>2, <2>1, <2>2, AppendProperties
<1>5. CASE \E m \in unacked : Resend(m)
  <2>1. PICK m \in unacked : Resend(m)
    BY <1>5
  <2> DEFINE c == [m EXCEPT !.again = TRUE]
  <2>2. Len(log) < MaxLog /\ log' = Append(log, c) /\ c \in Message
    BY <1>1, <2>1, CopyOf DEF Resend
  <2> HIDE DEF c
  <2>3. QED
    BY <1>1, <1>2, <2>2, AppendProperties
<1>6. QED
  <2>1. CASE SimNext /\ UNCHANGED gwVars
    BY <1>3, <2>1 DEF gwVars
  <2>2. CASE UNCHANGED vars
    BY <1>3, <2>2 DEF vars, gwVars
  <2>3. CASE GatewayStarts \/ GatewayCrashes
    BY <1>3, <2>3 DEF GatewayStarts, GatewayCrashes
  <2>4. CASE \E d \in Devices : PollStarts(d) \/ PollSucceeds(d) \/ PollFails(d)
    BY <1>3, <2>4 DEF PollStarts, PollSucceeds, PollFails
  <2>5. CASE \E m \in unacked : Expire(m)
    BY <1>3, <2>5 DEF Expire
  <2>6. QED
    BY <1>4, <1>5, <2>1, <2>2, <2>3, <2>4, <2>5 DEF Next

\* Every row is a message of the topic.
RowsInTopic ==
    /\ Len(rows) \in Nat /\ DOMAIN rows = 1 .. Len(rows)
    /\ \A i \in DOMAIN rows : rows[i].offset \in 0 .. Len(log) - 1

PipeInv == EdgeInv /\ GainInv /\ RowsInTopic

LEMMA PipeInitially == PipeInit => PipeInv
<1> SUFFICES ASSUME PipeInit PROVE PipeInv
  OBVIOUS
<1>1. EdgeInv
  BY EdgeInitially DEF PipeInit
<1>2. Messages = {}
  BY DEF PipeInit, Init, Messages, Tried
<1>3. RowsInTopic
  BY DEF PipeInit, RowsInTopic
<1>4. QED
  BY <1>1, <1>2, <1>3 DEF PipeInv, GainInv

LEMMA PipeInductive ==
    ASSUME PipeInv, [PipeNext]_pipeVars
    PROVE  PipeInv'
<1>1. [Next]_vars
  BY DEF PipeNext, pipeVars, Edge, ConsumerJoins, Lands
<1>2. EdgeInv' /\ GainInv'
  BY <1>1, EdgeInductive, GainInductive DEF PipeInv
<1>3. /\ Len(log) \in Nat /\ Len(log') \in Nat
      /\ log' = log \/ Len(log') = Len(log) + 1
  BY <1>1, <1>2, TopicGrows DEF PipeInv
<1>4. RowsInTopic'
  <2>1. CASE rows' = rows
    BY <1>3, <2>1 DEF PipeInv, RowsInTopic
  <2>2. CASE Lands
    <3>1. PICK offset \in 0 .. Len(log) - 1, taken \in 0 .. session :
              rows' = Append(rows, [topic |-> Topic, offset |-> offset, session |-> taken])
      BY <2>2 DEF Lands
    <3> DEFINE row == [topic |-> Topic, offset |-> offset, session |-> taken]
    <3>2. row.offset = offset /\ rows' = Append(rows, row)
      BY <3>1
    <3>3. log' = log
      BY <2>2 DEF Lands, vars, gwVars
    <3> HIDE DEF row
    <3>4. /\ Len(rows') = Len(rows) + 1 /\ DOMAIN rows' = 1 .. Len(rows) + 1
          /\ rows'[Len(rows) + 1] = row
          /\ \A i \in 1 .. Len(rows) : rows'[i] = rows[i]
      BY <3>2 DEF PipeInv, RowsInTopic
    <3>5. \A i \in DOMAIN rows' : rows'[i].offset \in 0 .. Len(log) - 1
      BY <3>1, <3>2, <3>4 DEF PipeInv, RowsInTopic
    <3>6. QED
      BY <3>3, <3>4, <3>5 DEF PipeInv, RowsInTopic
  <2>3. rows' = rows \/ Lands
    BY DEF PipeNext, pipeVars, Edge, ConsumerJoins, Landing!NewSession
  <2>4. QED
    BY <2>1, <2>2, <2>3
<1>5. QED
  BY <1>2, <1>4 DEF PipeInv

\* The invariant of the pipeline: what the messages say of a machine is what
\* it could have used, and the rows say no more.
THEOREM PipeInvariant == PipeSpec => []PipeInv
BY PipeInitially, PipeInductive, PTL DEF PipeSpec

-------------------------------------------------------------------------------
(* The energy facts.                                                       *)

LEMMA LandedFacts ==
    ASSUME PipeInv, NEW i \in DOMAIN Landed
    PROVE  \E j \in DOMAIN log : Landed[i] = log[j]
<1>1. log \in Seq(Message)
  BY DEF PipeInv, EdgeInv, EdgeTypeOK
<1>2. rows[i].offset + 1 \in DOMAIN log /\ Landed[i] = log[rows[i].offset + 1]
  BY <1>1, LenProperties DEF Landed, PipeInv, RowsInTopic
<1>3. QED
  BY <1>2

\* Two readings of a machine from one process under one clock.
LEMMA LaterReading ==
    ASSUME PipeInv, NEW i \in DOMAIN log, NEW j \in DOMAIN log,
           log[i].dev = log[j].dev, log[i].boot = log[j].boot,
           OneClock({log[i], log[j]}), log[i].ts < log[j].ts
    PROVE  /\ log[i].energy <= log[j].energy
           /\ log[j].energy - log[i].energy
                  <= MaxPower * (log[j].pass.ticks - log[i].pass.ticks) + Grid
<1> DEFINE m == log[i]
           n == log[j]
<1>1. /\ m \in Message /\ n \in Message /\ m.ts = Wall(m.start) /\ n.ts = Wall(n.start)
      /\ Agree(m, n) /\ EdgeTypeOK
  BY LogAgrees DEF PipeInv, EdgeInv
<1>2. Times(m.start) = Times(n.start) /\ Times(m.pass) = Times(n.pass)
  BY DEF OneClock
<1>3. m.start.ticks < n.start.ticks
  <2>1. m.start \in Clock /\ n.start \in Clock /\ Wall(m.start) < Wall(n.start)
    BY <1>1, MessageTyping
  <2>2. UpTo(m.start, n.start) \/ UpTo(n.start, m.start)
    BY <1>1 DEF Agree
  <2>3. QED
    BY <1>2, <2>1, <2>2 DEF UpTo, Times, Wall, Clock
<1>4. m.pass.ticks <= n.pass.ticks
  BY <1>1, <1>3 DEF Agree
<1>5. Gains(Original(m), Original(n))
  BY <1>1, LogIsMessages DEF PipeInv, GainInv
<1>6. Gains(m, n)
  BY <1>1, <1>5, LogIsMessages DEF Gains
<1>7. QED
  BY <1>1, <1>2, <1>3, <1>4, <1>6 DEF Agree, Gains

\* The facts of a machine add up in whatever order the database takes the
\* readings of one instant.
LEMMA OrderedAddUp ==
    ASSUME PipeInv, NEW d, NEW facts, Len(facts) \in Nat, DOMAIN facts = 1 .. Len(facts),
           \A k \in 1 .. Len(facts) :
               \E j \in DOMAIN log : facts[k] = log[j] /\ log[j].dev = d,
           \A k \in 2 .. Len(facts) : facts[k - 1].ts <= facts[k].ts,
           OneSource(facts)
    PROVE  AddUp(facts)
<1>1. \A k \in 1 .. Len(facts) : facts[k].energy \in Int /\ facts[k].ts \in Int
  <2>1. \A j \in DOMAIN log : log[j].energy \in Int /\ log[j].ts \in Int
    BY MessagesTyping, MessageTyping DEF PipeInv, EdgeInv
  <2>2. QED
    BY <2>1
<1>2. Len(facts) # 0
  <2>1. ASSUME Len(facts) = 0
        PROVE  facts = <<>>
    <3>1. DOMAIN facts = {}
      BY <2>1
    <3>2. QED
      BY <3>1
  <2>2. QED
    BY <2>1 DEF OneSource
<1>3. Consumed(facts) = facts[Len(facts)].energy - facts[1].energy
  BY <1>1, <1>2, SumTelescopes
<1>4. ASSUME NEW k \in 2 .. Len(facts)
      PROVE  /\ Delta(facts, k) >= 0
             /\ \/ facts[k].ts = facts[k - 1].ts
                \/ Delta(facts, k)
                       <= MaxPower * (facts[k].pass.ticks - facts[k - 1].pass.ticks) + Grid
  <2>1. k \in 1 .. Len(facts) /\ k - 1 \in 1 .. Len(facts) /\ 1 \in 1 .. Len(facts)
    OBVIOUS
  <2>2. PICK i \in DOMAIN log : facts[k - 1] = log[i] /\ log[i].dev = d
    BY <2>1
  <2>3. PICK j \in DOMAIN log : facts[k] = log[j] /\ log[j].dev = d
    BY <2>1
  <2>4. CASE facts[k].ts = facts[k - 1].ts
    <3>1. facts[k].energy = facts[k - 1].energy
      BY <2>1, <2>4 DEF OneSource
    <3>2. QED
      BY <1>1, <2>1, <2>4, <3>1 DEF Delta
  <2>5. CASE facts[k].ts # facts[k - 1].ts
    <3>1. facts[k - 1].ts < facts[k].ts
      BY <1>1, <2>1, <2>5
    <3>2. log[i].boot = log[j].boot
      BY <2>1, <2>2, <2>3 DEF OneSource
    <3>3. OneClock({log[i], log[j]})
      BY <2>1, <2>2, <2>3 DEF OneSource, OneClock
    <3>4. /\ log[i].energy <= log[j].energy
          /\ log[j].energy - log[i].energy
                 <= MaxPower * (log[j].pass.ticks - log[i].pass.ticks) + Grid
      BY <2>2, <2>3, <3>1, <3>2, <3>3, LaterReading
    <3>5. facts[k].energy - facts[k - 1].energy >= 0
      BY <1>1, <2>1, <2>2, <2>3, <3>4
    <3>6. QED
      BY <2>2, <2>3, <3>4, <3>5 DEF Delta
  <2>6. QED
    BY <2>4, <2>5
<1>5. QED
  BY <1>3, <1>4 DEF AddUp

\* What the warehouse reports adds up to what the counter gained, whatever
\* was retried, reordered, lost, skipped or landed twice on the way
\* (publisher.py, main.py of the consumer, fact_energy_reading.sql).
THEOREM ReportsAddUp == PipeSpec => []LandedAddsUp
<1>1. ASSUME PipeInv
      PROVE  LandedAddsUp
  <2> SUFFICES ASSUME NEW d \in Devices, OneSource(ByTime(Landed, d))
               PROVE  AddUp(ByTime(Landed, d))
    BY DEF LandedAddsUp
  <2> DEFINE facts == ByTime(Landed, d)
             at == {i \in DOMAIN Landed : Landed[i].dev = d}
  <2>1. DOMAIN Landed = 1 .. Len(rows) /\ Len(rows) \in Nat
    BY <1>1 DEF Landed, PipeInv, RowsInTopic
  <2>2. IsFiniteSet(DOMAIN Landed) /\ DOMAIN Landed \subseteq Int
    BY <2>1, FS_Interval
  <2>3. \A i \in DOMAIN Landed : Landed[i].ts \in Int
    <3>1. \A j \in DOMAIN log : log[j].ts \in Int
      BY <1>1, MessagesTyping, MessageTyping DEF PipeInv, EdgeInv
    <3>2. QED
      BY <1>1, <3>1, LandedFacts
  <2>4. PICK p :
            /\ Len(facts) \in Nat /\ DOMAIN facts = 1 .. Len(facts)
            /\ p \in Bijection(1 .. Len(facts), at)
            /\ \A k \in 1 .. Len(facts) : facts[k] = Landed[p[k]]
            /\ \A k \in 2 .. Len(facts) : facts[k - 1].ts <= facts[k].ts
    BY <2>2, <2>3, InTimeOrder
  <2> HIDE DEF facts, at
  <2>5. ASSUME NEW k \in 1 .. Len(facts)
        PROVE  \E j \in DOMAIN log : facts[k] = log[j] /\ log[j].dev = d
    <3>1. p[k] \in at /\ facts[k] = Landed[p[k]]
      BY <2>4 DEF Bijection, Injection
    <3>2. p[k] \in DOMAIN Landed /\ Landed[p[k]].dev = d
      BY <3>1 DEF at
    <3>3. QED
      BY <1>1, <3>1, <3>2, LandedFacts
  <2>6. OneSource(facts)
    BY DEF facts
  <2>7. AddUp(facts)
    BY <1>1, <2>4, <2>5, <2>6, OrderedAddUp
  <2>8. QED
    BY <2>7 DEF facts
<1>2. QED
  BY <1>1, PipeInvariant, PTL

-------------------------------------------------------------------------------
(* The consumer's promises.                                                *)

\* The pipeline is a raw.telemetry whose topic is filled by the edge.
THEOREM PipelineLands == PipeSpec => Landing!Spec
<1>1. PipeInit => Landing!Init
  BY DEF PipeInit, Init, Landing!Init
<1>2. ASSUME PipeInv, PipeInv', [PipeNext]_pipeVars
      PROVE  [Landing!Next]_Landing!vars
  <2>1. CASE UNCHANGED pipeVars
    BY <2>1 DEF pipeVars, vars, gwVars, Landing!vars
  <2>2. CASE ConsumerJoins
    BY <2>2 DEF ConsumerJoins, Landing!Next
  <2>3. CASE Lands
    BY <2>3 DEF Lands, Landing!Next
  <2>4. CASE Edge
    <3>1. /\ Len(log) \in Nat /\ UNCHANGED <<rows, session>>
          /\ log' = log \/ (Len(log) < MaxLog /\ Len(log') = Len(log) + 1)
      BY <1>2, <2>4, TopicGrows DEF Edge, PipeInv
    <3>2. CASE log' = log
      BY <3>1, <3>2 DEF Landing!vars
    <3>3. CASE Len(log) < MaxLog /\ Len(log') = Len(log) + 1
      <4>1. Landing!Publish(Topic)
        BY <3>1, <3>3 DEF Landing!Publish
      <4>2. QED
        BY <4>1 DEF Landing!Next
    <3>4. QED
      BY <3>1, <3>2, <3>3
  <2>5. QED
    BY <1>2, <2>1, <2>2, <2>3, <2>4 DEF PipeNext
<1>3. QED
  BY <1>1, <1>2, PipeInvariant, PTL DEF PipeSpec, Landing!Spec
===============================================================================
