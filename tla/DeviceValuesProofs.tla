-------------------------- MODULE DeviceValuesProofs --------------------------
(***************************************************************************)
(* What DeviceValues promises of the generated metrics, for every load of  *)
(* a day, every draw at its middle and its ends, healthy and faulty.       *)
(***************************************************************************)
EXTENDS DeviceValues, FiniteSetTheorems, WellFoundedInduction, TLAPS

USE LoadsAssumption, FlowsAssumption DEF LoadsAssumption, FlowsAssumption

-------------------------------------------------------------------------------
(* Limits.                                                                 *)

LEMMA MaxIs ==
    ASSUME NEW S, NEW m \in S, S \subseteq Int, \A x \in S : x <= m
    PROVE  Max(S) = m
<1>1. Max(S) \in S /\ \A y \in S : Max(S) >= y
  <2>1. \A y \in S : m >= y
    OBVIOUS
  <2>2. QED
    BY <2>1, Zenon DEF Max
<1> DEFINE g == Max(S)
<1> HIDE DEF g
<1>2. g \in S /\ \A y \in S : g >= y
  BY <1>1 DEF g
<1>3. g = m
  BY <1>2
<1>4. QED
  BY <1>3 DEF g

LEMMA MinIs ==
    ASSUME NEW S, NEW m \in S, S \subseteq Int, \A x \in S : m <= x
    PROVE  Min(S) = m
<1>1. Min(S) \in S /\ \A y \in S : Min(S) <= y
  BY Zenon DEF Min
<1> DEFINE g == Min(S)
<1> HIDE DEF g
<1>2. g \in S /\ \A y \in S : g <= y
  BY <1>1 DEF g
<1>3. g = m
  BY <1>2
<1>4. QED
  BY <1>3 DEF g

\* _clamp(v, lo, hi), also for limits that are not in order.
LEMMA Clamped ==
    ASSUME NEW v \in Int, NEW lo \in Int, NEW hi \in Int
    PROVE  Clamp(v, lo, hi) = IF v <= lo \/ hi <= lo THEN lo ELSE IF hi <= v THEN hi ELSE v
<1>1. Min({hi, v}) = IF hi <= v THEN hi ELSE v
  <2>1. CASE hi <= v
    BY <2>1, MinIs
  <2>2. CASE ~(hi <= v)
    BY <2>2, MinIs
  <2>3. QED
    BY <2>1, <2>2
<1> DEFINE least == Min({hi, v})
<1>2. least = IF hi <= v THEN hi ELSE v
  BY <1>1
<1> HIDE DEF least
<1>3. Max({lo, least}) = IF least <= lo THEN lo ELSE least
  <2>1. CASE least <= lo
    BY <1>2, <2>1, MaxIs
  <2>2. CASE ~(least <= lo)
    BY <1>2, <2>2, MaxIs
  <2>3. QED
    BY <2>1, <2>2
<1>4. Clamp(v, lo, hi) = Max({lo, least})
  BY DEF Clamp, least
<1>5. QED
  BY <1>2, <1>3, <1>4

LEMMA InRange ==
    ASSUME NEW v \in Int, NEW lo \in Int, NEW hi \in Int, lo <= v, v <= hi
    PROVE  v \in lo .. hi
OBVIOUS

\* A metric of integers whose limits leave it alone.
Within(m) == /\ m.raw \in Int /\ m.lo \in Int /\ m.hi \in Int
             /\ m.lo <= m.raw /\ m.raw <= m.hi

Healthy(m) == \A k \in DOMAIN m : Within(m[k])

\* The loops of a chiller, an AHU and the header, each of which is warmer
\* behind what it cools.
ChillerLoops(m) ==
    /\ Value(m.Chilled_Water_Supply_Temp) \in Int
    /\ 5000 <= Value(m.Chilled_Water_Supply_Temp)
    /\ Value(m.Chilled_Water_Supply_Temp) <= 12000
    /\ Value(m.Chilled_Water_Return_Temp) > Value(m.Chilled_Water_Supply_Temp)
    /\ Value(m.Condensor_Return_Temp) > Value(m.Condensor_Supply_Temp)

AhuLoop(m) ==
    /\ Value(m.Supply_Temp) \in Int
    /\ 10000 <= Value(m.Supply_Temp) /\ Value(m.Supply_Temp) <= 20000
    /\ Value(m.Return_Temp) > Value(m.Supply_Temp)

HeaderLoops(m) ==
    /\ Value(m.CHWR_Temp) > Value(m.CHWS_Temp)
    /\ Value(m.CDWR_Temp) > Value(m.CDWS_Temp)

LEMMA WithinShows ==
    ASSUME NEW m, Within(m)
    PROVE  Value(m) = m.raw
BY Clamped DEF Within, Value

LEMMA MetricShows ==
    ASSUME NEW v \in Int, NEW lo \in Int, NEW hi \in Int
    PROVE  /\ Value(Metric(v, lo, hi)) =
                  IF v <= lo \/ hi <= lo THEN lo ELSE IF hi <= v THEN hi ELSE v
           /\ lo <= v /\ v <= hi => Within(Metric(v, lo, hi))
BY Clamped DEF Value, Metric, Within

-------------------------------------------------------------------------------
(* The types.                                                              *)

\* A chiller.
LEMMA ChillerShows ==
    ASSUME NEW load \in 0 .. 100, NEW n \in [1 .. 4 -> -1 .. 1], NEW low \in BOOLEAN,
           NEW m, m = Chiller(load, n, low)
    PROVE  /\ ~low => Healthy(m)
           /\ ChillerLoops(m)
<1> DEFINE chws == 7000 + 250 * n[1]
           gain == Percent(3000 + 50 * load + 150 * n[2], Only(low, 45))
           cdws == 27000 + 50 * load + 400 * n[3]
           cdwr == cdws + (Lift(load) + 250 * n[4])
<1>1. \A i \in 1 .. 4 : n[i] \in Int /\ -1 <= n[i] /\ n[i] <= 1
  OBVIOUS
<1>2. /\ chws \in Int /\ 6750 <= chws /\ chws <= 7250
      /\ cdws \in Int /\ 26600 <= cdws /\ cdws <= 32400
  BY <1>1
<1>3. gain \in Int /\ 0 < gain /\ gain <= 8150 /\ (~low => 2850 <= gain)
  <2> DEFINE full == 3000 + 50 * load + 150 * n[2]
  <2>1. full \in Int /\ 2850 <= full /\ full <= 8150
    BY <1>1
  <2>2. gain = (full * (IF low THEN 45 ELSE 100)) \div 100
    BY DEF Percent, Only
  <2> HIDE DEF full, gain
  <2>3. QED
    BY <2>1, <2>2
<1>4. cdwr \in Int /\ cdws + 2750 <= cdwr /\ cdwr <= cdws + 4750
  BY <1>1, <1>2 DEF Lift
<1>5. m = [Chilled_Water_Supply_Temp |-> Metric(chws, 5000, 12000),
           Chilled_Water_Return_Temp |-> Metric(chws + gain, chws + 1000, 18000),
           Condensor_Supply_Temp     |-> Metric(cdws, 24000, 34000),
           Condensor_Return_Temp     |-> Metric(cdwr, cdws + 1000, 38000)]
  BY DEF Chiller, Warmed
<1> HIDE DEF chws, gain, cdws, cdwr
<1>6. /\ Within(m.Chilled_Water_Supply_Temp) /\ m.Chilled_Water_Supply_Temp.raw = chws
      /\ Within(m.Condensor_Supply_Temp) /\ m.Condensor_Supply_Temp.raw = cdws
      /\ Within(m.Condensor_Return_Temp) /\ m.Condensor_Return_Temp.raw = cdwr
      /\ ~low => Within(m.Chilled_Water_Return_Temp)
  BY <1>2, <1>3, <1>4, <1>5 DEF Within, Metric
<1>7. Value(m.Chilled_Water_Return_Temp) > chws
  BY <1>2, <1>3, <1>5, MetricShows
<1>8. ~low => Healthy(m)
  BY <1>5, <1>6 DEF Healthy
<1>9. /\ Value(m.Chilled_Water_Supply_Temp) = chws
      /\ Value(m.Condensor_Supply_Temp) = cdws
      /\ Value(m.Condensor_Return_Temp) = cdwr
  BY <1>6, WithinShows
<1>10. QED
  BY <1>2, <1>4, <1>7, <1>8, <1>9 DEF ChillerLoops

\* The flow of an AHU with a healthy fan, and with a stalled one.
LEMMA AirFlows ==
    ASSUME NEW load \in 0 .. 100, NEW n \in -1 .. 1, NEW fault \in BOOLEAN
    PROVE  /\ Flow(load, n, fault) \in Int
           /\ ~fault => /\ 530 * AirFlow <= Flow(load, n, fault)
                        /\ Flow(load, n, fault) <= 1020 * AirFlow
           /\ fault => Flow(load, n, fault) <= 184 * AirFlow
           /\ (~fault /\ load = 0 /\ n = -1) => Flow(load, n, fault) = 530 * AirFlow
<1> DEFINE base == Percent(1000 * AirFlow, 55 + 2 * n)
           rest == Percent(450 * AirFlow, load)
<1>1. base \in Int /\ base = 10 * (AirFlow * (55 + 2 * n))
  <2>1. CASE n = -1
    BY <2>1 DEF Percent
  <2>2. CASE n = 0
    BY <2>2 DEF Percent
  <2>3. CASE n = 1
    BY <2>3 DEF Percent
  <2>4. QED
    BY <2>1, <2>2, <2>3
<1>2. /\ 530 * AirFlow <= base /\ base <= 570 * AirFlow
      /\ n = -1 => base = 530 * AirFlow
  <2>1. n = -1 \/ n = 0 \/ n = 1
    OBVIOUS
  <2>2. QED
    BY <1>1, <2>1
<1>3. rest \in Int /\ 0 <= rest /\ rest <= 450 * AirFlow /\ (load = 0 => rest = 0)
  <2> DEFINE product == AirFlow * load
  <2>1. product \in Nat /\ product <= AirFlow * 100
    OBVIOUS
  <2>2. rest = (450 * product) \div 100 /\ (load = 0 => product = 0)
    BY DEF Percent
  <2> HIDE DEF product, rest
  <2>3. QED
    BY <2>1, <2>2
<1>4. Flow(load, n, fault) = ((base + rest) * (IF fault THEN 18 ELSE 100)) \div 100
  BY DEF Flow, Percent, Only
<1> HIDE DEF base, rest
<1>5. QED
  BY <1>1, <1>2, <1>3, <1>4

\* An AHU.
LEMMA AhuShows ==
    ASSUME NEW load \in 0 .. 100, NEW n \in [1 .. 5 -> -1 .. 1], NEW fault \in BOOLEAN,
           NEW m, m = Ahu(load, n, fault)
    PROVE  /\ (~fault /\ AirFlow >= 95) => Healthy(m)
           /\ AhuLoop(m)
           /\ m.Supply_Flow = Metric(Flow(load, n[5], fault), 50000, 1100 * AirFlow)
<1> DEFINE st == 14000 + 350 * n[1] + (IF fault THEN 3500 ELSE 0)
           rt == 22000 + 55 * load + 500 * n[2]
           rh == 58000 + 1500 * n[3]
           rr == rh - 2000 + 30 * load + 1200 * n[4]
           flow == Flow(load, n[5], fault)
<1>1. \A i \in 1 .. 5 : n[i] \in Int /\ -1 <= n[i] /\ n[i] <= 1
  OBVIOUS
<1>2. /\ st \in Int /\ 13650 <= st /\ st <= 17850
      /\ rt \in Int /\ 21500 <= rt /\ rt <= 28000
      /\ rh \in Int /\ 56500 <= rh /\ rh <= 59500
      /\ rr \in Int /\ 53300 <= rr /\ rr <= 61700
  BY <1>1
<1>3. flow \in Int /\ (~fault => 530 * AirFlow <= flow /\ flow <= 1020 * AirFlow)
  <2> DEFINE draw == n[5]
  <2>1. draw \in -1 .. 1 /\ flow = Flow(load, draw, fault)
    OBVIOUS
  <2> HIDE DEF draw, flow
  <2>2. QED
    BY <2>1, AirFlows, SMTT(30)
<1>4. m = [Supply_Temp |-> Metric(st, 10000, 20000),
           Return_Temp |-> Metric(rt, 18000, 32000),
           Supply_RH   |-> Metric(rh, 45000, 75000),
           Return_RH   |-> Metric(rr, 40000, 72000),
           Supply_Flow |-> Metric(flow, 50000, 1100 * AirFlow)]
  BY DEF Ahu
<1> HIDE DEF st, rt, rh, rr, flow
<1>5. /\ Within(m.Supply_Temp) /\ m.Supply_Temp.raw = st
      /\ Within(m.Return_Temp) /\ m.Return_Temp.raw = rt
      /\ Within(m.Supply_RH) /\ Within(m.Return_RH)
      /\ (~fault /\ AirFlow >= 95) => Within(m.Supply_Flow)
  BY <1>2, <1>3, <1>4 DEF Within, Metric
<1>6. (~fault /\ AirFlow >= 95) => Healthy(m)
  BY <1>4, <1>5 DEF Healthy
<1>7. Value(m.Supply_Temp) = st /\ Value(m.Return_Temp) = rt
  BY <1>5, WithinShows
<1>8. m.Supply_Flow = Metric(flow, 50000, 1100 * AirFlow)
  BY <1>4
<1>9. AhuLoop(m)
  BY <1>2, <1>7 DEF AhuLoop
<1>10. QED
  BY <1>5, <1>6, <1>8, <1>9 DEF flow

\* A cooling tower.
LEMMA CoolingTowerShows ==
    ASSUME NEW load \in 0 .. 100, NEW n \in [1 .. 3 -> -1 .. 1],
           NEW fault, ~fault, NEW m, m = CoolingTower(load, n, fault)
    PROVE  Healthy(m)
<1> DEFINE temp == 22000 + 100 * load + 700 * n[1]
           rh   == 78000 - 160 * load + 2000 * n[2]
<1>1. \A i \in 1 .. 3 : n[i] \in Int /\ -1 <= n[i] /\ n[i] <= 1
  OBVIOUS
<1>2. /\ temp \in Int /\ 21300 <= temp /\ temp <= 32700
      /\ rh \in Int /\ 60000 <= rh /\ rh <= 80000
  BY <1>1
<1>3. temp + 0 = temp
  BY <1>2
<1>4. m = [Outdoor_MIT_01_Temp |-> Metric(temp, 14000, 40000),
           Outdoor_MIT_01_RH   |-> Metric(rh, 30000, 95000)]
  BY <1>3 DEF CoolingTower
<1> HIDE DEF temp, rh
<1>5. Within(m.Outdoor_MIT_01_Temp) /\ Within(m.Outdoor_MIT_01_RH)
  BY <1>2, <1>4 DEF Within, Metric
<1>6. QED
  BY <1>4, <1>5 DEF Healthy

\* The header of the chillers.
LEMMA ChillerHeaderShows ==
    ASSUME NEW load \in 0 .. 100, NEW n \in [1 .. 7 -> -1 .. 1], NEW low \in BOOLEAN,
           NEW m, m = ChillerHeader(load, n, low)
    PROVE  /\ ~low => Healthy(m)
           /\ HeaderLoops(m)
<1> DEFINE chws == 7000 + 350 * n[1]
           gain == 3000 + 40 * load + 300 * n[2]
           chwr == chws + gain
           cdws == 28000 + 45 * load + 400 * n[3]
           cdwr == cdws + (3000 + 20 * load + 300 * n[4])
           dpt  == Percent(210000 + 700 * load + 6000 * n[5], Only(low, 55))
           cw   == 175000 + 450 * load + 5000 * n[6]
           flow == 420000 + 1100 * load + 12000 * n[7]
<1>1. \A i \in 1 .. 7 : n[i] \in Int /\ -1 <= n[i] /\ n[i] <= 1
  OBVIOUS
<1>2. /\ chws \in Int /\ 6650 <= chws /\ chws <= 7350
      /\ cdws \in Int /\ 27600 <= cdws /\ cdws <= 32900
      /\ cw \in Int /\ 170000 <= cw /\ cw <= 225000
      /\ flow \in Int /\ 408000 <= flow /\ flow <= 542000
  BY <1>1
<1>3. /\ chwr \in Int /\ chws + 2700 <= chwr /\ chwr <= chws + 7300
      /\ cdwr \in Int /\ cdws + 2700 <= cdwr /\ cdwr <= cdws + 5300
  BY <1>1, <1>2
<1>4. dpt \in Int /\ (~low => 204000 <= dpt /\ dpt <= 286000)
  <2> DEFINE full == 210000 + 700 * load + 6000 * n[5]
  <2>1. full \in Int /\ 204000 <= full /\ full <= 286000
    BY <1>1
  <2>2. dpt = (full * (IF low THEN 55 ELSE 100)) \div 100
    BY DEF Percent, Only
  <2> HIDE DEF full, dpt
  <2>3. QED
    BY <2>1, <2>2
<1>5. gain \in Int /\ 2700 <= gain /\ gain <= 7300
  BY <1>1
<1>6. m = [CHWS_Temp |-> Metric(chws, 5000, 12000),
           CHWR_Temp |-> Metric(chwr, chws + 1000, 18000),
           CDWS_Temp |-> Metric(cdws, 24000, 36000),
           CDWR_Temp |-> Metric(cdwr, cdws + 1000, 40000),
           CHW_DPT   |-> Metric(dpt, 120000, 320000),
           CW_DPT    |-> Metric(cw, 100000, 260000),
           consumptionFlowRate |-> Metric(flow, 150000, 600000),
           CHW_PDT   |-> Metric(gain, 1000, 10000)]
  BY DEF ChillerHeader, Warmed
<1> HIDE DEF chws, gain, chwr, cdws, cdwr, dpt, cw, flow
<1>7. /\ Within(m.CHWS_Temp) /\ m.CHWS_Temp.raw = chws
      /\ Within(m.CHWR_Temp) /\ m.CHWR_Temp.raw = chwr
      /\ Within(m.CDWS_Temp) /\ m.CDWS_Temp.raw = cdws
      /\ Within(m.CDWR_Temp) /\ m.CDWR_Temp.raw = cdwr
      /\ Within(m.CHW_PDT)
  BY <1>2, <1>3, <1>5, <1>6 DEF Within, Metric
<1>8. /\ Within(m.CW_DPT) /\ Within(m.consumptionFlowRate)
      /\ ~low => Within(m.CHW_DPT)
  BY <1>2, <1>4, <1>6 DEF Within, Metric
<1>9. ~low => Healthy(m)
  BY <1>6, <1>7, <1>8 DEF Healthy
<1>10. /\ Value(m.CHWS_Temp) = chws /\ Value(m.CHWR_Temp) = chwr
       /\ Value(m.CDWS_Temp) = cdws /\ Value(m.CDWR_Temp) = cdwr
  BY <1>7, WithinShows
<1>11. QED
  BY <1>2, <1>3, <1>9, <1>10 DEF HeaderLoops

\* The air compressors: a plant of 204 l/s is the least whose quarter at
\* night does not meet the limit of 30 l/s.
LEMMA CompressorsShow ==
    ASSUME PlantFlow >= 204,
           NEW load \in 0 .. 100, NEW stage \in 1 .. 4, NEW n \in [1 .. 1 -> -1 .. 1],
           NEW fault, ~fault, NEW m, m = Compressors(load, stage, n, fault)
    PROVE  Healthy(m)
<1> DEFINE capacity == 250 * stage * PlantFlow
           base     == Percent(capacity, 65)
           part     == Percent(capacity, 35)
           rest     == Percent(part, load)
           flow     == base + rest + 15 * PlantFlow * n[1]
           shown    == Percent(flow, Only(fault, 35))
<1>1. n[1] \in Int /\ (n[1] = -1 \/ n[1] = 0 \/ n[1] = 1)
  OBVIOUS
<1>2. capacity \in Nat /\ 250 * PlantFlow <= capacity /\ capacity <= 1000 * PlantFlow
  <2>1. stage = 1 \/ stage = 2 \/ stage = 3 \/ stage = 4
    OBVIOUS
  <2>2. QED
    BY <2>1
<1> HIDE DEF capacity
<1>3. /\ base \in Int /\ 65 * capacity < 100 * base + 100 /\ 100 * base <= 65 * capacity
      /\ part \in Nat /\ 100 * part <= 35 * capacity
  BY <1>2 DEF Percent
<1>4. rest \in Int /\ 0 <= rest /\ rest <= part
  <2> DEFINE product == part * load
  <2> HIDE DEF part
  <2>1. product \in Nat /\ product <= part * 100
    BY <1>3
  <2>2. rest = product \div 100
    BY DEF Percent
  <2> HIDE DEF product, rest
  <2>3. QED
    BY <1>3, <2>1, <2>2
<1> HIDE DEF base, part, rest
<1>5. flow \in Int /\ 30000 <= flow /\ flow <= 1150 * PlantFlow
  <2> DEFINE draw == 15 * PlantFlow * n[1]
  <2>1. draw \in Int /\ -(15 * PlantFlow) <= draw /\ draw <= 15 * PlantFlow
    <3>1. CASE n[1] = -1
      BY <3>1
    <3>2. CASE n[1] = 0
      BY <3>2
    <3>3. CASE n[1] = 1
      BY <3>3
    <3>4. QED
      BY <1>1, <3>1, <3>2, <3>3
  <2> HIDE DEF draw
  <2>2. base + rest \in Int /\ 325 * PlantFlow <= 2 * (base + rest) + 2
        /\ base + rest <= 1000 * PlantFlow
    BY <1>2, <1>3, <1>4
  <2>3. flow = base + rest + draw
    BY DEF draw
  <2> HIDE DEF flow
  <2>4. QED
    BY <2>1, <2>2, <2>3
<1>6. shown = flow
  <2> HIDE DEF flow
  <2>1. QED
    BY <1>5 DEF Percent, Only
<1>7. m = [Total_Flow |-> Metric(shown, 30000, 1150 * PlantFlow)]
  BY DEF Compressors, capacity, base, part, rest
<1> HIDE DEF flow, shown
<1>8. Within(m.Total_Flow)
  BY <1>5, <1>6, <1>7 DEF Within, Metric
<1>9. QED
  BY <1>7, <1>8 DEF Healthy

\* An air cooler.
LEMMA AirCoolerShows ==
    ASSUME NEW load \in 0 .. 100, NEW n \in [1 .. 2 -> -1 .. 1],
           NEW fault, ~fault, NEW m, m = AirCooler(load, n, fault)
    PROVE  Healthy(m)
<1> DEFINE temp == 14000 + 25 * load + 450 * n[1] + 0
<1>1. n[1] \in Int /\ -1 <= n[1] /\ n[1] <= 1
  OBVIOUS
<1>2. temp \in Int /\ 13550 <= temp /\ temp <= 16950
  BY <1>1
<1>3. m = [Supply_Temp |-> Metric(temp, 10000, 22000)]
  BY DEF AirCooler
<1> HIDE DEF temp
<1>4. QED
  BY <1>2, <1>3 DEF Within, Metric, Healthy

\* What is further along in a range is greater.
LEMMA Places ==
    ASSUME NEW range, range.lo \in Int, range.hi \in Int, range.lo < range.hi,
           NEW p \in Int, NEW q \in Int, p <= q
    PROVE  At(range, p) \in Int /\ At(range, q) \in Int /\ At(range, p) <= At(range, q)
<1> DEFINE span == range.hi - range.lo
           x    == span * p
           y    == span * q
<1>1. span \in Int /\ 0 < span
  OBVIOUS
<1> HIDE DEF span
<1>2. x \in Int /\ y \in Int /\ x <= y
  <2>1. span * (q - p) \in Int /\ 0 <= span * (q - p) /\ span * (q - p) = y - x
    BY <1>1
  <2>2. x \in Int /\ y \in Int
    BY <1>1
  <2> HIDE DEF x, y
  <2>3. QED
    BY <2>1, <2>2
<1>3. /\ At(range, p) = range.lo + (x \div 1000)
      /\ At(range, q) = range.lo + (y \div 1000)
  BY DEF At, x, y, span
<1> HIDE DEF x, y
<1>4. QED
  BY <1>2, <1>3

\* A metric that is drawn in its calibrated range stays within a tenth of it.
LEMMA FallbackShows ==
    ASSUME NEW range, range.lo \in Int, range.hi \in Int, range.lo < range.hi,
           NEW load \in 0 .. 100, NEW n \in [1 .. 3 -> -1 .. 1],
           NEW fault \in BOOLEAN, NEW m, m = Fallback(range, load, n, fault)
    PROVE  /\ ~fault => Within(m)
           /\ Value(m) \in Int
           /\ At(range, -100) <= Value(m) /\ Value(m) <= At(range, 1100)
<1> DEFINE jump  == (IF n[2] < 0 THEN -1 ELSE 1) * (450 + 150 * n[3])
           place == 350 + 5 * load + 20 * n[1] + (IF fault THEN jump ELSE 0)
           lo    == At(range, -100)
           hi    == At(range, 1100)
           raw   == At(range, place)
<1>1. \A i \in 1 .. 3 : n[i] \in Int /\ -1 <= n[i] /\ n[i] <= 1
  OBVIOUS
<1>2. jump \in Int
  BY <1>1
<1> HIDE DEF jump
<1>3. place \in Int /\ (~fault => -100 <= place /\ place <= 1100)
  BY <1>1, <1>2
<1>4. m = Metric(raw, lo, hi)
  BY DEF Fallback, jump
<1> HIDE DEF place
<1>5. lo \in Int /\ hi \in Int /\ lo <= hi
  BY Places
<1>6. raw \in Int
  BY <1>3, Places
<1>7. ~fault => lo <= raw /\ raw <= hi
  BY <1>3, Places
<1> HIDE DEF raw, lo, hi
<1>8. QED
  <2>1. /\ Value(m) = IF raw <= lo \/ hi <= lo THEN lo ELSE IF hi <= raw THEN hi ELSE raw
        /\ lo <= raw /\ raw <= hi => Within(m)
    BY <1>4, <1>5, <1>6, MetricShows
  <2>2. Value(m) \in Int /\ lo <= Value(m) /\ Value(m) <= hi
    BY <1>5, <1>6, <2>1
  <2>3. QED
    BY <1>7, <2>1, <2>2 DEF lo, hi

-------------------------------------------------------------------------------
(* Machines.                                                               *)

LEMMA Dimmed ==
    ASSUME NEW load \in 0 .. 100, NEW level, level \in Nat, 8960 <= level, level <= 144200
    PROVE  /\ Diminished(level, load) \in Int
           /\ 5935 <= Diminished(level, load) /\ Diminished(level, load) <= 140955
<1> DEFINE duty   == Duty(load)
           factor == 5500 + 45 * duty
           scaled == level * factor
<1>1. duty \in Int /\ 25 <= duty /\ duty <= 95
  BY DEF Duty
<1> HIDE DEF duty
<1>2. factor \in Int /\ 6625 <= factor /\ factor <= 9775
  BY <1>1
<1> HIDE DEF factor
<1>3. scaled \in Int /\ 6625 * level <= scaled /\ scaled <= 9775 * level
  <2>1. level * 6625 <= level * factor /\ level * factor <= level * 9775
    BY <1>2
  <2>2. level * factor \in Int
    BY <1>2
  <2>3. QED
    BY <2>1, <2>2
<1>4. Diminished(level, load) = scaled \div 10000
  BY DEF Diminished, scaled, factor, duty
<1> HIDE DEF scaled
<1>5. QED
  BY <1>3, <1>4

LEMMA MouldingLevels ==
    ASSUME NEW load \in 0 .. 100, NEW n \in -1 .. 1, NEW e,
           e = Envelope("INJECTION_MOULDING"), NEW level \in InjectionMoulding(e, load, n)
    PROVE  level \in Int /\ 5935 <= level /\ level <= 140955
<1>1. e.lo = 8000 /\ e.hi = 140000 /\ e.nominal = 75000
  BY DEF Envelope
<1>2. PICK full \in {Percent(e.hi, 55 + 4 * n), Percent(e.hi, 100 + 3 * n),
                     Percent(e.nominal, 75 + 4 * n), Percent(e.lo, 120 + 8 * n)} :
          level = Diminished(full, load)
  BY DEF InjectionMoulding
<1>3. full \in Nat /\ 8960 <= full /\ full <= 144200
  <2>1. Percent(e.hi, 55 + 4 * n) = 77000 + 5600 * n
    BY <1>1 DEF Percent
  <2>2. Percent(e.hi, 100 + 3 * n) = 140000 + 4200 * n
    BY <1>1 DEF Percent
  <2>3. Percent(e.nominal, 75 + 4 * n) = 56250 + 3000 * n
    BY <1>1 DEF Percent
  <2>4. Percent(e.lo, 120 + 8 * n) = 9600 + 640 * n
    BY <1>1 DEF Percent
  <2>5. full \in {77000 + 5600 * n, 140000 + 4200 * n, 56250 + 3000 * n, 9600 + 640 * n}
    BY <1>2, <2>1, <2>2, <2>3, <2>4
  <2>6. QED
    BY <2>5
<1>4. level = Diminished(full, load)
  BY <1>2
<1>5. QED
  BY <1>3, <1>4, Dimmed

LEMMA CncLevels ==
    ASSUME NEW load, NEW n \in -1 .. 1, NEW e, e = Envelope("CNC"), NEW level \in Cnc(e, load, n)
    PROVE  level \in Int /\ 680 <= level /\ level <= 32820
<1>1. e.lo = 2000 /\ e.hi = 35000 /\ e.nominal = 15000
  BY DEF Envelope
<1>2. Percent(e.hi - e.lo, 4 * n) = 1320 * n
  BY <1>1 DEF Percent
<1>3. /\ Percent(e.nominal, 60) = 9000 /\ Percent(e.nominal, 85) = 12750
      /\ Percent(e.hi, 90) = 31500 /\ Percent(e.nominal, 70) = 10500
      /\ Percent(e.lo, 150) = 3000
  BY <1>1 DEF Percent
<1>4. level = 2000 \/ \E pass \in {2000, 9000, 12750, 31500, 10500, 3000} : level = pass + 1320 * n
  BY <1>1, <1>2, <1>3 DEF Cnc
<1>5. QED
  BY <1>4

LEMMA HeatingLevels ==
    ASSUME NEW load, NEW n \in -1 .. 1, NEW e, e = Envelope("HEATING"),
           NEW level \in Heating(e, load, n)
    PROVE  level \in Int /\ 10000 <= level /\ level <= 220000
<1>1. e.lo = 10000 /\ e.hi = 220000 /\ e.nominal = 120000
  BY DEF Envelope
<1>2. n = -1 \/ n = 0 \/ n = 1
  OBVIOUS
<1>3. Percent(e.nominal, 110) = 132000
  BY <1>1 DEF Percent
<1>4. QED
  BY <1>1, <1>2, <1>3 DEF Heating, Blend, Percent

\* A machine draws power, and little more than its rated power.
LEMMA EmsShows ==
    ASSUME NEW type \in MachineTypes, NEW load \in 0 .. 100, NEW n \in [1 .. 2 -> -1 .. 1],
           NEW m \in EmsPower(type, load, n)
    PROVE  /\ Healthy(m)
           /\ Value(m.totalPower) > 0
           /\ 100 * Value(m.totalPower) < 103 * Envelope(type).hi
<1> DEFINE e     == Envelope(type)
           noise == (15 * (e.hi - e.lo) * n[2]) \div 1000
           levels == CASE type = "INJECTION_MOULDING" -> InjectionMoulding(e, load, n[1])
                       [] type = "CNC"                -> Cnc(e, load, n[1])
                       [] type = "HEATING"            -> Heating(e, load, n[1])
<1>1. n[1] \in -1 .. 1 /\ (n[2] = -1 \/ n[2] = 0 \/ n[2] = 1)
  OBVIOUS
<1>2. PICK level \in levels : m = [totalPower |-> Metric(level + noise, 0, Unclamped)]
  <2>1. EmsPower(type, load, n) =
            {[totalPower |-> Metric(level + noise, 0, Unclamped)] : level \in levels}
    BY ZenonT(60) DEF EmsPower
  <2> HIDE DEF noise, levels
  <2>2. QED
    BY <2>1
<1>3. /\ level + noise \in Int /\ 0 < level + noise
      /\ 100 * (level + noise) < 103 * e.hi /\ e.hi \in Int /\ e.hi <= 220000
  <2>1. CASE type = "INJECTION_MOULDING"
    <3>1. e.lo = 8000 /\ e.hi = 140000
      BY <2>1 DEF Envelope
    <3>2. level \in Int /\ 5935 <= level /\ level <= 140955
      BY <1>1, <2>1, MouldingLevels
    <3>3. noise \in Int /\ -1980 <= noise /\ noise <= 1980
      BY <1>1, <3>1
    <3> HIDE DEF noise, e
    <3>4. QED
      BY <3>1, <3>2, <3>3
  <2>2. CASE type = "CNC"
    <3>1. e.lo = 2000 /\ e.hi = 35000
      BY <2>2 DEF Envelope
    <3>2. level \in Int /\ 680 <= level /\ level <= 32820
      BY <1>1, <2>2, CncLevels
    <3>3. noise \in Int /\ -495 <= noise /\ noise <= 495
      BY <1>1, <3>1
    <3> HIDE DEF noise, e
    <3>4. QED
      BY <3>1, <3>2, <3>3
  <2>3. CASE type = "HEATING"
    <3>1. e.lo = 10000 /\ e.hi = 220000
      BY <2>3 DEF Envelope
    <3>2. level \in Int /\ 10000 <= level /\ level <= 220000
      BY <1>1, <2>3, HeatingLevels
    <3>3. noise \in Int /\ -3150 <= noise /\ noise <= 3150
      BY <1>1, <3>1
    <3> HIDE DEF noise, e
    <3>4. QED
      BY <3>1, <3>2, <3>3
  <2>4. QED
    BY <2>1, <2>2, <2>3 DEF MachineTypes
<1> DEFINE raw == level + noise
<1> HIDE DEF raw, noise, e, levels
<1>4. m = [totalPower |-> Metric(raw, 0, Unclamped)]
  BY <1>2 DEF raw
<1>5. raw \in Int /\ 0 < raw /\ 100 * raw < 103 * e.hi /\ e.hi \in Int /\ e.hi <= 220000
  BY <1>3 DEF raw
<1>6. Within(m.totalPower) /\ m.totalPower.raw = raw
  BY <1>4, <1>5 DEF Within, Metric, Unclamped
<1>7. Value(m.totalPower) = raw
  BY <1>6, WithinShows
<1>8. Healthy(m)
  BY <1>4, <1>6 DEF Healthy
<1>9. QED
  BY <1>5, <1>7, <1>8 DEF e

-------------------------------------------------------------------------------
(* A device.                                                               *)

\* What there is in the registers was computed for a device.
ReadingComputed ==
    \/ reading = Idle
    \/ \E d \in Devices, load \in Loads, fault \in BOOLEAN :
           /\ fault => d.type \notin MachineTypes
           /\ \E metrics \in Values(d, load, fault) :
                  reading = [type |-> d.type, load |-> load, fault |-> fault, metrics |-> metrics]

LEMMA AlwaysComputed == Spec => []ReadingComputed
<1>1. Init => ReadingComputed
  BY DEF Init, ReadingComputed
<1>2. ASSUME ReadingComputed, [Next]_reading
      PROVE  ReadingComputed'
  <2>1. CASE Compute
    BY <2>1 DEF Compute, ReadingComputed
  <2>2. CASE Store
    BY <2>2 DEF Store, ReadingComputed
  <2>3. CASE UNCHANGED reading
    BY <1>2, <2>3 DEF ReadingComputed
  <2>4. QED
    BY <1>2, <2>1, <2>2, <2>3 DEF Next
<1>3. QED
  BY <1>1, <1>2, PTL DEF Spec

LEMMA Types ==
    DOMAIN Draws = {"Chillers", "AHU", "CoolingTower", "ChillerHeader",
                    "AirCompressors", "AirCoolers", "Unknown"} \cup MachineTypes
BY DEF Draws, MachineTypes

LEMMA Ranges ==
    ASSUME NEW d \in Devices, NEW k \in DOMAIN d.metrics
    PROVE  /\ d.metrics[k].lo \in Int /\ d.metrics[k].hi \in Int
           /\ d.metrics[k].lo < d.metrics[k].hi
BY DevicesAssumption DEF DevicesAssumption

\* What a device with a generator g and metrics of its own publishes.
Drawn(d, g, load, fault, m) ==
    /\ DOMAIN m = DOMAIN d.metrics
    /\ \A k \in DOMAIN m : k \in DOMAIN g => m[k] = g[k]
    /\ \A k \in DOMAIN m : k \notin DOMAIN g =>
           \E n \in [1 .. 3 -> -1 .. 1] : m[k] = Fallback(d.metrics[k], load, n, fault)

\* bms_values() publishes what the generator knows of a metric, if anything.
LEMMA BmsPublished ==
    ASSUME NEW d \in Devices, d.type \notin MachineTypes, NEW load, NEW fault,
           NEW m \in Values(d, load, fault)
    PROVE  \E n \in Noise(Draws[d.type]) : \E g \in Generated(d.type, load, n, fault) :
               Drawn(d, g, load, fault, m)
<1>1. PICK keyed \in Keyed(d, load, fault) :
          \E n \in [DOMAIN d.metrics \ DOMAIN keyed -> Noise(3)] :
              m = [k \in DOMAIN d.metrics |->
                      IF k \in DOMAIN keyed THEN keyed[k]
                                            ELSE Fallback(d.metrics[k], load, n[k], fault)]
  BY DEF Values, BmsValues
<1>2. PICK other \in [DOMAIN d.metrics \ DOMAIN keyed -> Noise(3)] :
              m = [k \in DOMAIN d.metrics |->
                      IF k \in DOMAIN keyed THEN keyed[k]
                                            ELSE Fallback(d.metrics[k], load, other[k], fault)]
  BY <1>1
<1>3. PICK n \in Noise(Draws[d.type]) : \E g \in Generated(d.type, load, n, fault) :
          keyed = [k \in DOMAIN d.metrics \cap DOMAIN g |-> g[k]]
  <2> DEFINE published(g) == [k \in DOMAIN d.metrics \cap DOMAIN g |-> g[k]]
             of(n)        == {published(g) : g \in Generated(d.type, load, n, fault)}
  <2>1. keyed \in UNION {of(n) : n \in Noise(Draws[d.type])}
    BY DEF Keyed
  <2> HIDE DEF published
  <2>2. \E n \in Noise(Draws[d.type]) : \E g \in Generated(d.type, load, n, fault) :
            keyed = published(g)
    BY <2>1
  <2>3. QED
    BY <2>2 DEF published
<1>4. PICK g \in Generated(d.type, load, n, fault) :
          keyed = [k \in DOMAIN d.metrics \cap DOMAIN g |-> g[k]]
  BY <1>3
<1>5. DOMAIN keyed = DOMAIN d.metrics \cap DOMAIN g
  BY <1>4
<1>6. DOMAIN m = DOMAIN d.metrics
  BY <1>2
<1>7. ASSUME NEW k \in DOMAIN m, k \in DOMAIN g
      PROVE  m[k] = g[k]
  BY <1>2, <1>4, <1>5, <1>6, <1>7
<1>8. ASSUME NEW k \in DOMAIN m, k \notin DOMAIN g
      PROVE  \E e \in [1 .. 3 -> -1 .. 1] : m[k] = Fallback(d.metrics[k], load, e, fault)
  <2>1. other[k] \in [1 .. 3 -> -1 .. 1]
    BY <1>2, <1>5, <1>6, <1>8 DEF Noise
  <2>2. m[k] = Fallback(d.metrics[k], load, other[k], fault)
    BY <1>2, <1>5, <1>6, <1>8
  <2>3. QED
    BY <2>1, <2>2
<1>9. Drawn(d, g, load, fault, m)
  BY <1>6, <1>7, <1>8 DEF Drawn
<1>10. QED
  BY <1>9

\* What the generator of each type returns.
LEMMA ChillerValues ==
    ASSUME NEW load \in 0 .. 100, NEW fault \in BOOLEAN, NEW n \in Noise(Draws["Chillers"]),
           NEW g \in Generated("Chillers", load, n, fault)
    PROVE  /\ ~fault => Healthy(g)
           /\ ChillerLoops(g)
           /\ {"Chilled_Water_Supply_Temp", "Chilled_Water_Return_Temp",
               "Condensor_Supply_Temp", "Condensor_Return_Temp"} \subseteq DOMAIN g
<1>1. /\ n \in [1 .. 4 -> -1 .. 1]
      /\ \E low \in BOOLEAN : (~fault => ~low) /\ g = Chiller(load, n, low)
  BY DEF Noise, Draws, Generated
<1>2. PICK low \in BOOLEAN : (~fault => ~low) /\ g = Chiller(load, n, low)
  BY <1>1
<1>3. DOMAIN g = {"Chilled_Water_Supply_Temp", "Chilled_Water_Return_Temp",
                  "Condensor_Supply_Temp", "Condensor_Return_Temp"}
  BY <1>2 DEF Chiller
<1>4. QED
  BY <1>1, <1>2, <1>3, ChillerShows

LEMMA AhuValues ==
    ASSUME NEW load, NEW fault, NEW n \in Noise(Draws["AHU"]), NEW g \in Generated("AHU", load, n, fault)
    PROVE  /\ n \in [1 .. 5 -> -1 .. 1] /\ g = Ahu(load, n, fault)
           /\ {"Supply_Temp", "Return_Temp", "Supply_Flow"} \subseteq DOMAIN g
<1>1. n \in [1 .. 5 -> -1 .. 1] /\ g = Ahu(load, n, fault)
  BY DEF Noise, Draws, Generated
<1>2. DOMAIN g = {"Supply_Temp", "Return_Temp", "Supply_RH", "Return_RH", "Supply_Flow"}
  BY <1>1 DEF Ahu
<1>3. QED
  BY <1>1, <1>2

LEMMA CoolingTowerValues ==
    ASSUME NEW load \in 0 .. 100, NEW fault \in BOOLEAN, ~fault,
           NEW n \in Noise(Draws["CoolingTower"]), NEW g \in Generated("CoolingTower", load, n, fault)
    PROVE  Healthy(g)
<1>1. n \in [1 .. 3 -> -1 .. 1] /\ g = CoolingTower(load, n, fault)
  BY DEF Noise, Draws, Generated
<1>2. QED
  BY <1>1, CoolingTowerShows

LEMMA ChillerHeaderValues ==
    ASSUME NEW load \in 0 .. 100, NEW fault \in BOOLEAN, NEW n \in Noise(Draws["ChillerHeader"]),
           NEW g \in Generated("ChillerHeader", load, n, fault)
    PROVE  /\ ~fault => Healthy(g)
           /\ HeaderLoops(g)
           /\ DOMAIN g = {"CHWS_Temp", "CHWR_Temp", "CDWS_Temp", "CDWR_Temp", "CHW_DPT",
                          "CW_DPT", "consumptionFlowRate", "CHW_PDT"}
<1>1. /\ n \in [1 .. 7 -> -1 .. 1]
      /\ \E low \in BOOLEAN : (~fault => ~low) /\ g = ChillerHeader(load, n, low)
  BY DEF Noise, Draws, Generated
<1>2. PICK low \in BOOLEAN : (~fault => ~low) /\ g = ChillerHeader(load, n, low)
  BY <1>1
<1>3. DOMAIN g = {"CHWS_Temp", "CHWR_Temp", "CDWS_Temp", "CDWR_Temp", "CHW_DPT",
                  "CW_DPT", "consumptionFlowRate", "CHW_PDT"}
  BY <1>2 DEF ChillerHeader
<1>4. QED
  BY <1>1, <1>2, <1>3, ChillerHeaderShows

LEMMA CompressorValues ==
    ASSUME PlantFlow >= 204,
           NEW load \in 0 .. 100, NEW fault \in BOOLEAN, ~fault,
           NEW n \in Noise(Draws["AirCompressors"]), NEW g \in Generated("AirCompressors", load, n, fault)
    PROVE  Healthy(g)
<1>1. /\ n \in [1 .. 1 -> -1 .. 1]
      /\ \E stage \in 1 .. 4 : g = Compressors(load, stage, n, fault)
  BY DEF Noise, Draws, Generated
<1>2. PICK stage \in 1 .. 4 : g = Compressors(load, stage, n, fault)
  BY <1>1
<1>3. QED
  BY <1>1, <1>2, CompressorsShow

LEMMA AirCoolerValues ==
    ASSUME NEW load \in 0 .. 100, NEW fault \in BOOLEAN, ~fault,
           NEW n \in Noise(Draws["AirCoolers"]), NEW g \in Generated("AirCoolers", load, n, fault)
    PROVE  Healthy(g)
<1>1. n \in [1 .. 2 -> -1 .. 1] /\ g = AirCooler(load, n, fault)
  BY DEF Noise, Draws, Generated
<1>2. QED
  BY <1>1, AirCoolerShows

LEMMA EmsValues ==
    ASSUME NEW d \in Devices, d.type \in MachineTypes, NEW load \in 0 .. 100, NEW fault,
           NEW m \in Values(d, load, fault)
    PROVE  /\ Healthy(m)
           /\ Value(m.totalPower) > 0
           /\ 100 * Value(m.totalPower) < 103 * Envelope(d.type).hi
<1>1. PICK n \in Noise(Draws[d.type]) : m \in EmsPower(d.type, load, n)
  BY DEF Values
<1>2. Draws[d.type] = 2
  BY DEF Draws, MachineTypes
<1>3. n \in [1 .. 2 -> -1 .. 1]
  BY <1>1, <1>2 DEF Noise
<1>4. QED
  BY <1>1, <1>3, EmsShows

\* A healthy generator, of any type.
LEMMA HealthyGenerated ==
    ASSUME AirFlow >= 95, PlantFlow >= 204,
           NEW type \in DOMAIN Draws, type \notin MachineTypes,
           NEW load \in 0 .. 100, NEW fault \in BOOLEAN, ~fault,
           NEW n \in Noise(Draws[type]), NEW g \in Generated(type, load, n, fault)
    PROVE  Healthy(g)
<1>1. CASE type = "Chillers"
  BY <1>1, ChillerValues
<1>2. CASE type = "AHU"
  <2>1. n \in [1 .. 5 -> -1 .. 1] /\ g = Ahu(load, n, fault)
    BY <1>2, AhuValues
  <2>2. QED
    BY <2>1, AhuShows, SMTT(30)
<1>3. CASE type = "CoolingTower"
  BY <1>3, CoolingTowerValues
<1>4. CASE type = "ChillerHeader"
  BY <1>4, ChillerHeaderValues
<1>5. CASE type = "AirCompressors"
  BY <1>5, CompressorValues
<1>6. CASE type = "AirCoolers"
  BY <1>6, AirCoolerValues
<1>7. CASE type = "Unknown"
  <2>1. g = <<>>
    BY <1>7 DEF Generated
  <2>2. QED
    BY <2>1 DEF Healthy
<1>8. QED
  BY <1>1, <1>2, <1>3, <1>4, <1>5, <1>6, <1>7, Types

\* A healthy device, of any type and with any metrics.
LEMMA HealthyWithin ==
    ASSUME AirFlow >= 95, PlantFlow >= 204,
           NEW d \in Devices, NEW load \in 0 .. 100, NEW fault \in BOOLEAN, ~fault,
           NEW m \in Values(d, load, fault)
    PROVE  Healthy(m)
<1>1. CASE d.type \in MachineTypes
  BY <1>1, EmsValues
<1>2. CASE d.type \notin MachineTypes
  <2>1. PICK n \in Noise(Draws[d.type]) : \E g \in Generated(d.type, load, n, fault) :
            Drawn(d, g, load, fault, m)
    BY <1>2, BmsPublished
  <2>2. PICK g \in Generated(d.type, load, n, fault) : Drawn(d, g, load, fault, m)
    BY <2>1
  <2>3. Healthy(g)
    <3>1. d.type \in DOMAIN Draws
      BY DevicesAssumption DEF DevicesAssumption
    <3>2. QED
      BY <1>2, <3>1, HealthyGenerated
  <2>4. ASSUME NEW k \in DOMAIN m
        PROVE  Within(m[k])
    <3>1. CASE k \in DOMAIN g
      <4>1. m[k] = g[k]
        BY <2>2, <3>1 DEF Drawn
      <4>2. QED
        BY <2>3, <3>1, <4>1 DEF Healthy
    <3>2. CASE k \notin DOMAIN g
      <4>1. PICK e \in [1 .. 3 -> -1 .. 1] : m[k] = Fallback(d.metrics[k], load, e, fault)
        BY <2>2, <3>2 DEF Drawn
      <4>2. k \in DOMAIN d.metrics
        BY <2>2 DEF Drawn
      <4>3. QED
        BY <4>1, <4>2, Ranges, FallbackShows
    <3>3. QED
      BY <3>1, <3>2
  <2>5. QED
    BY <2>4 DEF Healthy
<1>3. QED
  BY <1>1, <1>2

-------------------------------------------------------------------------------
(* What follows.                                                           *)

\* A limit touches only faults (_clamp() in generators.py), whatever metrics a
\* device has, when the nominal flows are not so small that the least flow of
\* a night is below the fixed lower limits.
THEOREM OnlyFaultsAreClamped ==
    ASSUME AirFlow >= 95, PlantFlow >= 204
    PROVE  Spec => []ClampsIdle
<1>1. ASSUME ReadingComputed
      PROVE  ClampsIdle
  <2>1. CASE reading = Idle
    BY <2>1 DEF Idle, ClampsIdle, Published
  <2>2. CASE reading # Idle
    <3>1. PICK d \in Devices, load \in Loads, fault \in BOOLEAN :
              \E metrics \in Values(d, load, fault) :
                  reading = [type |-> d.type, load |-> load, fault |-> fault, metrics |-> metrics]
      BY <1>1, <2>2 DEF ReadingComputed
    <3>2. PICK metrics \in Values(d, load, fault) :
              reading = [type |-> d.type, load |-> load, fault |-> fault, metrics |-> metrics]
      BY <3>1
    <3>3. reading.fault = fault /\ reading.metrics = metrics
      BY <3>2
    <3>4. ~reading.fault => Healthy(reading.metrics)
      BY <3>3, HealthyWithin
    <3>5. QED
      BY <3>4 DEF ClampsIdle, Healthy, Within, Published
  <2>3. QED
    BY <2>1, <2>2
<1>2. QED
  BY <1>1, AlwaysComputed, PTL

\* A supply that is published within a range.
LEMMA SupplyInRange ==
    ASSUME NEW type, NEW k, NEW lo \in Int, NEW hi \in Int, SupplyRange(type) = <<k, lo, hi>>,
           NEW published, published => Shown(k) \in Int /\ lo <= Shown(k) /\ Shown(k) <= hi
    PROVE  LET range == SupplyRange(type)
           IN published => Shown(range[1]) \in range[2] .. range[3]
<1>1. published => Shown(k) \in lo .. hi
  BY InRange
<1>2. QED
  BY <1>1

\* The loops of a chiller.
LEMMA ChillerHolds ==
    ASSUME NEW d \in Devices, d.type = "Chillers", NEW load \in 0 .. 100, NEW fault \in BOOLEAN,
           NEW m \in Values(d, load, fault), reading.type = d.type, reading.metrics = m
    PROVE  LoopsHold
<1>1. PICK n \in Noise(Draws["Chillers"]) : \E g \in Generated("Chillers", load, n, fault) :
          Drawn(d, g, load, fault, m)
  <2>1. d.type \notin MachineTypes
    BY DEF MachineTypes
  <2>2. QED
    BY <2>1, BmsPublished
<1>2. PICK g \in Generated("Chillers", load, n, fault) : Drawn(d, g, load, fault, m)
  BY <1>1
<1>3. /\ ChillerLoops(g)
      /\ {"Chilled_Water_Supply_Temp", "Chilled_Water_Return_Temp",
          "Condensor_Supply_Temp", "Condensor_Return_Temp"} \subseteq DOMAIN g
  BY ChillerValues
<1>4. ASSUME NEW k \in Published, k \in DOMAIN g
      PROVE  Shown(k) = Value(g[k])
  BY <1>2, <1>4 DEF Drawn, Shown, Published
<1>5. \A l \in Loops("Chillers") :
          {l[1], l[2]} \subseteq Published => Shown(l[2]) > Shown(l[1])
  <2>1. {"Chilled_Water_Supply_Temp", "Chilled_Water_Return_Temp"} \subseteq Published
            => Shown("Chilled_Water_Return_Temp") > Shown("Chilled_Water_Supply_Temp")
    BY <1>3, <1>4 DEF ChillerLoops
  <2>2. {"Condensor_Supply_Temp", "Condensor_Return_Temp"} \subseteq Published
            => Shown("Condensor_Return_Temp") > Shown("Condensor_Supply_Temp")
    BY <1>3, <1>4 DEF ChillerLoops
  <2>3. QED
    BY <2>1, <2>2 DEF Loops
<1>6. "Chilled_Water_Supply_Temp" \in Published =>
          /\ Shown("Chilled_Water_Supply_Temp") \in Int
          /\ 4000 <= Shown("Chilled_Water_Supply_Temp")
          /\ Shown("Chilled_Water_Supply_Temp") <= 12000
  BY <1>3, <1>4 DEF ChillerLoops
<1>7. LET range == SupplyRange("Chillers")
      IN range[1] \in Published => Shown(range[1]) \in range[2] .. range[3]
  <2>1. SupplyRange("Chillers") = <<"Chilled_Water_Supply_Temp", 4000, 12000>>
    BY DEF SupplyRange
  <2>2. QED
    BY <1>6, <2>1, SupplyInRange
<1>8. QED
  BY <1>5, <1>7 DEF LoopsHold

\* The air of an AHU.
LEMMA AhuHolds ==
    ASSUME NEW d \in Devices, d.type = "AHU", NEW load \in 0 .. 100, NEW fault \in BOOLEAN,
           NEW m \in Values(d, load, fault), reading.type = d.type, reading.metrics = m
    PROVE  LoopsHold
<1>1. PICK n \in Noise(Draws["AHU"]) : \E g \in Generated("AHU", load, n, fault) :
          Drawn(d, g, load, fault, m)
  <2>1. d.type \notin MachineTypes
    BY DEF MachineTypes
  <2>2. QED
    BY <2>1, BmsPublished
<1>2. PICK g \in Generated("AHU", load, n, fault) : Drawn(d, g, load, fault, m)
  BY <1>1
<1>3. /\ n \in [1 .. 5 -> -1 .. 1] /\ g = Ahu(load, n, fault)
      /\ {"Supply_Temp", "Return_Temp"} \subseteq DOMAIN g
  BY AhuValues
<1>4. AhuLoop(g)
  BY <1>3, AhuShows, SMTT(30)
<1>5. ASSUME NEW k \in Published, k \in DOMAIN g
      PROVE  Shown(k) = Value(g[k])
  BY <1>2, <1>5 DEF Drawn, Shown, Published
<1>6. {"Supply_Temp", "Return_Temp"} \subseteq Published
          => Shown("Return_Temp") > Shown("Supply_Temp")
  BY <1>3, <1>4, <1>5 DEF AhuLoop
<1>7. "Supply_Temp" \in Published =>
          /\ Shown("Supply_Temp") \in Int
          /\ 10000 <= Shown("Supply_Temp") /\ Shown("Supply_Temp") <= 20000
  BY <1>3, <1>4, <1>5 DEF AhuLoop
<1>8. LET range == SupplyRange("AHU")
      IN range[1] \in Published => Shown(range[1]) \in range[2] .. range[3]
  <2>1. SupplyRange("AHU") = <<"Supply_Temp", 10000, 20000>>
    BY DEF SupplyRange
  <2>2. QED
    BY <1>7, <2>1, SupplyInRange
<1>9. \A l \in Loops("AHU") : {l[1], l[2]} \subseteq Published => Shown(l[2]) > Shown(l[1])
  BY <1>6 DEF Loops
<1>10. QED
  BY <1>8, <1>9 DEF LoopsHold

\* The water of a header, and the loop that no generator knows.
LEMMA HeaderHolds ==
    ASSUME RangesApart,
           NEW d \in Devices, d.type = "ChillerHeader", NEW load \in 0 .. 100, NEW fault \in BOOLEAN,
           NEW m \in Values(d, load, fault), reading.type = d.type, reading.metrics = m
    PROVE  LoopsHold
<1>1. PICK n \in Noise(Draws["ChillerHeader"]) : \E g \in Generated("ChillerHeader", load, n, fault) :
          Drawn(d, g, load, fault, m)
  <2>1. d.type \notin MachineTypes
    BY DEF MachineTypes
  <2>2. QED
    BY <2>1, BmsPublished
<1>2. PICK g \in Generated("ChillerHeader", load, n, fault) : Drawn(d, g, load, fault, m)
  BY <1>1
<1>3. /\ HeaderLoops(g)
      /\ {"CHWS_Temp", "CHWR_Temp", "CDWS_Temp", "CDWR_Temp"} \subseteq DOMAIN g
      /\ "Chiller_Header_Supply_Temp" \notin DOMAIN g
      /\ "Chiller_Header_Return_Temp" \notin DOMAIN g
  <2>1. /\ HeaderLoops(g)
        /\ DOMAIN g = {"CHWS_Temp", "CHWR_Temp", "CDWS_Temp", "CDWR_Temp", "CHW_DPT",
                       "CW_DPT", "consumptionFlowRate", "CHW_PDT"}
    BY ChillerHeaderValues
  <2>2. QED
    BY <2>1
<1>4. ASSUME NEW k \in Published, k \in DOMAIN g
      PROVE  Shown(k) = Value(g[k])
  BY <1>2, <1>4 DEF Drawn, Shown, Published
<1>5. ASSUME NEW k \in Published, k \notin DOMAIN g
      PROVE  /\ k \in DOMAIN d.metrics
             /\ At(d.metrics[k], -100) \in Int /\ At(d.metrics[k], 1100) \in Int
             /\ Shown(k) \in Int
             /\ At(d.metrics[k], -100) <= Shown(k) /\ Shown(k) <= At(d.metrics[k], 1100)
  <2>1. k \in DOMAIN m /\ k \in DOMAIN d.metrics /\ Shown(k) = Value(m[k])
    BY <1>2 DEF Drawn, Shown, Published
  <2>2. PICK e \in [1 .. 3 -> -1 .. 1] : m[k] = Fallback(d.metrics[k], load, e, fault)
    BY <1>2, <1>5, <2>1 DEF Drawn
  <2>3. /\ At(d.metrics[k], -100) \in Int /\ At(d.metrics[k], 1100) \in Int
    BY <2>1, Ranges, Places
  <2>4. /\ Value(m[k]) \in Int
        /\ At(d.metrics[k], -100) <= Value(m[k]) /\ Value(m[k]) <= At(d.metrics[k], 1100)
    BY <2>1, <2>2, Ranges, FallbackShows
  <2>5. QED
    BY <2>1, <2>3, <2>4
<1>6. {"CHWS_Temp", "CHWR_Temp"} \subseteq Published => Shown("CHWR_Temp") > Shown("CHWS_Temp")
  BY <1>3, <1>4 DEF HeaderLoops
<1>7. {"CDWS_Temp", "CDWR_Temp"} \subseteq Published => Shown("CDWR_Temp") > Shown("CDWS_Temp")
  BY <1>3, <1>4 DEF HeaderLoops
<1>8. ASSUME {"Chiller_Header_Supply_Temp", "Chiller_Header_Return_Temp"} \subseteq Published
      PROVE  Shown("Chiller_Header_Return_Temp") > Shown("Chiller_Header_Supply_Temp")
  <2> DEFINE s == "Chiller_Header_Supply_Temp"
             r == "Chiller_Header_Return_Temp"
  <2>1. s \in Published /\ r \in Published /\ s \notin DOMAIN g /\ r \notin DOMAIN g
    BY <1>3, <1>8
  <2>2. s \in DOMAIN d.metrics /\ r \in DOMAIN d.metrics
    BY <1>5, <2>1
  <2>3. At(d.metrics[s], 1100) < At(d.metrics[r], -100)
    BY <2>2 DEF RangesApart
  <2> HIDE DEF s, r
  <2>4. Shown(r) > Shown(s)
    BY <1>5, <2>1, <2>3
  <2>5. QED
    BY <2>4 DEF s, r
<1>9. \A l \in Loops("ChillerHeader") :
          {l[1], l[2]} \subseteq Published => Shown(l[2]) > Shown(l[1])
  BY <1>6, <1>7, <1>8 DEF Loops
<1>10. QED
  BY <1>9 DEF LoopsHold

\* No device reads as one that runs backwards (generators.py, the delta columns
\* and supply_temp_status of the staging views), whatever the nominal flows and
\* whichever metrics it has, when the sample keeps the one loop apart that no
\* generator knows.
THEOREM LoopsNeverRunBackwards ==
    ASSUME RangesApart
    PROVE  Spec => []LoopsHold
<1>1. ASSUME NEW d \in Devices, NEW load \in Loads, NEW fault \in BOOLEAN,
             NEW metrics \in Values(d, load, fault),
             reading = [type |-> d.type, load |-> load, fault |-> fault, metrics |-> metrics]
      PROVE  LoopsHold
  <2>1. load \in 0 .. 100 /\ reading.type = d.type /\ reading.metrics = metrics
    BY <1>1
  <2>2. CASE d.type = "Chillers"
    BY <2>1, <2>2, ChillerHolds
  <2>3. CASE d.type = "AHU"
    BY <2>1, <2>3, AhuHolds
  <2>4. CASE d.type = "ChillerHeader"
    BY <2>1, <2>4, HeaderHolds
  <2>5. CASE d.type \notin {"Chillers", "AHU", "ChillerHeader"}
    <3>1. Loops(d.type) = {}
      BY <2>5 DEF Loops
    <3>2. QED
      BY <2>1, <2>5, <3>1 DEF LoopsHold
  <2>6. QED
    BY <2>2, <2>3, <2>4, <2>5
<1>2. ASSUME reading = Idle
      PROVE  LoopsHold
  <2>1. reading.type = "none"
    BY <1>2 DEF Idle
  <2>2. Loops(reading.type) = {}
    BY <2>1 DEF Loops
  <2>3. QED
    BY <2>1, <2>2 DEF LoopsHold
<1>3. ReadingComputed => LoopsHold
  BY <1>1, <1>2 DEF ReadingComputed
<1>4. QED
  BY <1>3, AlwaysComputed, PTL

\* No machine draws nothing, or much more than its rated power (ems_power()).
THEOREM PowerIsRated == Spec => []PowerNearRating
<1>1. ASSUME NEW d \in Devices, NEW load \in Loads, NEW fault \in BOOLEAN,
             NEW metrics \in Values(d, load, fault),
             reading = [type |-> d.type, load |-> load, fault |-> fault, metrics |-> metrics],
             d.type \in MachineTypes
      PROVE  PowerNearRating
  <2>1. load \in 0 .. 100 /\ reading.type = d.type /\ reading.metrics = metrics
    BY <1>1
  <2>2. /\ Value(metrics.totalPower) > 0
        /\ 100 * Value(metrics.totalPower) < 103 * Envelope(d.type).hi
    BY <1>1, <2>1, EmsValues
  <2>3. Shown("totalPower") = Value(metrics.totalPower)
    BY <2>1 DEF Shown
  <2>4. QED
    BY <2>1, <2>2, <2>3 DEF PowerNearRating
<1>2. ASSUME reading.type \notin MachineTypes
      PROVE  PowerNearRating
  BY <1>2 DEF PowerNearRating
<1>3. ReadingComputed => PowerNearRating
  <2>1. "none" \notin MachineTypes
    BY DEF MachineTypes
  <2>2. QED
    BY <1>1, <1>2, <2>1 DEF ReadingComputed, Idle
<1>4. QED
  BY <1>3, AlwaysComputed, PTL

\* What the flow of an AHU shows.
LEMMA FlowShows ==
    ASSUME AirFlow >= 95,
           NEW load \in 0 .. 100, NEW n \in -1 .. 1, NEW fault \in BOOLEAN, NEW m,
           m = Metric(Flow(load, n, fault), 50000, 1100 * AirFlow)
    PROVE  /\ Value(m) \in Int
           /\ fault => Value(m) < 530 * AirFlow
           /\ ~fault => 530 * AirFlow <= Value(m)
           /\ (~fault /\ load = 0 /\ n = -1) => Value(m) = 530 * AirFlow
<1> DEFINE flow == Flow(load, n, fault)
           top  == 1100 * AirFlow
<1>1. /\ flow \in Int
      /\ ~fault => 530 * AirFlow <= flow /\ flow <= 1020 * AirFlow
      /\ fault => flow <= 184 * AirFlow
      /\ (~fault /\ load = 0 /\ n = -1) => flow = 530 * AirFlow
  BY AirFlows, SMTT(30)
<1>2. m = Metric(flow, 50000, top) /\ top \in Int
  OBVIOUS
<1> HIDE DEF flow
<1>3. Value(m) = IF flow <= 50000 \/ top <= 50000 THEN 50000
                 ELSE IF top <= flow THEN top ELSE flow
  BY <1>1, <1>2, MetricShows
<1>4. QED
  BY <1>1, <1>3

Calm == [i \in 1 .. 5 |-> -1]

\* What a healthy AHU shows when every draw is at its lower end.
LEMMA CalmShows ==
    ASSUME AirFlow >= 95,
           NEW load \in 0 .. 100, NEW fault \in BOOLEAN, ~fault
    PROVE  LET shown == Value(Ahu(load, Calm, fault).Supply_Flow)
           IN /\ shown \in Int /\ 530 * AirFlow <= shown
              /\ load = 0 => shown = 530 * AirFlow
<1> DEFINE m == Ahu(load, Calm, fault).Supply_Flow
<1>1. Calm[5] = -1
  BY DEF Calm
<1>2. m = Metric(Flow(load, -1, fault), 50000, 1100 * AirFlow)
  BY <1>1 DEF Ahu
<1> HIDE DEF m
<1>3. -1 \in -1 .. 1
  OBVIOUS
<1>4. /\ Value(m) \in Int /\ 530 * AirFlow <= Value(m)
      /\ load = 0 => Value(m) = 530 * AirFlow
  BY <1>2, <1>3, FlowShows
<1>5. QED
  BY <1>4 DEF m

\* The least that a healthy AHU shows is the flow at midnight.
LEMMA LeastFlow ==
    ASSUME AirFlow >= 95, NEW fault \in BOOLEAN, ~fault
    PROVE  Min({Value(Ahu(load, Calm, fault).Supply_Flow) : load \in Loads}) = 530 * AirFlow
<1> DEFINE night(load) == Value(Ahu(load, Calm, fault).Supply_Flow)
           shown == {night(load) : load \in Loads}
<1>1. ASSUME NEW load \in Loads
      PROVE  /\ night(load) \in Int /\ 530 * AirFlow <= night(load)
             /\ load = 0 => night(load) = 530 * AirFlow
  <2>1. load \in 0 .. 100
    OBVIOUS
  <2>2. QED
    BY <2>1, CalmShows
<1> HIDE DEF night
<1>2. 530 * AirFlow \in shown /\ shown \subseteq Int /\ \A x \in shown : 530 * AirFlow <= x
  BY <1>1
<1> HIDE DEF shown
<1>3. Min(shown) = 530 * AirFlow
  BY <1>2, MinIs, ZenonT(60)
<1>4. QED
  BY <1>3 DEF shown, night

\* A stalled fan shows (generators.py, _ahu_values()), when the nominal flow
\* is not so small that the limit of 50 l/s hides the healthy ones too.
THEOREM StallsShow ==
    ASSUME AirFlow >= 95
    PROVE  Spec => []StallShows
<1>1. ASSUME NEW d \in Devices, NEW load \in Loads, NEW fault \in BOOLEAN,
             NEW metrics \in Values(d, load, fault), d.type = "AHU",
             reading = [type |-> d.type, load |-> load, fault |-> fault, metrics |-> metrics],
             "Supply_Flow" \in Published
      PROVE  reading.fault <=> Shown("Supply_Flow") < 530 * AirFlow
  <2>1. /\ load \in 0 .. 100 /\ reading.fault = fault /\ reading.metrics = metrics
        /\ d.type \notin MachineTypes
    BY <1>1 DEF MachineTypes
  <2>2. PICK n \in Noise(Draws["AHU"]) : \E g \in Generated("AHU", load, n, fault) :
            Drawn(d, g, load, fault, metrics)
    BY <1>1, <2>1, BmsPublished
  <2>3. PICK g \in Generated("AHU", load, n, fault) : Drawn(d, g, load, fault, metrics)
    BY <2>2
  <2>4. n \in [1 .. 5 -> -1 .. 1] /\ g = Ahu(load, n, fault) /\ "Supply_Flow" \in DOMAIN g
    BY AhuValues
  <2>5. metrics.Supply_Flow = g.Supply_Flow
    BY <1>1, <2>1, <2>3, <2>4 DEF Drawn, Published
  <2>6. metrics.Supply_Flow = Metric(Flow(load, n[5], fault), 50000, 1100 * AirFlow)
    BY <2>1, <2>4, <2>5, AhuShows, SMTT(30)
  <2>7. n[5] \in -1 .. 1
    BY <2>4
  <2> DEFINE v == Value(metrics.Supply_Flow)
  <2>8. /\ v \in Int
        /\ fault => v < 530 * AirFlow
        /\ ~fault => 530 * AirFlow <= v
    BY <2>1, <2>6, <2>7, FlowShows, SMTT(30)
  <2>9. Shown("Supply_Flow") = v
    BY <2>1 DEF Shown
  <2> HIDE DEF v
  <2>10. QED
    BY <2>1, <2>8, <2>9
<1>2. ASSUME ReadingComputed
      PROVE  StallShows
  <2>1. CASE reading.type = "AHU" /\ "Supply_Flow" \in Published
    <3>1. reading # Idle
      BY <2>1 DEF Idle
    <3>2. reading.fault <=> Shown("Supply_Flow") < 530 * AirFlow
      BY <1>1, <1>2, <2>1, <3>1 DEF ReadingComputed
    <3>3. QED
      BY <3>2, LeastFlow, ZenonT(60) DEF StallShows, Calm
  <2>2. CASE ~(reading.type = "AHU" /\ "Supply_Flow" \in Published)
    BY <2>2 DEF StallShows
  <2>3. QED
    BY <2>1, <2>2
<1>3. QED
  BY <1>2, AlwaysComputed, PTL

===============================================================================
