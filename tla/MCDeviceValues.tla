---------------------------- MODULE MCDeviceValues ----------------------------
(***************************************************************************)
(* DeviceValues at midnight, twice on the way up, and at noon, for one     *)
(* device of each set of metrics in samples/bms.csv, one whose type has no *)
(* generator, and one machine of each type.                                *)
(***************************************************************************)
EXTENDS DeviceValues

MCLoads == {0, 15, 50, 100}

Span(lo, hi) == [lo |-> lo, hi |-> hi]

Air == [Supply_Temp |-> Span(16297, 17603), Return_Temp |-> Span(27530, 28825),
        Supply_RH   |-> Span(68165, 70961), Return_RH   |-> Span(52029, 65965)]

Water == [CHWS_Temp |-> Span(6524, 6816), CHWR_Temp |-> Span(9588, 10072),
          CDWS_Temp |-> Span(28831, 32505), CDWR_Temp |-> Span(34370, 36331),
          CHW_DPT   |-> Span(969, 1757), CW_DPT    |-> Span(267, 325)]

\* BG-CHILLER-HEADER
Calibrated == [CHW_PDT                    |-> Span(2548, 3708),
               Chiller_Header_Return_Temp |-> Span(-1579, -577),
               Chiller_Header_Supply_Temp |-> Span(-2968, -2475)]

Device(type, metrics) == [type |-> type, metrics |-> metrics]

Machines == {Device(type, [totalPower |-> Span(Envelope(type).lo, Envelope(type).hi)]) :
             type \in MachineTypes}

MCDevices ==
    {Device("AHU", Air),
     Device("AHU", [k \in DOMAIN Air \cup {"Supply_Flow"} |->
                       IF k = "Supply_Flow" THEN Span(391695, 396321) ELSE Air[k]]),
     Device("Chillers", [Chilled_Water_Supply_Temp |-> Span(7959, 10515),
                         Chilled_Water_Return_Temp |-> Span(15340, 15664),
                         Condensor_Supply_Temp     |-> Span(27659, 28345),
                         Condensor_Return_Temp     |-> Span(32440, 32875)]),
     Device("ChillerHeader", Water),
     Device("ChillerHeader", [k \in {"CDWR_Temp", "CDWS_Temp", "CHW_DPT"} |-> Water[k]]),
     Device("ChillerHeader", [consumptionFlowRate |-> Span(118428, 158594)]),
     Device("CoolingTower", [Outdoor_MIT_01_RH   |-> Span(61564, 74336),
                             Outdoor_MIT_01_Temp |-> Span(27739, 28855)]),
     Device("AirCompressors", [Total_Flow |-> Span(422570, 515056)]),
     Device("AirCoolers", [Supply_Temp |-> Span(13825, 15690)]),
     Device("ChillerHeader", Calibrated),
     Device("Unknown", [metric |-> Span(-50, 1000)])}
        \cup Machines

\* The sample keeps the calibrated header's supply and return apart.
ASSUME SampleAssumption == RangesApart
===============================================================================
