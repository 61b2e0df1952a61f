---------------------------- MODULE MCStnEngine ----------------------------
EXTENDS StnEngine, TLC

(* Two headers, both modes, two tiers; the short pids share a frame, the    *)
(* long ones fill it, and one ("odo") fits none.                           *)
pid(mode, header, tier, len) == [mode |-> mode, header |-> header, tier |-> tier, len |-> len]
MCPids ==
  [rpm  |-> pid("01", "7E0", "Fast", 2),   speed |-> pid("01", "7E0", "Fast", 1),
   load |-> pid("01", "7E0", "Fast", 1),   boost |-> pid("22", "7E0", "Fast", 2),
   gear |-> pid("22", "7E1", "Fast", 4),   temp  |-> pid("01", "7E0", "Slow", 1),
   odo  |-> pid("22", "7E0", "Slow", 5)]
MCSignals == {{"rpm", "temp"}, {"rpm", "speed", "load", "boost"}, {"rpm", "boost", "gear"},
              {"load", "gear", "odo"}, {"rpm", "speed", "load", "boost", "gear", "temp"}}
MCChunkLimit == ("01" :> 6) @@ ("22" :> 1)

(* The packing, checked on every set of pids the gate lets engage.          *)
ASSUME MCPlanFits == \A s \in SUBSET DOMAIN Pids : Engages(s) => PlanFits(s)
============================================================================
