----------------------------- MODULE MCBringup -----------------------------
EXTENDS Bringup, TLC

(* cx is listed without a chunk cap, dragy without the periodic engine, and  *)
(* other is not listed at all.                                              *)
adapter(cap, periodic, pipes, stn, auto) ==
  [cap |-> cap, periodic |-> periodic, pipes |-> pipes, stn |-> stn, auto |-> auto]
MCAdapters ==
  [cx |-> adapter(0, "yes", TRUE, TRUE, TRUE), dragy |-> adapter(1, "unsaid", FALSE, FALSE, FALSE),
   other |-> adapter(0, "unsaid", FALSE, FALSE, TRUE)]

(* 1 and 2 are in the standard block, 10 to 12 are body modules.            *)
vehicle(bus, vins, functional, named, positive, refusing, pairs, strategy) ==
  [bus |-> bus, vin |-> IF vins = <<>> THEN "none" ELSE vins[Min(DOMAIN vins)], vins |-> vins,
   functional |-> functional, named |-> named,
   positive |-> positive, refusing |-> refusing, pairs |-> pairs, strategy |-> strategy]
MCVehicles ==
  [mustang |-> vehicle("11", 1 :> "mustang", {1}, {1}, {10}, {11}, TRUE, TRUE),
   cruze   |-> vehicle("11", 1 :> "cruze" @@ 2 :> "donor", {1, 2}, {1, 2}, {10}, {}, TRUE, TRUE),
   plain   |-> vehicle("11", 1 :> "plain", {1}, {2}, {}, {}, FALSE, FALSE),
   jeep    |-> vehicle("29", 16 :> "jeep" @@ 40 :> "donor", {16, 40}, {16}, {}, {}, TRUE, FALSE),
   old     |-> vehicle("serial", <<>>, {}, {}, {}, {}, FALSE, FALSE),
   off     |-> vehicle("off", <<>>, {}, {}, {}, {}, FALSE, FALSE)]
row(addr) == [addr |-> addr, ms |-> FALSE]
MCDatasets ==
  [mustang |-> [kind |-> "ford", walk |-> <<row(1), row(10), row(11), row(12),
                                            [addr |-> 13, ms |-> TRUE]>>],
   cruze |-> [kind |-> "gm", walk |-> <<row(1), row(10)>>],
   plain |-> [kind |-> "none", walk |-> <<>>],
   jeep |-> [kind |-> "plain", walk |-> <<>>],
   donor |-> [kind |-> "ford", walk |-> <<row(1), row(10), row(12)>>],
   none |-> [kind |-> "none", walk |-> <<>>]]
leg_(a, v, pref) == [adapter |-> a, vehicle |-> v, pref |-> pref]
MCTrips ==
  {<<leg_("cx", "mustang", FALSE), leg_("cx", "mustang", TRUE)>>,
   <<leg_("cx", "cruze", TRUE), leg_("dragy", "cruze", TRUE)>>,
   <<leg_("cx", "jeep", TRUE), leg_("cx", "jeep", TRUE)>>,
   <<leg_("cx", "jeep", TRUE), leg_("other", "plain", TRUE)>>,
   <<leg_("dragy", "plain", FALSE), leg_("cx", "jeep", FALSE)>>,
   <<leg_("cx", "mustang", TRUE), leg_("dragy", "old", TRUE)>>,
   <<leg_("cx", "off", TRUE), leg_("dragy", "jeep", TRUE)>>}

(* The constants are of the world FactsTrue is about.                      *)
ASSUME MCWorld == OneCar /\ Answering
============================================================================
