----------------------------- MODULE MCBatches -----------------------------
EXTENDS Batches
(* Three mode-01 pids, the last answered by both ECUs, and two mode-22     *)
(* pids of the second ECU.                                                 *)
M01 == {"0C", "0D", "10"}
M22 == {"05", "06"}
MCHolds == [e \in {"7E0", "7E1"} |-> IF e = "7E0" THEN {"0C", "10"} ELSE {"0D", "10", "05", "06"}]
MCTarget == [p \in M01 \cup M22 |-> IF p \in M22 THEN "7E1" ELSE "any"]
MCWidth == [p \in M01 \cup M22 |-> IF p = "0C" THEN 3 ELSE IF p = "10" THEN 13 ELSE 1]
(* A vehicle that leaves a pid out of chunks and pads with what looks like *)
(* an echo, after a reflash that made one pid longer ; one that refuses a  *)
(* pair, whose data looks like padding, with nothing but one pid known; and *)
(* one that leaves two pids out of chunks, so that a chunk of just these   *)
(* two gets no answer at all.                                              *)
MCCars == {[omits |-> {"0D"}, pair |-> "ok", pads |-> "0D", data |-> "A5",
            stored |-> [MCWidth EXCEPT !["10"] = 12]],
           [omits |-> {}, pair |-> "silent", pads |-> "00", data |-> "00",
            stored |-> [MCWidth EXCEPT !["0C"] = 0, !["05"] = 0]],
           [omits |-> {"0C", "0D"}, pair |-> "ok", pads |-> "00", data |-> "A5",
            stored |-> MCWidth]}
============================================================================
