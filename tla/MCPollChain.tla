----------------------------- MODULE MCPollChain ----------------------------
(***************************************************************************)
(* A small instance of PollChain for TLC: two subscriptions that share no  *)
(* PID: piped to two ECUs; piped to one, or without a target, with one of  *)
(* the disturbances; and chunked to one ECU with acquisitions.             *)
(***************************************************************************)
EXTENDS PollChain

CONSTANTS s1, s2, p1, p2, h1, h2

TwoEcus == [s \in {s1, s2} |-> IF s = s1 THEN {p1} ELSE {p2}]
Piped(target, oneShots, ops) ==
  [target |-> target, picks |-> 1, chunking |-> FALSE, queue |-> 2,
   oneShots |-> oneShots, ops |-> ops]
Alone == [p \in {p1, p2} |-> h1]
Apart == [p \in {p1, p2} |-> IF p = p1 THEN h1 ELSE h2]
Untargeted == [p \in {p1, p2} |-> NoHeader]
Acquired == [Piped(Alone, 0, {"acquire"}) EXCEPT !.picks = 2, !.chunking = TRUE,
                                                 !.queue = 8]
Plans == {Acquired, Piped(Apart, 0, {}), Piped(Alone, 1, {}), Piped(Alone, 0, {"clear"}),
          Piped(Alone, 0, {"reset"}), Piped(Untargeted, 0, {"abort"})}
=============================================================================
