---------------------------- MODULE MCStreamBeat ----------------------------
(* A small instance of StreamBeat: two slots of three bytes, three pids,    *)
(* one of them of unknown length when the stream starts.                    *)
EXTENDS StreamBeat

CONSTANTS a, b, c

Widths == (a :> 2 @@ b :> 1 @@ c :> 3)
Orders == {<<a, b>>, <<b, a, c>>, <<b, b, a>>}
=============================================================================
