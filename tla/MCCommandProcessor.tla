------------------------- MODULE MCCommandProcessor -------------------------
(***************************************************************************)
(* Small instances of CommandProcessor for TLC.                            *)
(***************************************************************************)
EXTENDS CommandProcessor, TLC

(* Everything but reset_stats and the chain flag, which no safety property *)
(* of the worker depends on; the liveness run has them.                    *)
SafetyOps == {"hold", "abort", "disconnect", "writeFail", "wait"}
LiveOps   == {"clear", "hold", "chain", "reset", "stop", "abort"}

Symmetry == Permutations(Cmd)
=============================================================================
