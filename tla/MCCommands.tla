----------------------------- MODULE MCCommands -----------------------------
(* Values of the constants of Commands for TLC. *)
EXTENDS Commands

MCClock == {1000, 1500, 2500}
MCSeconds == {1}
MCMillis == {-1, 500}
MCIndex == -3 .. 3
MCScore == {0, 1}
MCStrings == 0 .. 2
MCTwoStrings == 0 .. 1
=============================================================================
