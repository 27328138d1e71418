--------------------------- MODULE MCBotPipeline ---------------------------
(* Instances of BotPipeline for TLC. *)
EXTENDS BotPipeline

CONSTANTS r1, b1, b2

\* Only one backup runs at a time and no property orders the goroutines.
Symmetry == Permutations(Backups)
=============================================================================
