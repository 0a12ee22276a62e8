--------------------------- MODULE MCCommandFlow ---------------------------
(***************************************************************************)
(* CommandFlow with three commands, two connections and an activity list   *)
(* of two; the constants are numbers and given in the configurations.      *)
(***************************************************************************)
EXTENDS CommandFlow
=============================================================================
