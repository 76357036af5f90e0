--------------------------- MODULE MCAccumulator ---------------------------
(***************************************************************************)
(* Two headers and up to seven appends: every shape of mountains with one, *)
(* two and three peaks.                                                    *)
(***************************************************************************)
EXTENDS Accumulator
CONSTANTS ha, hb
=============================================================================
