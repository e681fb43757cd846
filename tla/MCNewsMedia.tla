---------------------------- MODULE MCNewsMedia ----------------------------
(* NewsMedia for TLC; a liveness property is checked, so without symmetry. *)
EXTENDS NewsMedia
=============================================================================
