---------------------------- MODULE MCG1Control ----------------------------
(* The instance of G1Control for TLC. *)
EXTENDS G1Control
=============================================================================
