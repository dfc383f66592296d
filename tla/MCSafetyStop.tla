---------------------------- MODULE MCSafetyStop ----------------------------
(* Instances of SafetyStop for TLC. *)
EXTENDS SafetyStop
=============================================================================
