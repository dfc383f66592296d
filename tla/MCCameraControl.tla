--------------------------- MODULE MCCameraControl ---------------------------
(* An instance of CameraControl for TLC. *)
EXTENDS CameraControl
=============================================================================
