---------------------------- MODULE MCRobotViewer ----------------------------
(* The instance of RobotViewer for TLC. *)
EXTENDS RobotViewer
=============================================================================
