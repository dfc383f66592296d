-------------------------- MODULE MCRemoteChannel --------------------------
(* The instance of RemoteChannel for model checking. *)
EXTENDS RemoteChannel

ClientOne == [e \in End |-> IF e = Client THEN 1 ELSE 0]
=============================================================================
