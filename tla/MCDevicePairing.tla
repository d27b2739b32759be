-------------------------- MODULE MCDevicePairing --------------------------
(* Instances of DevicePairing for TLC: two invocations that share a machine *)
(* and its config.json.                                                     *)
EXTENDS DevicePairing

OneHome == [p \in Pairings |-> CHOOSE m \in Machines : TRUE]
=============================================================================
