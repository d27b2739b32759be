--------------------------- MODULE MCVaultUpdate ---------------------------
(* Instances of VaultUpdate for TLC: an invocation on each of two machines. *)
EXTENDS VaultUpdate, TLC

CONSTANTS u1, u2, laptop, server

MCHomes == u1 :> laptop @@ u2 :> server
=============================================================================
