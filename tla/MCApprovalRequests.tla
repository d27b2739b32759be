------------------------- MODULE MCApprovalRequests -------------------------
(***************************************************************************)
(* Instances of ApprovalRequests for TLC.                                  *)
(***************************************************************************)
EXTENDS ApprovalRequests

\* What a request may ask for: any refs at all.
AnyRefs == {w \in [Requests -> SUBSET Refs] : \A r \in Requests : w[r] # {}}
=============================================================================
