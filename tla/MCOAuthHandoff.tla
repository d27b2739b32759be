--------------------------- MODULE MCOAuthHandoff ---------------------------
(***************************************************************************)
(* Instances of OAuthHandoff for TLC.                                      *)
(***************************************************************************)
EXTENDS OAuthHandoff, TLC

Symmetric == Permutations(Effects) \union Permutations(Codes)
=============================================================================
