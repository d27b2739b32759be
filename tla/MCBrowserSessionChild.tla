------------------------ MODULE MCBrowserSessionChild ------------------------
(***************************************************************************)
(* One command with the smallest sizes at which the cases differ: a prefix *)
(* that can arrive in two pieces, frames that are too long for the Worker  *)
(* or for the protocol, and one byte too many.                             *)
(***************************************************************************)
EXTENDS BrowserSessionChild
=============================================================================
