----------------------------- MODULE MCDesktop -----------------------------
(***************************************************************************)
(* Instances of Desktop for TLC: two calls, a window at one of two places. *)
(***************************************************************************)
EXTENDS Desktop

CONSTANTS c1, c2, here, there
=============================================================================
