----------------------------- MODULE MCLiveFlow -----------------------------
(* LiveFlow, to be checked with two owners, two contents of a basket and    *)
(* three versions of it, under two generations.                             *)
EXTENDS LiveFlow
=============================================================================
