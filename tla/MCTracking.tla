----------------------------- MODULE MCTracking -----------------------------
(* Order tracking for TLC: two orders, the newer one first in the list. *)
EXTENDS Tracking

CONSTANTS new, old

MCRows == <<new, old>>
=============================================================================
