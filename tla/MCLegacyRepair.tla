--------------------------- MODULE MCLegacyRepair ---------------------------
(* An account that came from the v1 release, for TLC. *)
EXTENDS LegacyRepair

\* What preparations latch in the safety file is left to OrderingManager: it follows a
\* record of theirs, which by itself rules a repair out.
ASSUME NoLatches == MaxPreparation = 0

Came(fault, attempts) == [fault |-> fault, attempts |-> attempts]
One(state) == [a \in {0} |-> state]

\* A safety file alone; a fault in it beside an attempt left open; a fault in the
\* journal only; and an account without any fault.
MCLegacyFiles ==
    {Came(TRUE, None), Came(TRUE, One("DISPATCHING")), Came(FALSE, One("SECURITY_FAULT")),
     Came(FALSE, One("CONFIRMED_SUCCEEDED"))}
=============================================================================
