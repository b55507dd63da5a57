--------------------------- MODULE MutationLedger ---------------------------
(***************************************************************************)
(* What the integration promises its owner of every remote mutation of one *)
(* kind, with none of the machinery: a request may leave only when every   *)
(* earlier one is known to have been concluded (by the provider's answer,  *)
(* by an explicit status GET, or by an administrator).  OrderingManager    *)
(* implements it for final payments, PreparationAuthority for basket and   *)
(* quote mutations.                                                        *)
(***************************************************************************)
CONSTANT Attempts   \* attempts at a mutation

VARIABLES
    sent,       \* the attempts whose request has left
    concluded   \* those of them whose conclusion is durable

vars == <<sent, concluded>>

Init == sent = {} /\ concluded = {}

Send(a) ==
    /\ a \notin sent
    /\ sent \subseteq concluded
    /\ sent' = sent \cup {a}
    /\ UNCHANGED concluded

Conclude(a) ==
    /\ a \in sent \ concluded
    /\ concluded' = concluded \cup {a}
    /\ UNCHANGED sent

Next == \E a \in Attempts : Send(a) \/ Conclude(a)

Spec == Init /\ [][Next]_vars

\* At most one request is ever of unknown outcome.
AtMostOneOpen == \A a, b \in sent \ concluded : a = b
=============================================================================
