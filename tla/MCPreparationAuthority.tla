----------------------- MODULE MCPreparationAuthority -----------------------
(* PreparationAuthority, to be checked with one intent and two attempts at  *)
(* it, a crash and two failed or cancelled writes; and, for the bound of    *)
(* its journal, with two intents over room for a single record.             *)
EXTENDS PreparationAuthority
=============================================================================
