---------------------------- MODULE MCApiSession ----------------------------
(* The API session for TLC. *)
EXTENDS ApiSession
=============================================================================
