------------------------- MODULE MCOrderingManager -------------------------
(* OrderingManager on small instances; the bounds are in the .cfg files.    *)
EXTENDS OrderingManager
=============================================================================
