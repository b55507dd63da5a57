------------------------- MODULE MCAttemptJournal -------------------------
(* AttemptJournal with room for two records and three attempts to keep.    *)
EXTENDS AttemptJournal
=============================================================================
