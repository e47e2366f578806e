--------------------------- MODULE MCIngestionWait ---------------------------
(* Small timeouts in the order of the configured ones, with just the room    *)
(* between them that the assumption asks for.                               *)
EXTENDS IngestionWait

ShortestTtl == StaleTimeout + 2 * MaxPollFailures + 1
=============================================================================
