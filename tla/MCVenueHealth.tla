--------------------------- MODULE MCVenueHealth ---------------------------
(* Thresholds of HealthPolicy, 45 and 90 seconds, rounded to ticks of 30    *)
(* seconds; a check interval of two ticks lets a signal change in between.  *)
EXTENDS VenueHealth

MCSources == {"rest", "websocket"}

MCStaleAfter == [source \in MCSources |-> IF source = "rest" THEN 2 ELSE 3]
=============================================================================
