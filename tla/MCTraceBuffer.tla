--------------------------- MODULE MCTraceBuffer ---------------------------
(***************************************************************************)
(* TLC instances of TraceBuffer: a ring of three events, a cache of two,   *)
(* one cached and one ordinary event type.                                 *)
(***************************************************************************)
EXTENDS TraceBuffer

MCEventType == {"comm", "plain"}
MCCachedTypes == {"comm"}
MCBatchSizes == 2..3
MCReserve == {1}
=============================================================================
