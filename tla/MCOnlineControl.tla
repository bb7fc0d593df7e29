-------------------------- MODULE MCOnlineControl --------------------------
(***************************************************************************)
(* TLC instance of OnlineControl: two threads with rings of six events;    *)
(* the first may flush its own on entry, the second makes one call.        *)
(***************************************************************************)
EXTENDS OnlineControl, TLC

CONSTANTS t1, t2

MCOrder == <<t1, t2>>
MCCalls == {1, 2}
MCMaxCalls == t1 :> 3 @@ t2 :> 1
=============================================================================
