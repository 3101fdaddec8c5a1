--------------------------- MODULE MCCqInterrupts ---------------------------
(* CqInterrupts for TLC.                                                   *)
EXTENDS CqInterrupts

OneDomain == 1 .. 1
TwoDomains == 1 .. 2
=============================================================================
