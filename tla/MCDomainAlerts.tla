-------------------------- MODULE MCDomainAlerts --------------------------
(* DomainAlerts for TLC.                                                   *)
EXTENDS DomainAlerts
===========================================================================
