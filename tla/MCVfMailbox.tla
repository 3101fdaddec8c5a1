---------------------------- MODULE MCVfMailbox ----------------------------
(* Two VFs, so that the PF waits for one while the other asks for service. *)
EXTENDS VfMailbox
============================================================================
