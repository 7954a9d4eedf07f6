-------------------------- MODULE MCEpochLifecycle --------------------------
(* The epoch lifecycle with one poller and one API visitor. *)
EXTENDS EpochLifecycle
CONSTANTS poller, poller2, visitor, alice
=============================================================================
