----------------------------- MODULE MCNodePool -----------------------------
(* NodePool under any caller, on two nodes. *)
EXTENDS NodePool
=============================================================================
