--------------------------- MODULE MCChainClient ---------------------------
(* GonkaClient with two configured nodes and one participant node. *)
EXTENDS ChainClient
CONSTANTS r1, refresher, p1
=============================================================================
