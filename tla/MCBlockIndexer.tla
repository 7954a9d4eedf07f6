--------------------------- MODULE MCBlockIndexer ---------------------------
(* The block indexer on a short chain. *)
EXTENDS BlockIndexer
=============================================================================
