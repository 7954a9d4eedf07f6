----------------------------- MODULE MCHardware -----------------------------
\* One participant with one node, and no request that fails.
EXTENDS Hardware, TLC

CONSTANT n1

WeighedDef == 1 :> {n1} @@ 2 :> {n1}

=============================================================================
