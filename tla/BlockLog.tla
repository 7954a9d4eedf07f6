------------------------------ MODULE BlockLog ------------------------------
(***************************************************************************)
(* What the block indexer promises to the pages that read its tables: they *)
(* always hold the rows of an initial segment of the chain, each block     *)
(* complete and exactly once, and they only ever grow.                     *)
(***************************************************************************)
EXTENDS Naturals

CONSTANTS
    Table,       \* the tables a block has rows in
    MaxAppend,   \* the most blocks one poll adds
    MaxHeight    \* bound: the chain stops here

VARIABLES
    tip,         \* height of the chain
    db           \* db[t][h]: how many copies of block h's rows table t holds

logVars == <<tip, db>>

Height == 1..MaxHeight

\* The tables after exactly the blocks 1..n have been indexed.
Committed(n) == [t \in Table |-> [h \in Height |-> IF h <= n THEN 1 ELSE 0]]

Init ==
    /\ tip = 1
    /\ db = Committed(0)

Grow ==
    /\ tip < MaxHeight
    /\ tip' = tip + 1
    /\ UNCHANGED db

Append ==
    /\ \E n \in 0..tip, k \in 1..MaxAppend :
          /\ n + k <= tip
          /\ db = Committed(n)
          /\ db' = Committed(n + k)
    /\ UNCHANGED tip

Next == Grow \/ Append

Spec == Init /\ [][Next]_logVars
=============================================================================
