------------------------------ MODULE MCClient ------------------------------
(***************************************************************************)
(* GonkaClient over two nodes under two kinds of trouble.  Either both     *)
(* nodes and a participant fail at will, or both prune and catch up.       *)
(***************************************************************************)
EXTENDS ChainClient

CONSTANTS r1, refresher, p1

VARIABLE trouble

\* The nodes keep their history, and no order is rotated.
Failing == INSTANCE ChainClient WITH DemoteTicks <- 0, Pruners <- {}, Laggards <- {1}

\* The nodes answer, and no participant is wanted.
Pruning == INSTANCE ChainClient WITH
    Outages <- {}, Participants <- {}, ParticipantFallback <- FALSE, FallbackPoolSize <- 0

ClientInit ==
    \/ trouble = "failing" /\ Failing!Init
    \/ trouble = "pruning" /\ Pruning!Init

ClientNext ==
    /\ UNCHANGED trouble
    /\ \/ trouble = "failing" /\ Failing!Next
       \/ trouble = "pruning" /\ Pruning!Next

ClientSpec == ClientInit /\ [][ClientNext]_<<vars, trouble>>

=============================================================================
