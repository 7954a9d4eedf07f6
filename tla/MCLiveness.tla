----------------------------- MODULE MCLiveness -----------------------------
(***************************************************************************)
(* GonkaClient over two nodes that fail at will, and two overlapping calls *)
(* of the epoch poller.  The two share no variable here, so each is        *)
(* explored with the other asleep.                                         *)
(***************************************************************************)
EXTENDS ChainClient

CONSTANTS r1, refresher, poller, poller2

VARIABLES height, stats, status, currentEpoch, currentData, call, hollow

VARIABLE subject   \* what is explored

epochVars == <<height, stats, status, currentEpoch, currentData, call, hollow>>

\* A chain of three epochs of one block, no request that fails and no visitor.
Lifecycle == INSTANCE EpochLifecycle WITH
    Pollers <- {poller, poller2}, Visitors <- {}, Members <- {"member"}, EpochLength <- 1,
    Offset <- 1, PocLead <- 0, MaxHeight <- 3, NetworkFails <- FALSE, AskedHeights <- {}

LivenessInit ==
    /\ subject \in {"client", "epochs"}
    /\ Init /\ Lifecycle!Init

LivenessNext ==
    /\ UNCHANGED subject
    /\ \/ subject = "client" /\ Next /\ UNCHANGED epochVars
       \/ subject = "epochs" /\ Lifecycle!Next /\ UNCHANGED vars

\* Fairness and Lifecycle!Fairness, of what is explored.
LivenessFairness ==
    /\ WF_vars(subject = "client" /\ Elapse)
    /\ WF_vars(subject = "client" /\ StartRequest(r1, "chain", None))
    /\ \A r \in Caller : WF_vars(Answer(r)) /\ WF_vars(Return(r))
    /\ \A n \in Node : WF_vars(ProbeAnswers(n) \/ ProbeFails(n))
    /\ WF_vars(ProbesDone) /\ WF_vars(FallbackRefreshed)
    /\ \A c \in {poller, poller2} :
          /\ WF_epochVars(subject = "epochs" /\ Lifecycle!CallCurrent(c, TRUE))
          /\ WF_epochVars(Lifecycle!Step(c))
    /\ WF_epochVars(subject = "epochs" /\ Lifecycle!Advance)

LivenessSpec ==
    LivenessInit /\ [][LivenessNext]_<<vars, epochVars, subject>> /\ LivenessFairness

\* Once the process stays up, two overlapping calls of the epoch poller end
\* up on the last epoch for good; what is asleep owes nothing.
EpochsCatchUp == subject = "epochs" => Lifecycle!CatchesUp

=============================================================================
