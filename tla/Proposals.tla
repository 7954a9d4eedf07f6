----------------------------- MODULE Proposals -----------------------------
(***************************************************************************)
(* backend/service.py, fetch_and_cache_proposal with the gov_proposals and *)
(* params_snapshot tables: proposals are cached while they are voted on,   *)
(* finalised once the chain no longer lists them, and the parameters that  *)
(* a passed one changes are folded into a snapshot at its height.          *)
(*                                                                         *)
(* One coroutine writes; the chain moves on between its awaits, a request  *)
(* may fail at any of them, and some proposals can never be enriched.      *)
(***************************************************************************)
EXTENDS Integers, FiniteSets

CONSTANTS
    Proposal,          \* ids, numbered by the height their voting started at
    Keys,              \* the parameters of the module the updates are about
    Updates,           \* the keys that the MsgUpdateParams of each one sets
    Broken,            \* proposals whose enrichment raises once they are decided
    BaseKnown,         \* whether the genesis parameters have been collected
    MaxProposalFaults  \* bound: failed requests and restarts

ASSUME ProposalsAssumption ==
    /\ Proposal = 1..Cardinality(Proposal)
    /\ Cardinality(Proposal) \in Nat
    /\ Updates \in [Proposal -> SUBSET Keys]
    /\ Broken \subseteq Proposal
    /\ BaseKnown \in BOOLEAN
    /\ MaxProposalFaults \in Nat

VARIABLES
    chainStatus,    \* the status of each proposal on the chain
    cached,         \* gov_proposals: the code of each row
    snapshotAt,     \* params_snapshot: the parameters stored at each height
    cycle,          \* the coroutine fetch_and_cache_proposal
    proposalFaults

proposalVars == <<chainStatus, cached, snapshotAt, cycle, proposalFaults>>

Decided == {"passed", "rejected", "failed"}
Genesis == 0
Height0 == Proposal \cup {Genesis}

\* A stored parameter is named by the proposal that set it.
Params == [Keys -> Height0]
NoParams == [k \in {} |-> Genesis]
GenesisParams == [k \in Keys |-> Genesis]

\* listed: voting_proposal; left: what the loop at hand has yet to visit;
\* current: the proposal whose parameters are being folded.
Cycle == [pc : {"idle", "tallying", "voting", "read", "tallyingAgain",
                "finalise", "save", "snapshot"},
          listed : SUBSET Proposal, left : SUBSET Proposal,
          current : Height0, status : Decided]

IdleCycle == [pc |-> "idle", listed |-> {}, left |-> {}, current |-> Genesis,
              status |-> "failed"]

ProposalsTypeOK ==
    /\ chainStatus \in [Proposal -> {"none", "voting"} \cup Decided]
    /\ cached \in [Proposal -> {"none", "voting"} \cup Decided]
    /\ snapshotAt \in [Height0 -> Params \cup {NoParams}]
    /\ cycle \in Cycle
    /\ proposalFaults \in 0..MaxProposalFaults

ProposalsInit ==
    /\ chainStatus = [p \in Proposal |-> "none"]
    /\ cached = [p \in Proposal |-> "none"]
    /\ snapshotAt = [h \in Height0 |->
          IF h = Genesis /\ BaseKnown THEN GenesisParams ELSE NoParams]
    /\ cycle = IdleCycle
    /\ proposalFaults = 0

ProposalFault ==
    /\ proposalFaults < MaxProposalFaults
    /\ proposalFaults' = proposalFaults + 1

-----------------------------------------------------------------------------
(***************************************************************************)
(* The chain: voting starts in the order of the ids and ends in any order, *)
(* since an expedited proposal is decided sooner.                          *)
(***************************************************************************)

VotingStarts(p) ==
    /\ chainStatus[p] = "none"
    /\ \A q \in Proposal : q < p => chainStatus[q] # "none"
    /\ chainStatus' = [chainStatus EXCEPT ![p] = "voting"]
    /\ UNCHANGED <<cached, snapshotAt, cycle, proposalFaults>>

VotingEnds(p) ==
    /\ chainStatus[p] = "voting"
    /\ \E s \in Decided : chainStatus' = [chainStatus EXCEPT ![p] = s]
    /\ UNCHANGED <<cached, snapshotAt, cycle, proposalFaults>>

-----------------------------------------------------------------------------
(***************************************************************************)
(* fetch_and_cache_proposal: the proposals that are voted on               *)
(***************************************************************************)

Latest(ids) == CHOOSE p \in ids : \A q \in ids : q <= p

\* get_proposals(status_code=2); the tally parameters only if it lists any.
ListVoting ==
    /\ cycle.pc = "idle"
    /\ LET voting == {p \in Proposal : chainStatus[p] = "voting"} IN
       cycle' = [IdleCycle EXCEPT
                   !.pc = IF voting = {} THEN "read" ELSE "tallying",
                   !.listed = voting, !.left = voting]
    /\ UNCHANGED <<chainStatus, cached, snapshotAt, proposalFaults>>

\* get_tallying raises out of the cycle.
Tallying ==
    /\ cycle.pc \in {"tallying", "tallyingAgain"}
    /\ \/ /\ cycle' = [cycle EXCEPT
                !.pc = IF @ = "tallying" THEN "voting" ELSE "finalise"]
          /\ UNCHANGED proposalFaults
       \/ ProposalFault /\ cycle' = IdleCycle
    /\ UNCHANGED <<chainStatus, cached, snapshotAt>>

\* enrich_proposal_detail of a proposal that it cannot digest.
Raises(p) == p \in Broken /\ chainStatus[p] \in Decided

\* Mutant of AfterFailure: the error leaves the loop.
AfterFailureAborted(p) == IdleCycle

\* "Isolate per-proposal failures": the loop goes on with the next one.
AfterFailure(p) == [cycle EXCEPT !.left = @ \ {p}]

\* Enriched and saved as code 2, whatever the chain says by now.
CacheVoting(p) ==
    /\ cycle.pc = "voting" /\ p \in cycle.left
    /\ \/ /\ ~ Raises(p)
          /\ cached' = [cached EXCEPT ![p] = "voting"]
          /\ cycle' = [cycle EXCEPT !.left = @ \ {p}]
          /\ UNCHANGED proposalFaults
       \/ /\ (Raises(p) /\ UNCHANGED proposalFaults) \/ ProposalFault
          /\ cycle' = AfterFailure(p)
          /\ UNCHANGED cached
    /\ UNCHANGED <<chainStatus, snapshotAt>>

VotingCached ==
    /\ cycle.pc = "voting" /\ cycle.left = {}
    /\ cycle' = [cycle EXCEPT !.pc = "read"]
    /\ UNCHANGED <<chainStatus, cached, snapshotAt, proposalFaults>>

-----------------------------------------------------------------------------
(***************************************************************************)
(* The proposals that the chain no longer lists                            *)
(***************************************************************************)

Unlisted == {p \in Proposal : cached[p] = "voting"} \ cycle.listed

\* "No voting proposals found in DB" ends the cycle.
ReadVotingRows ==
    /\ cycle.pc = "read"
    /\ cycle' = IF \A p \in Proposal : cached[p] # "voting" THEN IdleCycle
                ELSE [cycle EXCEPT !.pc = "tallyingAgain", !.left = Unlisted]
    /\ UNCHANGED <<chainStatus, cached, snapshotAt, proposalFaults>>

\* Mutant of StillVoting: the status of the answer is not looked at.
StillVotingIgnored(answer) == FALSE

\* "is still in voting period, skipping final update".
StillVoting(answer) == answer = "voting"

\* Latest first.  get_proposal may ask a node that lags behind the one that
\* listed the votes.  The status is remembered across the enrichment.
Finalise ==
    LET p == Latest(cycle.left)
        After(answer) ==
            IF StillVoting(answer) THEN [cycle EXCEPT !.left = @ \ {p}]
            ELSE IF Raises(p) THEN AfterFailure(p)
            ELSE [cycle EXCEPT
                    !.pc = "save", !.current = p,
                    !.status = IF answer \in {"passed", "rejected"}
                               THEN answer ELSE "failed"] IN
    /\ cycle.pc = "finalise" /\ cycle.left # {}
    /\ \/ cycle' = After(chainStatus[p]) /\ UNCHANGED proposalFaults
       \/ ProposalFault /\ cycle' \in {After("voting"), AfterFailure(p)}
    /\ UNCHANGED <<chainStatus, cached, snapshotAt>>

SaveFinal ==
    LET p == cycle.current
        next == [cycle EXCEPT !.left = @ \ {p}] IN
    /\ cycle.pc = "save"
    /\ cached' = [cached EXCEPT ![p] = cycle.status]
    /\ cycle' = IF cycle.status = "passed" /\ Updates[p] # {}
                THEN [next EXCEPT !.pc = "snapshot"]
                ELSE [next EXCEPT !.pc = "finalise"]
    /\ UNCHANGED <<chainStatus, snapshotAt, proposalFaults>>

\* Mutant of BaseOf: the newest snapshot there is.
BaseOfAny(p) ==
    LET stored == {h \in Height0 : snapshotAt[h] # NoParams /\ h # p} IN
    IF stored = {} THEN NoParams ELSE snapshotAt[Latest(stored)]

\* get_latest_params_snapshot: the newest one below the proposal's height.
BaseOf(p) ==
    LET stored == {h \in Height0 : h < p /\ snapshotAt[h] # NoParams} IN
    IF stored = {} THEN NoParams ELSE snapshotAt[Latest(stored)]

\* merge_params: the keys of the update replace those of the base.
Merged(base, p) == [k \in Keys |-> IF k \in Updates[p] THEN p ELSE base[k]]

\* Outside the try: an unresolved module, a failed genesis request or a
\* missing base leaves the cycle, and the proposal is not voting any more.
FoldParams ==
    LET p == cycle.current IN
    /\ cycle.pc = "snapshot"
    /\ \/ /\ BaseOf(p) # NoParams
          /\ snapshotAt' = [snapshotAt EXCEPT ![p] = Merged(BaseOf(p), p)]
          /\ cycle' = [cycle EXCEPT !.pc = "finalise"]
          /\ UNCHANGED proposalFaults
       \/ /\ (BaseOf(p) = NoParams /\ UNCHANGED proposalFaults) \/ ProposalFault
          /\ cycle' = IdleCycle
          /\ UNCHANGED snapshotAt
    /\ UNCHANGED <<chainStatus, cached>>

CycleEnds ==
    /\ cycle.pc = "finalise" /\ cycle.left = {}
    /\ cycle' = IdleCycle
    /\ UNCHANGED <<chainStatus, cached, snapshotAt, proposalFaults>>

ProposalsRestart ==
    /\ ProposalFault
    /\ cycle' = IdleCycle
    /\ UNCHANGED <<chainStatus, cached, snapshotAt>>

CycleStep ==
    \/ Tallying
    \/ \E p \in Proposal : CacheVoting(p)
    \/ VotingCached
    \/ ReadVotingRows
    \/ Finalise \/ SaveFinal \/ FoldParams \/ CycleEnds

ProposalsNext ==
    \/ \E p \in Proposal : VotingStarts(p) \/ VotingEnds(p)
    \/ ListVoting
    \/ CycleStep
    \/ ProposalsRestart

ProposalsSpec == ProposalsInit /\ [][ProposalsNext]_proposalVars

\* Every await ends.
CycleFairness == WF_proposalVars(CycleStep)

\* app.py starts a cycle every minute.
ProposalsFairness == WF_proposalVars(ListVoting) /\ CycleFairness

-----------------------------------------------------------------------------
(***************************************************************************)
(* Properties                                                              *)
(***************************************************************************)

\* A proposal is shown as decided only as the chain decided it, although its
\* status is read, kept across the enrichment and saved later; and a row
\* exists only for what went to a vote.
OutcomesAreTrue ==
    \A p \in Proposal :
        /\ cached[p] \in Decided => cached[p] = chainStatus[p]
        /\ cached[p] # "none" => chainStatus[p] # "none"

\* Every value of a snapshot was set by a proposal that passed, at or before
\* the height of the snapshot, and the update of a passed proposal is in its
\* own: proposals decided out of order do not leak into earlier heights.
SnapshotsAreSound ==
    \A p \in Proposal : snapshotAt[p] # NoParams =>
        \A k \in Keys :
            LET setter == snapshotAt[p][k] IN
            /\ setter = Genesis \/ (setter <= p /\ chainStatus[setter] = "passed"
                                    /\ k \in Updates[setter])
            /\ k \in Updates[p] => setter = p

\* "a single bad proposal cannot poison the whole polling cycle": whatever is
\* decided on the chain after it was cached is eventually shown as decided,
\* though other proposals fail in every cycle.
VotesAreFinalised ==
    \A p \in Proposal \ Broken :
        cached[p] = "voting" /\ chainStatus[p] \in Decided
            ~> cached[p] = chainStatus[p]

=============================================================================
