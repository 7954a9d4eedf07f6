--------------------------- MODULE Caches_proofs ---------------------------
(***************************************************************************)
(* For every number of proposals, participants, nodes and epochs.          *)
(* Proposals: what is shown as decided was decided so, and a snapshot      *)
(* holds nothing but updates that passed.  Hardware: one row per node,     *)
(* whoever replaces the rows.  Then the four caches together: each         *)
(* behaves as it does alone.                                               *)
(***************************************************************************)
EXTENDS MCCaches, Rewards_proofs, ModelUsage_proofs

-----------------------------------------------------------------------------
(***************************************************************************)
(* The proposals and the snapshots of the parameters                       *)
(***************************************************************************)

LEMMA ProposalConstants ==
    /\ Proposal \subseteq Nat \ {0} /\ IsFiniteSet(Proposal)
    /\ \E n \in Nat : Proposal = 1..n
    /\ Updates \in [Proposal -> SUBSET Keys]
    /\ BaseKnown \in BOOLEAN
    /\ MaxProposalFaults \in Nat
<1>1. PICK n \in Nat : Proposal = 1..n
  BY ProposalsAssumption
<1>2. IsFiniteSet(Proposal)
  BY <1>1, FS_Interval
<1> QED BY <1>1, <1>2, ProposalsAssumption

\* The latest of some heights is one of them.
LEMMA LatestIsOne ==
    ASSUME NEW ids \in SUBSET Height0, ids # {}
    PROVE  Latest(ids) \in ids
<1>1. PICK n \in Nat : Proposal = 1..n
  BY ProposalConstants
<1>2. ids \subseteq 0..n
  BY <1>1 DEF Height0, Genesis
<1> DEFINE T == {n - p : p \in ids}
<1>3. T \subseteq Nat /\ T # {}
  <2>1. \A p \in ids : n - p \in Nat
    BY <1>2
  <2>2. PICK p \in ids : TRUE
    OBVIOUS
  <2>3. n - p \in T
    OBVIOUS
  <2> QED BY <2>1, <2>3
<1>4. PICK x \in T : \A y \in T : x <= y
  <2> HIDE DEF T
  <2> QED BY <1>3, LeastOf
<1>5. PICK p \in ids : x = n - p
  OBVIOUS
<1>6. \A q \in ids : q <= p
  BY <1>2, <1>4, <1>5
<1> QED BY <1>5, <1>6 DEF Latest

-----------------------------------------------------------------------------
\* What the cycle remembers was true when it was read and still is: what it
\* visits went to a vote, and the status it is about to save is the chain's.
CycleIsTrue ==
    /\ \A p \in cycle.listed \cup cycle.left : chainStatus[p] # "none"
    /\ cycle.pc = "save" =>
          cycle.current \in Proposal /\ chainStatus[cycle.current] = cycle.status
    /\ cycle.pc = "snapshot" =>
          cycle.current \in Proposal /\ chainStatus[cycle.current] = "passed"

\* A value that proposal h may find in a snapshot at its height.
SetBy(h, k, setter) ==
    \/ setter = Genesis
    \/ /\ setter \in Proposal /\ setter <= h
       /\ chainStatus[setter] = "passed" /\ k \in Updates[setter]

\* SnapshotsAreSound, for the genesis parameters as well: they are a base too.
EverySnapshotIsSound ==
    \A h \in Height0 : snapshotAt[h] # NoParams =>
        \A k \in Keys :
            /\ SetBy(h, k, snapshotAt[h][k])
            /\ h \in Proposal /\ k \in Updates[h] => snapshotAt[h][k] = h

\* The inductive invariant.
ProposalsInv ==
    /\ ProposalsTypeOK
    /\ OutcomesAreTrue
    /\ CycleIsTrue
    /\ EverySnapshotIsSound

LEMMA IdleIsTrue ==
    /\ IdleCycle \in Cycle
    /\ IdleCycle.pc = "idle" /\ IdleCycle.listed = {} /\ IdleCycle.left = {}
BY DEF IdleCycle, Cycle, Height0, Decided

LEMMA ProposalsInitInv == ProposalsInit => ProposalsInv
<1> SUFFICES ASSUME ProposalsInit PROVE ProposalsInv
  OBVIOUS
<1>1. 0 \in 0..MaxProposalFaults
  BY ProposalConstants
<1>2. \A h \in Height0 : snapshotAt[h] = (IF h = Genesis /\ BaseKnown THEN GenesisParams ELSE NoParams)
  BY DEF ProposalsInit
<1>3. GenesisParams \in Params /\ \A k \in Keys : GenesisParams[k] = Genesis
  BY DEF GenesisParams, Params, Height0
<1>4. ProposalsTypeOK
  BY <1>1, <1>3, IdleIsTrue DEF ProposalsInit, ProposalsTypeOK
<1>5. EverySnapshotIsSound
  <2> SUFFICES ASSUME NEW h \in Height0, snapshotAt[h] # NoParams, NEW k \in Keys
               PROVE  /\ SetBy(h, k, snapshotAt[h][k])
                      /\ h \in Proposal /\ k \in Updates[h] => snapshotAt[h][k] = h
    BY DEF EverySnapshotIsSound
  <2>1. h = Genesis /\ snapshotAt[h][k] = Genesis
    BY <1>2, <1>3
  <2>2. h \notin Proposal
    BY <2>1, ProposalConstants DEF Genesis
  <2> QED BY <2>1, <2>2 DEF SetBy
<1>6. OutcomesAreTrue /\ CycleIsTrue
  BY IdleIsTrue DEF ProposalsInit, OutcomesAreTrue, CycleIsTrue, Decided
<1> QED BY <1>4, <1>5, <1>6 DEF ProposalsInv

LEMMA ProposalFaultCounts ==
    ASSUME ProposalsInv, ProposalFault \/ UNCHANGED proposalFaults
    PROVE  proposalFaults' \in 0..MaxProposalFaults
BY ProposalConstants DEF ProposalFault, ProposalsInv, ProposalsTypeOK

-----------------------------------------------------------------------------
\* What was decided stays decided, so all that was read of it stays true.
LEMMA ProposalsChainInv ==
    ASSUME ProposalsInv, NEW p \in Proposal, VotingStarts(p) \/ VotingEnds(p)
    PROVE  ProposalsInv'
<1>1. PICK s \in {"voting"} \cup Decided :
        /\ chainStatus' = [chainStatus EXCEPT ![p] = s]
        /\ chainStatus[p] \in {"none", "voting"}
  BY DEF VotingStarts, VotingEnds
<1>2. UNCHANGED <<cached, snapshotAt, cycle, proposalFaults>>
  BY DEF VotingStarts, VotingEnds
<1>3. chainStatus \in [Proposal -> {"none", "voting"} \cup Decided]
  BY DEF ProposalsInv, ProposalsTypeOK
<1>4. \A q \in Proposal :
        /\ chainStatus[q] # "none" => chainStatus'[q] # "none"
        /\ chainStatus[q] \in Decided => chainStatus'[q] = chainStatus[q]
  BY <1>1, <1>3 DEF Decided
<1>5. ProposalsTypeOK'
  BY <1>1, <1>2, <1>3 DEF ProposalsInv, ProposalsTypeOK
<1>6. OutcomesAreTrue'
  BY <1>2, <1>4 DEF ProposalsInv, OutcomesAreTrue
<1>7. CycleIsTrue'
  <2>1. cycle.listed \cup cycle.left \subseteq Proposal /\ cycle.status \in Decided
    BY DEF ProposalsInv, ProposalsTypeOK, Cycle
  <2>2. "passed" \in Decided
    BY DEF Decided
  <2> QED BY <1>2, <1>4, <2>1, <2>2 DEF ProposalsInv, CycleIsTrue
<1>8. EverySnapshotIsSound'
  <2>1. \A h, k, setter : SetBy(h, k, setter) => SetBy(h, k, setter)'
    BY <1>4 DEF SetBy, Decided
  <2> QED BY <1>2, <2>1 DEF ProposalsInv, EverySnapshotIsSound
<1> QED BY <1>5, <1>6, <1>7, <1>8 DEF ProposalsInv

\* A step of the cycle that writes neither table.
LEMMA CycleKeeps ==
    ASSUME ProposalsInv, cycle' \in Cycle, CycleIsTrue',
           UNCHANGED <<chainStatus, cached, snapshotAt>>,
           proposalFaults' \in 0..MaxProposalFaults
    PROVE  ProposalsInv'
<1>1. ProposalsTypeOK'
  BY DEF ProposalsInv, ProposalsTypeOK
<1>2. OutcomesAreTrue'
  BY DEF ProposalsInv, OutcomesAreTrue
<1>3. EverySnapshotIsSound'
  BY DEF ProposalsInv, EverySnapshotIsSound, SetBy
<1> QED BY <1>1, <1>2, <1>3 DEF ProposalsInv

\* A step that ends the cycle.
LEMMA IdleKeeps ==
    ASSUME ProposalsInv, cycle' = IdleCycle,
           UNCHANGED <<chainStatus, cached, snapshotAt>>,
           proposalFaults' \in 0..MaxProposalFaults
    PROVE  ProposalsInv'
<1>1. CycleIsTrue'
  BY IdleIsTrue DEF CycleIsTrue
<1> QED BY <1>1, IdleIsTrue, CycleKeeps

\* Going on with a part of what was left, to a step that saves nothing.
LEMMA LoopKeeps ==
    ASSUME ProposalsInv, cycle' \in Cycle,
           cycle'.pc \notin {"save", "snapshot"},
           cycle'.listed = cycle.listed, cycle'.left \subseteq cycle.left,
           UNCHANGED <<chainStatus, cached, snapshotAt>>,
           proposalFaults' \in 0..MaxProposalFaults
    PROVE  ProposalsInv'
<1>1. CycleIsTrue'
  BY DEF CycleIsTrue, ProposalsInv
<1> QED BY <1>1, CycleKeeps

\* What the fields of the cycle can be.
LEMMA CycleFields ==
    ASSUME ProposalsInv
    PROVE  /\ cycle \in Cycle
           /\ cycle.left \subseteq Proposal /\ cycle.listed \subseteq Proposal
           /\ cycle.status \in Decided /\ cycle.current \in Height0
           /\ \A p \in cycle.listed \cup cycle.left : chainStatus[p] # "none"
BY DEF ProposalsInv, ProposalsTypeOK, Cycle, CycleIsTrue

\* The cycle with other values in some of its fields.
LEMMA CycleChanged ==
    ASSUME ProposalsInv,
           NEW pc \in {"idle", "tallying", "voting", "read", "tallyingAgain",
                       "finalise", "save", "snapshot"},
           NEW left \in SUBSET Proposal, NEW current \in Height0, NEW status \in Decided
    PROVE  LET n == [cycle EXCEPT !.pc = pc, !.left = left,
                                  !.current = current, !.status = status]
           IN  /\ n \in Cycle
               /\ n.pc = pc /\ n.left = left /\ n.current = current
               /\ n.status = status /\ n.listed = cycle.listed
BY CycleFields DEF Cycle

LEMMA ReadingInv ==
    ASSUME ProposalsInv, ListVoting \/ Tallying \/ VotingCached \/ ReadVotingRows \/ CycleEnds
    PROVE  ProposalsInv'
<1>1. proposalFaults' \in 0..MaxProposalFaults
  BY ProposalFaultCounts DEF ListVoting, Tallying, VotingCached, ReadVotingRows, CycleEnds
<1>2. UNCHANGED <<chainStatus, cached, snapshotAt>>
  BY DEF ListVoting, Tallying, VotingCached, ReadVotingRows, CycleEnds
<1>3. CASE cycle' = IdleCycle
  BY <1>1, <1>2, <1>3, IdleKeeps
<1>4. CASE ListVoting
  <2> DEFINE voting == {p \in Proposal : chainStatus[p] = "voting"}
  <2>1. cycle' = [IdleCycle EXCEPT !.pc = IF voting = {} THEN "read" ELSE "tallying",
                                   !.listed = voting, !.left = voting]
    BY <1>4 DEF ListVoting
  <2>2. voting \in SUBSET Proposal /\ \A p \in voting : chainStatus[p] # "none"
    OBVIOUS
  <2> HIDE DEF voting
  <2>3. /\ cycle' \in Cycle /\ cycle'.pc \in {"read", "tallying"}
        /\ cycle'.listed = voting /\ cycle'.left = voting
    BY <2>1, <2>2, IdleIsTrue DEF Cycle
  <2>4. CycleIsTrue'
    BY <1>2, <2>2, <2>3 DEF CycleIsTrue
  <2> QED BY <1>1, <1>2, <2>3, <2>4, CycleKeeps
<1>5. CASE Tallying \/ VotingCached
  <2>1. \/ cycle' = IdleCycle
        \/ \E pc \in {"voting", "finalise", "read"} : cycle' = [cycle EXCEPT !.pc = pc]
    BY <1>5 DEF Tallying, VotingCached
  <2>2. ASSUME NEW pc \in {"voting", "finalise", "read"}, cycle' = [cycle EXCEPT !.pc = pc]
        PROVE  ProposalsInv'
    <3>1. /\ cycle' \in Cycle /\ cycle'.pc = pc
          /\ cycle'.listed = cycle.listed /\ cycle'.left = cycle.left
      BY <2>2, CycleFields DEF Cycle
    <3> QED BY <1>1, <1>2, <3>1, LoopKeeps
  <2> QED BY <1>3, <2>1, <2>2
<1>6. CASE ReadVotingRows
  <2>1. CASE cycle' = [cycle EXCEPT !.pc = "tallyingAgain", !.left = Unlisted]
    <3>1. /\ Unlisted \in SUBSET Proposal
          /\ \A p \in Unlisted : chainStatus[p] # "none"
      BY DEF Unlisted, ProposalsInv, OutcomesAreTrue
    <3>2. /\ cycle' \in Cycle /\ cycle'.pc = "tallyingAgain"
          /\ cycle'.listed = cycle.listed /\ cycle'.left = Unlisted
      BY <2>1, <3>1, CycleFields DEF Cycle
    <3>3. CycleIsTrue'
      BY <1>2, <3>1, <3>2, CycleFields DEF CycleIsTrue
    <3> QED BY <1>1, <1>2, <3>2, <3>3, CycleKeeps
  <2> QED BY <1>3, <1>6, <2>1 DEF ReadVotingRows
<1>7. CASE CycleEnds
  BY <1>3, <1>7 DEF CycleEnds
<1> QED BY <1>4, <1>5, <1>6, <1>7

LEMMA CacheVotingInv ==
    ASSUME ProposalsInv, NEW p \in Proposal, CacheVoting(p)
    PROVE  ProposalsInv'
<1>1. proposalFaults' \in 0..MaxProposalFaults
  BY ProposalFaultCounts DEF CacheVoting
<1>2. p \in cycle.left /\ cycle.pc = "voting" /\ chainStatus[p] # "none"
  BY CycleFields DEF CacheVoting
<1>3. cycle' = [cycle EXCEPT !.left = @ \ {p}] /\ UNCHANGED <<chainStatus, snapshotAt>>
  BY DEF CacheVoting, AfterFailure
<1>4. /\ cycle' \in Cycle /\ cycle'.pc = "voting"
      /\ cycle'.listed = cycle.listed /\ cycle'.left \subseteq cycle.left
  <2>1. cycle.left \ {p} \in SUBSET Proposal
    BY CycleFields
  <2> QED BY <1>2, <1>3, <2>1, CycleFields DEF Cycle
<1>5. CASE UNCHANGED cached
  BY <1>1, <1>3, <1>4, <1>5, LoopKeeps
<1>6. CASE cached' = [cached EXCEPT ![p] = "voting"]
  <2>1. cached' \in [Proposal -> {"none", "voting"} \cup Decided]
    BY <1>6 DEF ProposalsInv, ProposalsTypeOK
  <2>2. ProposalsTypeOK'
    BY <1>1, <1>3, <1>4, <2>1 DEF ProposalsInv, ProposalsTypeOK
  <2>3. OutcomesAreTrue'
    BY <1>2, <1>3, <1>6 DEF ProposalsInv, ProposalsTypeOK, OutcomesAreTrue, Decided
  <2>4. CycleIsTrue'
    BY <1>3, <1>4 DEF ProposalsInv, CycleIsTrue
  <2>5. EverySnapshotIsSound'
    BY <1>3 DEF ProposalsInv, EverySnapshotIsSound, SetBy
  <2> QED BY <2>2, <2>3, <2>4, <2>5 DEF ProposalsInv
<1> QED BY <1>5, <1>6 DEF CacheVoting

LEMMA FinaliseInv ==
    ASSUME ProposalsInv, Finalise
    PROVE  ProposalsInv'
<1> DEFINE p == Latest(cycle.left)
           status(answer) == IF answer \in {"passed", "rejected"} THEN answer ELSE "failed"
           skip == [cycle EXCEPT !.left = @ \ {p}]
           save(answer) == [cycle EXCEPT !.pc = "save", !.current = p, !.status = status(answer)]
<1>1. proposalFaults' \in 0..MaxProposalFaults /\ UNCHANGED <<chainStatus, cached, snapshotAt>>
  BY ProposalFaultCounts DEF Finalise
<1>2. p \in cycle.left /\ p \in Proposal /\ chainStatus[p] # "none" /\ cycle.pc = "finalise"
  <2>1. cycle.left \in SUBSET Height0 /\ cycle.left # {}
    BY CycleFields DEF Finalise, Height0
  <2> QED BY <2>1, LatestIsOne, CycleFields DEF Finalise
<1>3. \/ cycle' = skip
      \/ chainStatus[p] # "voting" /\ cycle' = save(chainStatus[p])
  BY DEF Finalise, StillVoting, AfterFailure
<1> HIDE DEF p
<1>4. CASE cycle' = skip
  <2>1. cycle.left \ {p} \in SUBSET Proposal
    BY CycleFields
  <2>2. /\ cycle' \in Cycle /\ cycle'.pc = "finalise"
        /\ cycle'.listed = cycle.listed /\ cycle'.left \subseteq cycle.left
    BY <1>2, <1>4, <2>1, CycleFields DEF Cycle
  <2> QED BY <1>1, <2>2, LoopKeeps
<1>5. CASE chainStatus[p] # "voting" /\ cycle' = save(chainStatus[p])
  <2>1. chainStatus[p] \in Decided /\ status(chainStatus[p]) = chainStatus[p]
    BY <1>2, <1>5 DEF ProposalsInv, ProposalsTypeOK, Decided
  <2>2. p \in Height0
    BY <1>2 DEF Height0
  <2>3. /\ cycle' \in Cycle /\ cycle'.pc = "save" /\ cycle'.left = cycle.left
        /\ cycle'.listed = cycle.listed /\ cycle'.current = p
        /\ cycle'.status = chainStatus[p]
    BY <1>5, <2>1, <2>2, CycleFields DEF Cycle
  <2>4. CycleIsTrue'
    BY <1>1, <1>2, <2>3, CycleFields DEF CycleIsTrue
  <2> QED BY <1>1, <2>3, <2>4, CycleKeeps
<1> QED BY <1>3, <1>4, <1>5

LEMMA SaveFinalInv ==
    ASSUME ProposalsInv, SaveFinal
    PROVE  ProposalsInv'
<1> DEFINE p == cycle.current
<1>1. /\ p \in Proposal /\ chainStatus[p] = cycle.status /\ cycle.status \in Decided
  BY CycleFields DEF SaveFinal, ProposalsInv, CycleIsTrue
<1>2. /\ UNCHANGED <<chainStatus, snapshotAt, proposalFaults>>
      /\ cached' = [cached EXCEPT ![p] = cycle.status]
  BY DEF SaveFinal
<1>3. PICK pc \in {"snapshot", "finalise"} :
        /\ cycle' = [cycle EXCEPT !.left = @ \ {p}, !.pc = pc]
        /\ pc = "snapshot" => cycle.status = "passed"
  <2> DEFINE next == [cycle EXCEPT !.left = @ \ {p}]
  <2>1. \A pc : [next EXCEPT !.pc = pc] = [cycle EXCEPT !.left = @ \ {p}, !.pc = pc]
    BY CycleFields DEF Cycle
  <2>2. \/ cycle.status = "passed" /\ cycle' = [next EXCEPT !.pc = "snapshot"]
        \/ cycle' = [next EXCEPT !.pc = "finalise"]
    BY DEF SaveFinal
  <2> HIDE DEF next
  <2> QED BY <2>1, <2>2
<1> HIDE DEF p
<1>4. /\ cycle' \in Cycle /\ cycle'.pc = pc /\ cycle'.left \subseteq cycle.left
      /\ cycle'.listed = cycle.listed /\ cycle'.current = p
      /\ cycle'.status = cycle.status
  <2>1. cycle.left \ {p} \in SUBSET Proposal
    BY CycleFields
  <2> QED BY <1>3, <2>1, CycleFields DEF Cycle, p
<1>5. cached' \in [Proposal -> {"none", "voting"} \cup Decided]
  BY <1>1, <1>2 DEF ProposalsInv, ProposalsTypeOK
<1>6. ProposalsTypeOK'
  BY <1>2, <1>4, <1>5 DEF ProposalsInv, ProposalsTypeOK
<1>7. OutcomesAreTrue'
  BY <1>1, <1>2 DEF ProposalsInv, ProposalsTypeOK, OutcomesAreTrue, Decided
<1>8. CycleIsTrue'
  BY <1>1, <1>2, <1>3, <1>4, CycleFields DEF CycleIsTrue
<1>9. EverySnapshotIsSound'
  BY <1>2 DEF ProposalsInv, EverySnapshotIsSound, SetBy
<1> QED BY <1>6, <1>7, <1>8, <1>9 DEF ProposalsInv

\* The base of a snapshot is a sound one from below, so its setters are too.
LEMMA FoldParamsInv ==
    ASSUME ProposalsInv, FoldParams
    PROVE  ProposalsInv'
<1> DEFINE p == cycle.current
           stored == {h \in Height0 : h < p /\ snapshotAt[h] # NoParams}
           b == Latest(stored)
<1>1. /\ p \in Proposal /\ chainStatus[p] = "passed"
  BY DEF FoldParams, ProposalsInv, CycleIsTrue
<1>2. proposalFaults' \in 0..MaxProposalFaults /\ UNCHANGED <<chainStatus, cached>>
  BY ProposalFaultCounts DEF FoldParams
<1>3. CASE cycle' = IdleCycle /\ UNCHANGED snapshotAt
  BY <1>2, <1>3, IdleKeeps
<1>4. CASE /\ BaseOf(p) # NoParams
           /\ snapshotAt' = [snapshotAt EXCEPT ![p] = Merged(BaseOf(p), p)]
           /\ cycle' = [cycle EXCEPT !.pc = "finalise"]
  <2>1. stored \in SUBSET Height0 /\ stored # {} /\ BaseOf(p) = snapshotAt[b]
    BY <1>4 DEF BaseOf
  <2>2. b \in Height0 /\ b < p /\ snapshotAt[b] # NoParams
    <3>1. b \in stored
      BY <2>1, LatestIsOne
    <3> QED BY <3>1
  <2> HIDE DEF stored, b, p
  <2>3. p \in Nat /\ b \in Nat /\ p \in Height0 /\ Proposal \subseteq Nat
    BY <1>1, <2>2, ProposalConstants DEF Height0, Genesis
  <2>4. /\ snapshotAt \in [Height0 -> Params \cup {NoParams}]
        /\ snapshotAt[b] \in [Keys -> Height0]
    BY <2>2 DEF ProposalsInv, ProposalsTypeOK, Params
  <2>5. Merged(snapshotAt[b], p) \in Params
    BY <2>3, <2>4 DEF Merged, Params
  <2>6. /\ cycle' \in Cycle /\ cycle'.pc = "finalise"
        /\ cycle'.listed = cycle.listed /\ cycle'.left = cycle.left
    BY <1>4, CycleFields DEF Cycle
  <2>7. ProposalsTypeOK'
    BY <1>2, <1>4, <2>1, <2>4, <2>5, <2>6 DEF ProposalsInv, ProposalsTypeOK
  <2>8. OutcomesAreTrue' /\ CycleIsTrue'
    BY <1>2, <2>6, CycleFields DEF ProposalsInv, OutcomesAreTrue, CycleIsTrue
  <2>9. EverySnapshotIsSound'
    <3> SUFFICES ASSUME NEW h \in Height0, snapshotAt'[h] # NoParams, NEW k \in Keys
                 PROVE  /\ SetBy(h, k, snapshotAt'[h][k])
                        /\ h \in Proposal /\ k \in Updates[h] => snapshotAt'[h][k] = h
      BY <1>2 DEF EverySnapshotIsSound, SetBy
    <3>1. CASE h # p
      BY <1>4, <2>4, <3>1 DEF ProposalsInv, EverySnapshotIsSound
    <3>2. CASE h = p
      <4>1. snapshotAt'[p] = Merged(snapshotAt[b], p)
        BY <1>4, <2>1, <2>3, <2>4
      <4>2. snapshotAt'[p][k] = IF k \in Updates[p] THEN p ELSE snapshotAt[b][k]
        BY <4>1 DEF Merged
      <4>3. CASE k \in Updates[p]
        BY <1>1, <2>3, <3>2, <4>2, <4>3 DEF SetBy
      <4>4. CASE k \notin Updates[p]
        <5>1. SetBy(b, k, snapshotAt[b][k])
          BY <2>2 DEF ProposalsInv, EverySnapshotIsSound
        <5>2. \A setter \in Proposal : setter <= b => setter <= p
          BY <2>2, <2>3
        <5>3. SetBy(p, k, snapshotAt[b][k])
          BY <5>1, <5>2, Zenon DEF SetBy
        <5> QED BY <3>2, <4>2, <4>4, <5>3
      <4> QED BY <4>3, <4>4
    <3> QED BY <3>1, <3>2
  <2> QED BY <2>7, <2>8, <2>9 DEF ProposalsInv
<1> QED BY <1>3, <1>4 DEF FoldParams

LEMMA ProposalsStepInv == ProposalsInv /\ [ProposalsNext]_proposalVars => ProposalsInv'
<1> SUFFICES ASSUME ProposalsInv, [ProposalsNext]_proposalVars PROVE ProposalsInv'
  OBVIOUS
<1>1. ASSUME NEW p \in Proposal, VotingStarts(p) \/ VotingEnds(p) PROVE ProposalsInv'
  BY <1>1, ProposalsChainInv
<1>2. CASE CycleStep
  BY <1>2, ReadingInv, CacheVotingInv, FinaliseInv, SaveFinalInv, FoldParamsInv DEF CycleStep
<1>3. CASE ListVoting
  BY <1>3, ReadingInv
<1>4. CASE ProposalsRestart
  <2>1. proposalFaults' \in 0..MaxProposalFaults
    BY <1>4, ProposalFaultCounts DEF ProposalsRestart
  <2> QED BY <1>4, <2>1, IdleKeeps DEF ProposalsRestart
<1>5. CASE UNCHANGED proposalVars
  BY <1>5 DEF proposalVars, ProposalsInv, ProposalsTypeOK, OutcomesAreTrue, CycleIsTrue,
     EverySnapshotIsSound, SetBy
<1> QED BY <1>1, <1>2, <1>3, <1>4, <1>5 DEF ProposalsNext

-----------------------------------------------------------------------------
\* The inductive invariant holds in every state.
THEOREM ProposalsInvariant == ProposalsSpec => []ProposalsInv
<1> QED BY ProposalsInitInv, ProposalsStepInv, PTL DEF ProposalsSpec

\* The tables and the cycle keep their types.
THEOREM ProposalTypes == ProposalsSpec => []ProposalsTypeOK
<1>1. ProposalsInv => ProposalsTypeOK
  BY DEF ProposalsInv
<1> QED BY <1>1, ProposalsInvariant, PTL

\* A proposal is shown as decided only as the chain decided it.
THEOREM OutcomesStayTrue == ProposalsSpec => []OutcomesAreTrue
<1>1. ProposalsInv => OutcomesAreTrue
  BY DEF ProposalsInv
<1> QED BY <1>1, ProposalsInvariant, PTL

\* A snapshot holds nothing but updates that passed, none from above it.
THEOREM SnapshotsStaySound == ProposalsSpec => []SnapshotsAreSound
<1>1. ProposalsInv => SnapshotsAreSound
  <2> SUFFICES ASSUME ProposalsInv PROVE SnapshotsAreSound
    OBVIOUS
  <2>1. Proposal \subseteq Height0
    BY DEF Height0
  <2> QED BY <2>1 DEF ProposalsInv, EverySnapshotIsSound, SnapshotsAreSound, SetBy
<1> QED BY <1>1, ProposalsInvariant, PTL

-----------------------------------------------------------------------------
(***************************************************************************)
(* The hardware nodes                                                      *)
(***************************************************************************)

\* What an ml_nodes_map names has a weight in the epoch it is of, and that
\* epoch has come.
MapOK(w, named) ==
    /\ w <= weightEpoch
    /\ named # {} => w # NoWeight
    /\ w # NoWeight => named \subseteq Weighed[w]

\* Nobody works for an epoch to come, or with the weights of one.
JobOK(j) == j.epoch <= weightEpoch /\ MapOK(j.weights, j.named)

ServedOK(data) ==
    /\ data.fresh => data.epoch # NoWeight
    /\ \A h \in Holders : MapOK(data.epoch, data.named[h])
    /\ data.epoch <= weightEpoch

HardwareInv ==
    /\ HardwareTypeOK
    /\ HardwareRowsSound
    /\ ServedOK(served)
    /\ hardwarePoll.epoch <= weightEpoch /\ warming.epoch <= weightEpoch
    /\ \A s \in Source, h \in Holders : JobOK(jobs[s][h])

LEMMA HardwareConstants ==
    /\ LastWeightEpoch \in Nat \ {0} /\ MaxHardwareFaults \in Nat
    /\ WeightEpoch \subseteq Nat \ {0} /\ 1 \in WeightEpoch
    /\ \A e \in WeightEpoch : Weighed[e] \in SUBSET MLNodes
BY HardwareAssumption DEF WeightEpoch

LEMMA NoJobOK ==
    ASSUME weightEpoch \in WeightEpoch
    PROVE  /\ NoJob \in Job /\ JobOK(NoJob) /\ NoJob.pc = "none"
           /\ Idle \in [pc : {"idle", "stats", "jobs"}, epoch : WeightEpoch]
           /\ Idle \in [pc : {"idle", "keys", "jobs"}, epoch : WeightEpoch]
           /\ Idle.epoch <= weightEpoch
           /\ NoneServed \in Served /\ ServedOK(NoneServed)
<1>1. weightEpoch \in Nat \ {0} /\ 1 \in WeightEpoch
  BY HardwareConstants
<1>2. /\ Idle \in [pc : {"idle", "stats", "jobs"}, epoch : WeightEpoch]
      /\ Idle \in [pc : {"idle", "keys", "jobs"}, epoch : WeightEpoch]
      /\ Idle.epoch <= weightEpoch
  BY <1>1 DEF Idle
<1>3. NoJob \in Job /\ JobOK(NoJob) /\ NoJob.pc = "none"
  BY <1>1 DEF NoJob, Job, JobOK, MapOK, NoWeight
<1>4. NoneServed \in Served /\ ServedOK(NoneServed)
  BY <1>1 DEF NoneServed, Unnamed, Served, ServedOK, MapOK, NoWeight
<1> QED BY <1>2, <1>3, <1>4

LEMMA HardwareFaultCounts ==
    ASSUME HardwareInv, HardwareFault PROVE hardwareFaults' \in 0..MaxHardwareFaults
BY HardwareConstants DEF HardwareFault, HardwareInv, HardwareTypeOK

LEMMA HardwareInitInv == HardwareInit => HardwareInv
<1> SUFFICES ASSUME HardwareInit PROVE HardwareInv
  OBVIOUS
<1>1. weightEpoch \in WeightEpoch /\ weightEpoch = 1 /\ hardwareFaults \in 0..MaxHardwareFaults
  BY HardwareConstants DEF HardwareInit
<1>2. served \in Served /\ ServedOK(served)
  BY <1>1, NoJobOK DEF HardwareInit
<1>3. /\ jobs \in [Source -> [Holders -> Job]]
      /\ \A s \in Source, h \in Holders : jobs[s][h] = NoJob
  BY <1>1, NoJobOK DEF HardwareInit
<1>4. /\ nodesOf \in [Holders -> SUBSET MLNodes] /\ hardwareRows = {}
      /\ hardwarePoll = Idle /\ warming = Idle
  BY DEF HardwareInit
<1>5. HardwareTypeOK
  BY <1>1, <1>2, <1>3, <1>4, NoJobOK DEF HardwareTypeOK
<1> QED
  BY <1>1, <1>2, <1>3, <1>4, <1>5, NoJobOK DEF HardwareInv, HardwareRowsSound

\* Jobs in order, whatever the source.
JobsGood(all) ==
    /\ all \in [Source -> [Holders -> Job]]
    /\ \A s \in Source, h \in Holders : JobOK(all[s][h])

\* The rows and the chain's epoch are as they were, or the rows are sound again.
LEMMA JobsKeep ==
    ASSUME HardwareInv, JobsGood(jobs'), UNCHANGED weightEpoch,
           nodesOf' \in [Holders -> SUBSET MLNodes],
           hardwareRows' \subseteq HardwareRow, HardwareRowsSound',
           served' \in Served, ServedOK(served'),
           hardwarePoll' \in [pc : {"idle", "stats", "jobs"}, epoch : WeightEpoch],
           hardwarePoll'.epoch <= weightEpoch,
           warming' \in [pc : {"idle", "keys", "jobs"}, epoch : WeightEpoch],
           warming'.epoch <= weightEpoch,
           hardwareFaults' \in 0..MaxHardwareFaults
    PROVE  HardwareInv'
<1>1. HardwareTypeOK'
  BY DEF HardwareInv, HardwareTypeOK, JobsGood
<1>2. ServedOK(served)'
  BY DEF ServedOK, MapOK
<1>3. \A s \in Source, h \in Holders : JobOK(jobs[s][h])'
  BY DEF JobsGood, JobOK, MapOK
<1> QED BY <1>1, <1>2, <1>3 DEF HardwareInv

\* What a step that leaves them alone keeps of the parts.
LEMMA HardwareParts ==
    ASSUME HardwareInv
    PROVE  /\ weightEpoch \in WeightEpoch /\ weightEpoch \in Nat \ {0} /\ weightEpoch <= weightEpoch
           /\ nodesOf \in [Holders -> SUBSET MLNodes]
           /\ served \in Served /\ ServedOK(served)
           /\ hardwarePoll \in [pc : {"idle", "stats", "jobs"}, epoch : WeightEpoch]
           /\ hardwarePoll.epoch <= weightEpoch
           /\ warming \in [pc : {"idle", "keys", "jobs"}, epoch : WeightEpoch]
           /\ warming.epoch <= weightEpoch
           /\ hardwareFaults \in 0..MaxHardwareFaults
           /\ JobsGood(jobs)
BY HardwareConstants DEF HardwareInv, HardwareTypeOK, JobsGood

LEMMA RowsStay ==
    ASSUME HardwareInv, UNCHANGED <<weightEpoch, hardwareRows>>
    PROVE  hardwareRows' \subseteq HardwareRow /\ HardwareRowsSound'
BY DEF HardwareInv, HardwareTypeOK, HardwareRowsSound

LEMMA WeightEpochInv == ASSUME HardwareInv, WeightEpochEnds PROVE HardwareInv'
<1>1. /\ weightEpoch < LastWeightEpoch /\ weightEpoch' = weightEpoch + 1
      /\ UNCHANGED <<nodesOf, hardwareRows, served, hardwarePoll, warming, jobs, hardwareFaults>>
  BY DEF WeightEpochEnds
<1>2. weightEpoch' \in WeightEpoch
  BY <1>1, HardwareParts, HardwareConstants DEF WeightEpoch
<1>3. HardwareTypeOK'
  BY <1>1, <1>2 DEF HardwareInv, HardwareTypeOK
<1>4. \A e \in WeightEpoch \cup {NoWeight} : e <= weightEpoch => e <= weightEpoch'
  BY <1>1, HardwareParts, HardwareConstants DEF NoWeight
<1>5. /\ \A r \in hardwareRows : r.epoch \in WeightEpoch /\ r.weight \in WeightEpoch \cup {NoWeight}
      /\ \A s \in Source, h \in Holders :
            /\ jobs[s][h].epoch \in WeightEpoch
            /\ jobs[s][h].weights \in WeightEpoch \cup {NoWeight}
      /\ served.epoch \in WeightEpoch \cup {NoWeight}
      /\ hardwarePoll.epoch \in WeightEpoch /\ warming.epoch \in WeightEpoch
  BY DEF HardwareInv, HardwareTypeOK, HardwareRow, Job, Served
<1>6. HardwareRowsSound'
  BY <1>1, <1>4, <1>5 DEF HardwareInv, HardwareRowsSound
<1>7. \A s \in Source, h \in Holders : JobOK(jobs[s][h])'
  BY <1>1, <1>4, <1>5 DEF HardwareInv, JobOK, MapOK
<1>8. ServedOK(served)'
  BY <1>1, <1>4, <1>5 DEF HardwareInv, ServedOK, MapOK
<1> QED BY <1>1, <1>3, <1>4, <1>5, <1>6, <1>7, <1>8 DEF HardwareInv

\* warm_participant_cache goes on with the epoch that was just fetched, whether
\* its answer was complete or not.
LEMMA EpochFetched ==
    ASSUME HardwareInv, NEW data \in Answers, FetchEpochStats(data)
    PROVE  /\ served' = data /\ data \in Served /\ ServedOK(data)
           /\ data.epoch = weightEpoch
           /\ warming' \in [pc : {"idle", "keys", "jobs"}, epoch : WeightEpoch]
           /\ warming'.epoch <= weightEpoch
           /\ hardwareFaults' \in 0..MaxHardwareFaults
<1>1. /\ served' = data
      /\ warming' = [pc |-> "keys", epoch |-> weightEpoch] \/ warming' = warming
      /\ HardwareFault \/ UNCHANGED hardwareFaults
  BY DEF FetchEpochStats, WarmingStarts
<1>2. PICK named \in [Holders -> SUBSET Weighed[weightEpoch]] :
         data = [epoch |-> weightEpoch, fresh |-> TRUE, named |-> named]
  BY DEF Answers
<1>3. /\ weightEpoch \in WeightEpoch /\ weightEpoch # NoWeight
      /\ \A h \in Holders : named[h] \subseteq Weighed[weightEpoch]
      /\ named \in [Holders -> SUBSET MLNodes]
  BY HardwareParts, HardwareConstants DEF NoWeight
<1>4. /\ data.epoch = weightEpoch /\ data.fresh = TRUE /\ data.named = named
      /\ data \in Served
  BY <1>2, <1>3 DEF Served
<1>5. ServedOK(data)
  BY <1>3, <1>4, HardwareParts DEF ServedOK, MapOK
<1>6. /\ warming' \in [pc : {"idle", "keys", "jobs"}, epoch : WeightEpoch]
      /\ warming'.epoch <= weightEpoch
  BY <1>1, HardwareParts
<1> QED BY <1>1, <1>4, <1>5, <1>6, HardwareFaultCounts, HardwareParts

LEMMA ServedInv ==
    ASSUME HardwareInv,
           PublishEpoch \/ DataAges \/ PollHardware \/ PollHardwareEnds \/ WarmingEnds
              \/ \E h \in Holders : NodesChange(h)
    PROVE  HardwareInv'
<1> USE HardwareParts
<1>1. CASE PublishEpoch
  <2>1. PICK data \in Answers : FetchEpochStats(data)
    BY <1>1 DEF PublishEpoch
  <2>2. UNCHANGED <<weightEpoch, nodesOf, hardwareRows, hardwarePoll, jobs>>
    BY <1>1 DEF PublishEpoch, hardwareChain
  <2> QED BY <2>1, <2>2, EpochFetched, RowsStay, JobsKeep
<1>2. CASE DataAges
  <2>1. /\ served' = [served EXCEPT !.fresh = FALSE]
        /\ UNCHANGED <<weightEpoch, nodesOf, hardwareRows, hardwarePoll, warming, jobs, hardwareFaults>>
    BY <1>2 DEF DataAges, hardwareChain
  <2>2. served' \in Served /\ ServedOK(served')
    BY <2>1 DEF Served, ServedOK
  <2> QED BY <2>1, <2>2, RowsStay, JobsKeep
<1>3. CASE PollHardware
  <2>1. /\ hardwarePoll' = [pc |-> "stats", epoch |-> weightEpoch]
        /\ UNCHANGED <<weightEpoch, nodesOf, hardwareRows, served, warming, jobs, hardwareFaults>>
    BY <1>3 DEF PollHardware, hardwareChain
  <2> QED BY <2>1, RowsStay, JobsKeep
<1>4. CASE PollHardwareEnds
  <2>1. /\ hardwarePoll' = Idle
        /\ UNCHANGED <<weightEpoch, nodesOf, hardwareRows, served, warming, jobs, hardwareFaults>>
    BY <1>4 DEF PollHardwareEnds, hardwareChain
  <2> QED BY <2>1, NoJobOK, RowsStay, JobsKeep
<1>5. CASE WarmingEnds
  <2>1. /\ warming' = Idle
        /\ UNCHANGED <<weightEpoch, nodesOf, hardwareRows, served, hardwarePoll, jobs, hardwareFaults>>
    BY <1>5 DEF WarmingEnds, hardwareChain
  <2> QED BY <2>1, NoJobOK, RowsStay, JobsKeep
<1>6. ASSUME NEW h \in Holders, NodesChange(h) PROVE HardwareInv'
  <2>1. /\ nodesOf' \in [Holders -> SUBSET MLNodes] /\ HardwareFault
        /\ UNCHANGED <<weightEpoch, hardwareRows, served, hardwarePoll, warming, jobs>>
    BY <1>6 DEF NodesChange
  <2> QED BY <2>1, HardwareFaultCounts, RowsStay, JobsKeep
<1> QED BY <1>1, <1>2, <1>3, <1>4, <1>5, <1>6

\* A job that is given a map which is in order is in order.
LEMMA JobWithMap ==
    ASSUME weightEpoch \in WeightEpoch,
           NEW j \in Job, j.epoch <= weightEpoch, NEW w \in WeightEpoch \cup {NoWeight},
           NEW named \in SUBSET MLNodes, MapOK(w, named)
    PROVE  WithMap(j, w, named) \in Job /\ JobOK(WithMap(j, w, named))
<1> DEFINE v == IF named = {} THEN NoWeight ELSE w
<1>1. v \in WeightEpoch \cup {NoWeight} /\ MapOK(v, named)
  <2>1. NoWeight <= weightEpoch
    BY HardwareConstants DEF NoWeight
  <2> QED BY <2>1 DEF MapOK
<1>2. WithMap(j, w, named) = [j EXCEPT !.weights = v, !.named = named]
  BY DEF WithMap
<1> HIDE DEF v
<1> QED BY <1>1, <1>2 DEF Job, JobOK

LEMMA JobsStart ==
    ASSUME HardwareInv, NEW s \in Source, NEW e \in WeightEpoch, e <= weightEpoch,
           NEW w \in WeightEpoch \cup {NoWeight}, NEW named \in [Holders -> SUBSET MLNodes],
           \A h \in Holders : MapOK(w, named[h])
    PROVE  JobsGood(Started(s, e, w, named))
<1> DEFINE j == [NoJob EXCEPT !.pc = "check", !.epoch = e]
           all == Started(s, e, w, named)
<1>1. j \in Job /\ j.epoch = e
  BY HardwareConstants DEF NoJob, Job, NoWeight
<1>2. all = [jobs EXCEPT ![s] = [h \in Holders |-> WithMap(j, w, named[h])]]
  BY DEF Started
<1>3. weightEpoch \in WeightEpoch /\ JobsGood(jobs)
  BY HardwareParts
<1> HIDE DEF j, all
<1>4. \A h \in Holders : WithMap(j, w, named[h]) \in Job /\ JobOK(WithMap(j, w, named[h]))
  BY <1>1, <1>3, JobWithMap
<1>5. /\ all \in [Source -> [Holders -> Job]]
      /\ \A h \in Holders : all[s][h] = WithMap(j, w, named[h])
      /\ \A u \in Source, h \in Holders : u # s => all[u][h] = jobs[u][h]
  BY <1>2, <1>3, <1>4 DEF JobsGood
<1>6. ASSUME NEW u \in Source, NEW h \in Holders PROVE JobOK(all[u][h])
  BY <1>3, <1>4, <1>5 DEF JobsGood
<1>7. JobsGood(all)
  BY <1>5, <1>6 DEF JobsGood
<1> QED BY <1>7 DEF all

LEMMA JobMoves ==
    ASSUME HardwareInv, NEW s \in Source, NEW h \in Holders, NEW j \in Job, JobOK(j)
    PROVE  JobsGood([jobs EXCEPT ![s][h] = j])
<1> DEFINE all == [jobs EXCEPT ![s][h] = j]
<1>1. jobs \in [Source -> [Holders -> Job]]
  BY DEF HardwareInv, HardwareTypeOK
<1>2. /\ all \in [Source -> [Holders -> Job]]
      /\ all[s][h] = j
      /\ \A u \in Source, g \in Holders : u # s \/ g # h => all[u][g] = jobs[u][g]
  BY <1>1
<1> HIDE DEF all
<1>3. ASSUME NEW u \in Source, NEW g \in Holders PROVE JobOK(all[u][g])
  BY <1>2 DEF HardwareInv
<1>4. JobsGood(all)
  BY <1>2, <1>3 DEF JobsGood
<1> QED BY <1>4 DEF all

LEMMA RoundsInv ==
    ASSUME HardwareInv, PollStats \/ WarmKeysFirst \/ HardwareRestart PROVE HardwareInv'
<1> USE HardwareParts
<1>1. CASE PollStats
  <2> DEFINE StartWith(data) ==
               /\ jobs' = Started("poller", hardwarePoll.epoch, data.epoch, data.named)
               /\ hardwarePoll' = [hardwarePoll EXCEPT !.pc = "jobs"]
  <2>1. UNCHANGED <<weightEpoch, nodesOf, hardwareRows>>
    BY <1>1 DEF PollStats, hardwareChain
  <2>2. \/ StartWith(served) /\ UNCHANGED <<served, warming, hardwareFaults>>
        \/ \E data \in Answers : FetchEpochStats(data) /\ StartWith(data)
        \/ /\ HardwareFault /\ UNCHANGED <<served, warming>>
           /\ StartWith(served) \/ (hardwarePoll' = Idle /\ UNCHANGED jobs)
    BY <1>1 DEF PollStats
  <2>3. ASSUME NEW data \in Served, ServedOK(data), StartWith(data)
        PROVE  /\ JobsGood(jobs')
               /\ hardwarePoll' \in [pc : {"idle", "stats", "jobs"}, epoch : WeightEpoch]
               /\ hardwarePoll'.epoch <= weightEpoch
    <3>1. "poller" \in Source /\ hardwarePoll.epoch \in WeightEpoch
      BY DEF Source
    <3>2. /\ data.epoch \in WeightEpoch \cup {NoWeight}
          /\ data.named \in [Holders -> SUBSET MLNodes]
          /\ \A h \in Holders : MapOK(data.epoch, data.named[h])
      BY <2>3 DEF Served, ServedOK
    <3>3. JobsGood(Started("poller", hardwarePoll.epoch, data.epoch, data.named))
      BY <3>1, <3>2, JobsStart
    <3> QED BY <2>3, <3>3
  <2> HIDE DEF StartWith
  <2>4. CASE StartWith(served) /\ UNCHANGED <<served, warming, hardwareFaults>>
    BY <2>1, <2>3, <2>4, RowsStay, JobsKeep
  <2>5. ASSUME NEW data \in Answers, FetchEpochStats(data), StartWith(data) PROVE HardwareInv'
    BY <2>1, <2>3, <2>5, RowsStay, EpochFetched, JobsKeep
  <2>6. CASE HardwareFault /\ UNCHANGED <<served, warming>> /\ StartWith(served)
    BY <2>1, <2>3, <2>6, HardwareFaultCounts, RowsStay, JobsKeep
  <2>7. CASE HardwareFault /\ UNCHANGED <<served, warming>> /\ hardwarePoll' = Idle /\ UNCHANGED jobs
    BY <2>1, <2>7, HardwareFaultCounts, NoJobOK, RowsStay, JobsKeep
  <2> QED BY <2>2, <2>4, <2>5, <2>6, <2>7
<1>2. CASE WarmKeysFirst
  <2>1. /\ warming' = [warming EXCEPT !.pc = "jobs"]
        /\ jobs' = Started("warming", warming.epoch, NoWeight, Unnamed)
        /\ UNCHANGED <<weightEpoch, nodesOf, hardwareRows, served, hardwarePoll, hardwareFaults>>
    BY <1>2 DEF WarmKeysFirst, hardwareChain
  <2>2. /\ "warming" \in Source /\ warming.epoch \in WeightEpoch
        /\ Unnamed \in [Holders -> SUBSET MLNodes]
        /\ \A h \in Holders : MapOK(NoWeight, Unnamed[h])
    BY DEF Source, NoWeight, Unnamed, MapOK
  <2>3. JobsGood(jobs')
    BY <2>1, <2>2, JobsStart
  <2>4. /\ warming' \in [pc : {"idle", "keys", "jobs"}, epoch : WeightEpoch]
        /\ warming'.epoch <= weightEpoch
    BY <2>1
  <2> QED BY <2>1, <2>3, <2>4, RowsStay, JobsKeep
<1>3. CASE HardwareRestart
  <2>1. /\ HardwareFault /\ served' = NoneServed
        /\ hardwarePoll' = Idle /\ warming' = Idle
        /\ jobs' = [s \in Source |-> [h \in Holders |-> NoJob]]
        /\ UNCHANGED <<weightEpoch, nodesOf, hardwareRows>>
    BY <1>3 DEF HardwareRestart, hardwareChain
  <2>2. JobsGood(jobs')
    BY <2>1, NoJobOK DEF JobsGood
  <2> QED BY <2>1, <2>2, NoJobOK, HardwareFaultCounts, RowsStay, JobsKeep
<1> QED BY <1>1, <1>2, <1>3

\* A job takes a step towards its save and touches nothing else.
LEMMA OneJobMoves ==
    ASSUME HardwareInv, NEW s \in Source, NEW h \in Holders, NEW j \in Job, JobOK(j),
           jobs' = [jobs EXCEPT ![s][h] = j],
           HardwareFault \/ UNCHANGED hardwareFaults,
           UNCHANGED <<weightEpoch, nodesOf, hardwareRows, served, hardwarePoll, warming>>
    PROVE  HardwareInv'
<1>1. JobsGood(jobs')
  BY JobMoves
<1> QED BY <1>1, HardwareParts, HardwareFaultCounts, RowsStay, JobsKeep

LEMMA JobsAsked ==
    ASSUME HardwareInv, NEW s \in Source, NEW h \in Holders,
           CheckRows(s, h) \/ WeighNodes(s, h) \/ FetchNodes(s, h)
    PROVE  HardwareInv'
<1> USE HardwareParts
<1> DEFINE j == jobs[s][h]
<1>1. j \in Job /\ JobOK(j)
  BY DEF HardwareInv, HardwareTypeOK
<1>2. UNCHANGED <<weightEpoch, nodesOf, hardwareRows, served, hardwarePoll, warming>>
  BY DEF CheckRows, WeighNodes, FetchNodes, hardwareChain
<1>3. CASE CheckRows(s, h)
  <2> DEFINE k == IF ~ Wanting(s, j.epoch, h) THEN NoJob
                  ELSE [j EXCEPT !.pc = IF s = "page" THEN "weigh" ELSE "fetch"]
  <2>1. jobs' = [jobs EXCEPT ![s][h] = k] /\ UNCHANGED hardwareFaults
    BY <1>3 DEF CheckRows
  <2>2. k \in Job /\ JobOK(k)
    BY <1>1, NoJobOK DEF Job, JobOK
  <2> HIDE DEF k, j
  <2> QED BY <1>2, <2>1, <2>2, OneJobMoves
<1>4. CASE WeighNodes(s, h)
  <2> DEFINE group == IF j.isCurrent THEN weightEpoch ELSE j.epoch
             found == IF Weighed[group] = {} THEN j.epoch ELSE group
             k == [j EXCEPT !.pc = "fetch", !.isCurrent = FALSE]
  <2>1. PICK w \in {group, j.epoch} : \E named \in SUBSET Weighed[w] :
           /\ jobs' = [jobs EXCEPT ![s][h] = WithMap(k, w, named)]
           /\ HardwareFault \/ UNCHANGED hardwareFaults
    <3>1. CASE /\ jobs' = [jobs EXCEPT ![s][h] = WithMap(k, found, Weighed[found])]
               /\ UNCHANGED hardwareFaults
      <4>1. found \in {group, j.epoch}
        OBVIOUS
      <4> HIDE DEF found
      <4> QED BY <3>1, <4>1
    <3>2. CASE /\ HardwareFault
               /\ \E w \in {group, j.epoch} : \E named \in SUBSET Weighed[w] :
                     jobs' = [jobs EXCEPT ![s][h] = WithMap(k, w, named)]
      BY <3>2
    <3> QED BY <1>4, <3>1, <3>2 DEF WeighNodes
  <2>2. /\ w \in WeightEpoch /\ w <= weightEpoch /\ w # NoWeight
        /\ k \in Job /\ k.epoch = j.epoch /\ j.epoch <= weightEpoch
    <3>1. j.epoch \in WeightEpoch /\ j.epoch <= weightEpoch
      BY <1>1 DEF Job, JobOK
    <3>2. w \in WeightEpoch /\ w <= weightEpoch
      BY <2>1, <3>1
    <3>3. k \in Job /\ k.epoch = j.epoch
      BY <1>1 DEF Job
    <3> QED BY <3>1, <3>2, <3>3, HardwareConstants DEF NoWeight
  <2>3. PICK named \in SUBSET Weighed[w] :
           /\ jobs' = [jobs EXCEPT ![s][h] = WithMap(k, w, named)]
           /\ HardwareFault \/ UNCHANGED hardwareFaults
    BY <2>1
  <2>4. named \in SUBSET MLNodes /\ MapOK(w, named)
    BY <2>2, HardwareConstants DEF MapOK
  <2> HIDE DEF k, j
  <2>5. WithMap(k, w, named) \in Job /\ JobOK(WithMap(k, w, named))
    BY <2>2, <2>4, JobWithMap
  <2> QED BY <1>2, <2>3, <2>5, OneJobMoves
<1>5. CASE FetchNodes(s, h)
  <2> DEFINE k(nodes) == [j EXCEPT !.pc = "save", !.nodes = nodes]
  <2>1. PICK nodes \in SUBSET MLNodes :
           /\ jobs' = [jobs EXCEPT ![s][h] = k(nodes)]
           /\ HardwareFault \/ UNCHANGED hardwareFaults
    <3>1. nodesOf[h] \in SUBSET MLNodes /\ {} \in SUBSET MLNodes
      OBVIOUS
    <3>2. \A nodes : [jobs EXCEPT ![s][h].pc = "save", ![s][h].nodes = nodes]
                        = [jobs EXCEPT ![s][h] = k(nodes)]
      BY DEF HardwareInv, HardwareTypeOK, Job
    <3> HIDE DEF k
    <3> QED BY <1>5, <3>1, <3>2 DEF FetchNodes
  <2>2. k(nodes) \in Job /\ JobOK(k(nodes))
    BY <1>1 DEF Job, JobOK
  <2> HIDE DEF k, j
  <2> QED BY <1>2, <2>1, <2>2, OneJobMoves
<1> QED BY <1>3, <1>4, <1>5

\* The rows of one epoch and participant are replaced, by one row per node.
LEMMA RowsSavedInv ==
    ASSUME HardwareInv, NEW s \in Source, NEW h \in Holders, SaveNodes(s, h)
    PROVE  HardwareInv'
<1> USE HardwareParts
<1>1. PICK j : j = jobs[s][h]
  OBVIOUS
<1>2. j \in Job /\ JobOK(j) /\ j.pc = "save"
  BY <1>1 DEF HardwareInv, HardwareTypeOK, SaveNodes
<1>3. /\ j.epoch \in WeightEpoch /\ j.weights \in WeightEpoch \cup {NoWeight}
      /\ j.nodes \in SUBSET MLNodes /\ j.epoch <= weightEpoch /\ j.weights <= weightEpoch
      /\ j.weights # NoWeight => j.named \subseteq Weighed[j.weights]
      /\ NoWeight <= weightEpoch
  BY <1>2 DEF Job, JobOK, MapOK, NoWeight
<1> DEFINE Weight(n) == IF n \in j.named THEN j.weights ELSE NoWeight
           Row(n) == [epoch |-> j.epoch, holder |-> h, node |-> n, weight |-> Weight(n)]
           old == {r \in hardwareRows : ~ (r.epoch = j.epoch /\ r.holder = h)}
           new == {Row(n) : n \in j.nodes}
<1>4. /\ hardwareRows' = old \cup new
      /\ jobs' = [jobs EXCEPT ![s][h] = NoJob]
      /\ UNCHANGED <<weightEpoch, nodesOf, served, hardwarePoll, warming, hardwareFaults>>
  BY <1>1 DEF SaveNodes, RowsSaved, RowsOf, hardwareChain
<1>5. \A n \in j.nodes :
         /\ Row(n) \in HardwareRow
         /\ Row(n).epoch = j.epoch /\ Row(n).holder = h /\ Row(n).node = n
         /\ Row(n).weight = Weight(n)
  BY <1>3 DEF HardwareRow
<1>6. \A n \in j.nodes : /\ Weight(n) <= weightEpoch
                         /\ Weight(n) # NoWeight => n \in Weighed[Weight(n)]
  BY <1>3
<1> HIDE DEF Row, Weight
<1>7. \A r \in new : \E n \in j.nodes : r = Row(n)
  OBVIOUS
<1>8. hardwareRows' \subseteq HardwareRow
  BY <1>4, <1>5 DEF HardwareInv, HardwareTypeOK
<1>9. HardwareRowsSound'
  <2>1. \A r \in new : /\ r.epoch = j.epoch /\ r.holder = h
                       /\ r.epoch <= weightEpoch /\ r.weight <= weightEpoch
                       /\ r.weight # NoWeight => r.node \in Weighed[r.weight]
    BY <1>3, <1>5, <1>6, <1>7
  <2>2. \A r, q \in new : r.node = q.node => r = q
    BY <1>5, <1>7
  <2>3. \A r \in old : r \in hardwareRows /\ ~ (r.epoch = j.epoch /\ r.holder = h)
    OBVIOUS
  <2> HIDE DEF old, new
  <2>4. \A r \in hardwareRows' : /\ r.epoch <= weightEpoch /\ r.weight <= weightEpoch
                                 /\ r.weight # NoWeight => r.node \in Weighed[r.weight]
    BY <1>4, <2>1, <2>3 DEF HardwareInv, HardwareRowsSound
  <2>5. \A r, q \in hardwareRows' :
           r.epoch = q.epoch /\ r.holder = q.holder /\ r.node = q.node => r = q
    BY <1>4, <2>1, <2>2, <2>3 DEF HardwareInv, HardwareRowsSound
  <2> QED BY <1>4, <2>4, <2>5 DEF HardwareRowsSound
<1>10. JobsGood(jobs')
  BY <1>4, NoJobOK, JobMoves
<1> QED BY <1>4, <1>8, <1>9, <1>10, JobsKeep

LEMMA PageOpensInv ==
    ASSUME HardwareInv, NEW h \in Holders, NEW e \in WeightEpoch, OpenHardwarePage(h, e)
    PROVE  HardwareInv'
<1> USE HardwareParts
<1>1. PICK current \in BOOLEAN :
         jobs' = [jobs EXCEPT !["page"][h] =
               [NoJob EXCEPT !.pc = "check", !.epoch = e, !.isCurrent = current]]
  BY DEF OpenHardwarePage
<1>2. /\ e <= weightEpoch
      /\ UNCHANGED <<weightEpoch, nodesOf, hardwareRows, served, hardwarePoll,
                     warming, hardwareFaults>>
  BY DEF OpenHardwarePage, hardwareChain
<1> DEFINE j == [NoJob EXCEPT !.pc = "check", !.epoch = e, !.isCurrent = current]
<1>3. j \in Job /\ JobOK(j)
  <2>1. NoJob \in Job /\ JobOK(NoJob)
    BY NoJobOK
  <2> QED BY <1>2, <2>1 DEF Job, JobOK
<1> HIDE DEF j
<1>4. "page" \in Source
  BY DEF Source
<1> QED BY <1>1, <1>2, <1>3, <1>4, OneJobMoves DEF j

LEMMA HardwareStep == HardwareInv /\ [HardwareNext]_hardwareVars => HardwareInv'
<1> SUFFICES ASSUME HardwareInv, [HardwareNext]_hardwareVars PROVE HardwareInv'
  OBVIOUS
<1>1. CASE HardwareNext
  BY <1>1, WeightEpochInv, ServedInv, RoundsInv, JobsAsked, RowsSavedInv, PageOpensInv
     DEF HardwareNext, WarmingStep, JobStep
<1>2. CASE UNCHANGED hardwareVars
  BY <1>2 DEF hardwareVars, HardwareInv, HardwareTypeOK, HardwareRowsSound, JobOK, ServedOK, MapOK
<1> QED BY <1>1, <1>2

THEOREM HardwareInvariant == HardwareSpec => []HardwareInv
BY HardwareInitInv, HardwareStep, PTL DEF HardwareSpec

\* save_hardware_nodes_batch leaves one row per node, none of an epoch to come,
\* and a weight only of an epoch that has come and gives one to that node, however
\* the three coroutines replace each other's and whatever requests fail.
THEOREM HardwareRowsStaySound == HardwareSpec => []HardwareRowsSound
<1>1. HardwareInv => HardwareRowsSound
  BY DEF HardwareInv
<1> QED BY <1>1, HardwareInvariant, PTL

-----------------------------------------------------------------------------
(***************************************************************************)
(* The four caches together                                                *)
(***************************************************************************)


\* The step of one cache leaves the others alone.
LEMMA CacheSteps ==
    [CachesNext]_cacheVars =>
        /\ [RewardsNext]_rewardVars /\ [HardwareNext]_hardwareVars
        /\ [UsageNext]_usageVars /\ [ProposalsNext]_proposalVars
<1> SUFFICES ASSUME [CachesNext]_cacheVars
             PROVE  /\ [RewardsNext]_rewardVars /\ [HardwareNext]_hardwareVars
                    /\ [UsageNext]_usageVars /\ [ProposalsNext]_proposalVars
  OBVIOUS
<1>1. CASE UNCHANGED cacheVars
  BY <1>1 DEF cacheVars
<1>2. CASE CachesNext
  <2>1. TotalsNext \/ ClaimsNext(p2) => RewardsNext
    BY CachesAssumption DEF RewardsNext
  <2> QED BY <1>2, <2>1 DEF CachesNext
<1> QED BY <1>1, <1>2

\* Side by side, the four caches do what each does alone: what is proved of one
\* holds of the product that the runs explore.
THEOREM CachesAreApart ==
    CachesSpec => RewardsSpec /\ HardwareSpec /\ UsageSpec /\ ProposalsSpec
<1>1. CachesInit => RewardsInit /\ HardwareInit /\ UsageInit /\ ProposalsInit
  BY DEF CachesInit
<1> QED
  BY <1>1, CacheSteps, PTL DEF CachesSpec, RewardsSpec, HardwareSpec, UsageSpec, ProposalsSpec

\* The tables and the locals of the coroutines that keep them are well typed.
THEOREM CachesTypes == CachesSpec => []CachesTypeOK
<1>1. HardwareInv => HardwareTypeOK
  BY DEF HardwareInv
<1>2. RewardsTypeOK /\ HardwareTypeOK /\ UsageTypeOK /\ ProposalsTypeOK => CachesTypeOK
  BY DEF CachesTypeOK
<1> QED
  BY <1>1, <1>2, CachesAreApart, RewardsTypes, HardwareInvariant, UsageTypes, ProposalTypes, PTL

=============================================================================
