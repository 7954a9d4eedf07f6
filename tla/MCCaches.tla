------------------------------ MODULE MCCaches ------------------------------
(***************************************************************************)
(* Four caches that share no variable.  A behaviour of the product is four *)
(* unrelated behaviours, so each is explored with the others asleep.       *)
(***************************************************************************)
EXTENDS Rewards, Hardware, ModelUsage, Proposals, TLC

CONSTANTS p1, p2, k1, k2, n1

\* Bound: the runs about the claims look at the rows of this participant only.
ASSUME CachesAssumption == p2 \in Participant

VARIABLE subject   \* the cache that is explored

cacheVars == <<rewardVars, hardwareVars, usageVars, proposalVars, subject>>

MembersDef == <<<<p1, p2>>, <<p2>>, <<p2>>>>
RewardDef == p1 :> 1 @@ p2 :> 3
StartsDef == <<1, 4, 7>>
WeighedDef == 1 :> {n1} @@ 2 :> {n1}
UpdatesDef == 1 :> {k1} @@ 2 :> {k2} @@ 3 :> {}

\* Bound: the runs about the claims end their chain sooner.
ClaimsLastEpoch == 2

CachesInit ==
    /\ subject \in {"totals", "claims", "hardware", "usage", "proposals"}
    /\ RewardsInit /\ HardwareInit /\ UsageInit /\ ProposalsInit

CachesNext ==
    /\ UNCHANGED subject
    /\ \/ /\ \/ subject = "totals" /\ TotalsNext
             \/ /\ subject = "claims" /\ ClaimsNext(p2)
                /\ chainEpoch' <= ClaimsLastEpoch
          /\ UNCHANGED <<hardwareVars, usageVars, proposalVars>>
       \/ /\ subject = "hardware" /\ HardwareNext
          /\ UNCHANGED <<rewardVars, usageVars, proposalVars>>
       \/ /\ subject = "usage" /\ UsageNext
          /\ UNCHANGED <<rewardVars, hardwareVars, proposalVars>>
       \/ /\ subject = "proposals" /\ ProposalsNext
          /\ UNCHANGED <<rewardVars, hardwareVars, usageVars>>

\* The pollers of the cache that is explored run for ever.  What is asleep
\* has no step enabled but these first ones.
CachesFairness ==
    /\ \A p \in Participant : WF_rewardVars(subject = "totals" /\ ChainPays(p))
    /\ WF_rewardVars(subject = "totals" /\ PollTotals)
    /\ WF_rewardVars(subject = "claims" /\ PollClaims)
    /\ WF_hardwareVars(subject = "hardware" /\ PublishEpoch)
    /\ WF_hardwareVars(subject = "hardware" /\ PollHardware)
    /\ WF_usageVars(subject = "usage" /\ Passes)
    /\ \A e \in UsageEpoch : WF_usageVars(SnapshotStored(e)) /\ WF_usageVars(StartIndexed(e))
    /\ WF_proposalVars(subject = "proposals" /\ ListVoting)
    /\ RewardsStepFairness /\ HardwareStepFairness
    /\ SyncFairness /\ CycleFairness

CachesSpec == CachesInit /\ [][CachesNext]_cacheVars /\ CachesFairness

CachesTypeOK ==
    /\ RewardsTypeOK /\ HardwareTypeOK /\ UsageTypeOK /\ ProposalsTypeOK

=============================================================================
