-------------------------- MODULE ConfirmationRates --------------------------
(***************************************************************************)
(* backend/service.py: the confirmation rate of each participant of the    *)
(* running epoch.  The chain's own ratio counts if there is one, else an   *)
(* estimate from the weights of the models' subgroups.                     *)
(*                                                                         *)
(* A poller stores ratios and statuses; the page of the epoch is built     *)
(* from its own answers and merged with those rows; the details of a       *)
(* participant are worked out on the object that the page serves.          *)
(***************************************************************************)
EXTENDS Integers, FiniteSets, Sequences, Functions

CONSTANTS
    RateMembers,      \* the participants of the epoch
    RateModels,       \* its subgroup models
    NodeWeights,      \* poc_weight of each node: a sequence per model and member
    MemberWeight,     \* weight of a member in a model's subgroup
    Coefficient,      \* the scale of each model, num/den
    ConfirmedWeight,  \* confirmation_weight in the root group, or NoValue
    FoundRatios,      \* the ratios a confirmation may yield, in 1/1000
    RateDetails,      \* bound: requests for a participant's details
    MaxRateFaults     \* bound: failed requests

NoValue == -1

ASSUME RatesAssumption ==
    /\ IsFiniteSet(RateMembers) /\ IsFiniteSet(RateModels)
    /\ NodeWeights \in [RateModels -> [RateMembers -> Seq(Nat)]]
    /\ MemberWeight \in [RateModels -> [RateMembers -> Nat]]
    /\ Coefficient \in [RateModels -> [num : Nat, den : Nat \ {0}]]
    /\ ConfirmedWeight \in [RateMembers -> Nat \cup {NoValue}]
    /\ FoundRatios \subseteq Nat
    /\ RateDetails \in Nat /\ MaxRateFaults \in Nat

VARIABLES
    scaleSource,   \* confirmation_weight_scales of the root group, or params
    rateChain,     \* of each member its status and confirmationPoCRatio
    rateRows,      \* confirmation_data
    ratePoll,      \* fetch_and_cache_confirmation_data of the poller
    ratePage,      \* current_epoch_data: the participant objects in memory
    pageBuild,     \* get_current_epoch_stats
    detail,        \* get_participant_details
    rateFaults

rateVars == <<scaleSource, rateChain, rateRows, ratePoll, ratePage, pageBuild, detail, rateFaults>>

MemberStatus == {"ACTIVE", "INACTIVE"}
RateValue == 0..1000

-----------------------------------------------------------------------------
(***************************************************************************)
(* The arithmetic                                                          *)
(***************************************************************************)

\* Mutant of ScaleWeight: rounded up.
ScaleWeightUp(m, raw) ==
    (raw * Coefficient[m].num + Coefficient[m].den - 1) \div Coefficient[m].den

ScaleWeight(m, raw) == (raw * Coefficient[m].num) \div Coefficient[m].den

InSubgroup(m, p) == NodeWeights[m][p] # <<>>

\* With scales of the snapshot the nodes count, with those of the parameters
\* the weight that the subgroup gives its member.
RawWeight(m, p) ==
    IF scaleSource = "snapshot" THEN SumFunction(NodeWeights[m][p]) ELSE MemberWeight[m][p]

\* Over the subgroups that answered: a failed one is left out.
WeightToConfirm(answered, p) ==
    SumFunction([m \in {n \in answered : InSubgroup(n, p)} |->
                    ScaleWeight(m, RawWeight(m, p))])

\* ml_nodes_map, summed up over the nodes of each subgroup.
NodesWeight(answered, p) ==
    SumFunction([m \in answered |->
        SumFunction([i \in DOMAIN NodeWeights[m][p] |-> ScaleWeight(m, NodeWeights[m][p][i])])])

\* min(chain_confirmation_ratio, 1)
AtMostOne(ratio) == IF ratio > 1000 THEN 1000 ELSE ratio

\* confirmation_weight / weight_to_confirm / 0.909, in 1/1000 and capped.
Estimate(confirmed, weight) == AtMostOne((confirmed * 1000000) \div (weight * 909))

RateOf(status, ratio, confirmed, weight, member) ==
    CASE ratio # NoValue -> [state |-> "confirmed", value |-> AtMostOne(ratio)]
      [] ratio = NoValue /\ status = "INACTIVE" -> [state |-> "inactive", value |-> NoValue]
      [] OTHER ->
            IF member /\ confirmed # NoValue /\ weight > 0
            THEN [state |-> "estimate", value |-> Estimate(confirmed, weight)]
            ELSE [state |-> "unknown", value |-> NoValue]

-----------------------------------------------------------------------------
Rate == [state : {"confirmed", "inactive", "estimate", "unknown"}, value : RateValue \cup {NoValue}]

\* own is status, told is participant_status.
Participant == [own : MemberStatus, told : MemberStatus \cup {""}, answered : SUBSET RateModels, rate : Rate]
Page == [RateMembers -> Participant]
NoPage == [p \in {} |-> {}]

Truths == [RateMembers -> [status : MemberStatus, ratio : Nat \cup {NoValue}]]
NoSight == [p \in {} |-> {}]
NotStored == [status |-> "none", ratio |-> NoValue]

RatesTypeOK ==
    /\ scaleSource \in {"snapshot", "params"}
    /\ rateChain \in Truths
    /\ rateRows \in [RateMembers -> {NotStored} \cup
                        [status : MemberStatus \cup {""}, ratio : Nat \cup {NoValue}]]
    /\ ratePoll \in Truths \cup {NoSight}
    /\ ratePage \in Page \cup {NoPage}
    /\ pageBuild \in [pc : {"idle", "merge", "publish"}, page : Page \cup {NoPage}]
    /\ detail \in [pc : {"idle", "weights", "ratio"}, who : RateMembers \cup {"none"},
                   shared : BOOLEAN, member : BOOLEAN, left : 0..RateDetails]
    /\ detail.pc # "idle" => detail.who \in RateMembers
    /\ rateFaults \in 0..MaxRateFaults

RatesInit ==
    /\ scaleSource \in {"snapshot", "params"}
    /\ rateChain = [p \in RateMembers |-> [status |-> "ACTIVE", ratio |-> NoValue]]
    /\ rateRows = [p \in RateMembers |-> NotStored]
    /\ ratePoll = NoSight
    /\ ratePage = NoPage
    /\ pageBuild = [pc |-> "idle", page |-> NoPage]
    /\ detail = [pc |-> "idle", who |-> "none", shared |-> FALSE, member |-> FALSE,
                 left |-> RateDetails]
    /\ rateFaults = 0

RateFaults(k) == rateFaults + k <= MaxRateFaults /\ rateFaults' = rateFaults + k

\* The requests for the subgroups, of which some fail.
SubgroupsAnswer(answered) == RateFaults(Cardinality(RateModels \ answered))

-----------------------------------------------------------------------------
(***************************************************************************)
(* The chain                                                               *)
(***************************************************************************)

FindRatio(p, ratio) ==
    /\ rateChain[p].ratio = NoValue
    /\ rateChain' = [rateChain EXCEPT ![p].ratio = ratio]
    /\ UNCHANGED <<scaleSource, rateRows, ratePoll, ratePage, pageBuild, detail, rateFaults>>

Deactivate(p) ==
    /\ rateChain[p].status = "ACTIVE"
    /\ rateChain' = [rateChain EXCEPT ![p].status = "INACTIVE"]
    /\ UNCHANGED <<scaleSource, rateRows, ratePoll, ratePage, pageBuild, detail, rateFaults>>

-----------------------------------------------------------------------------
(***************************************************************************)
(* poll_confirmation_data                                                  *)
(***************************************************************************)

\* Everything is asked at the height that is read here.
PollRates ==
    /\ ratePoll = NoSight
    /\ ratePoll' = rateChain
    /\ UNCHANGED <<scaleSource, rateChain, rateRows, ratePage, pageBuild, detail, rateFaults>>

\* Mutant of RateRow: INSERT OR IGNORE.
RateRowFirst(p, asked) == IF rateRows[p] # NotStored THEN rateRows[p] ELSE ratePoll[p]

RateRow(p, asked) ==
    IF asked THEN [status |-> ratePoll[p].status, ratio |-> AtMostOne(ratePoll[p].ratio)]
    ELSE [status |-> "", ratio |-> NoValue]

\* A member whose request fails is stored as of no known status, over what
\* was known of it.  The weights of the row are those that every page has.
SaveRates(failed) ==
    /\ ratePoll # NoSight
    /\ RateFaults(Cardinality(failed))
    /\ rateRows' = [p \in RateMembers |-> RateRow(p, p \notin failed)]
    /\ ratePoll' = NoSight
    /\ UNCHANGED <<scaleSource, rateChain, ratePage, pageBuild, detail>>

\* The group or the parameters fail, and with them the round.
PollRatesFails ==
    /\ ratePoll # NoSight
    /\ RateFaults(1)
    /\ ratePoll' = NoSight
    /\ UNCHANGED <<scaleSource, rateChain, rateRows, ratePage, pageBuild, detail>>

-----------------------------------------------------------------------------
(***************************************************************************)
(* get_current_epoch_stats                                                 *)
(***************************************************************************)

\* The participants, the groups and the subgroups, all at one height.
BuildPage(answered) ==
    /\ pageBuild.pc = "idle"
    /\ SubgroupsAnswer(answered)
    /\ pageBuild' = [pc |-> "merge", page |-> [p \in RateMembers |->
          LET t == rateChain[p] IN
          [own |-> t.status, told |-> t.status, answered |-> answered,
           rate |-> RateOf(t.status, t.ratio, ConfirmedWeight[p],
                           WeightToConfirm(answered, p), TRUE)]]]
    /\ UNCHANGED <<scaleSource, rateChain, rateRows, ratePoll, ratePage, detail>>

\* participant_status or status
KnownStatus(s) == IF s.told # "" THEN s.told ELSE s.own

ChainRatioOf(s) == IF s.rate.state = "confirmed" THEN s.rate.value ELSE NoValue

\* The row's ratio if it has one, else the one the page read itself.
Preferred(row, s) == IF row.ratio # NoValue THEN row.ratio ELSE ChainRatioOf(s)

Merged(p, s) ==
    LET row   == rateRows[p]
        told  == IF row = NotStored THEN s.told ELSE row.status
        ratio == IF row = NotStored THEN ChainRatioOf(s) ELSE Preferred(row, s)
    IN [s EXCEPT !.told = told,
                 !.rate = RateOf(KnownStatus([s EXCEPT !.told = told]), ratio,
                                 ConfirmedWeight[p], WeightToConfirm(s.answered, p), TRUE)]

\* merge_confirmation_data
MergeRates ==
    /\ pageBuild.pc = "merge"
    /\ pageBuild' = [pc |-> "publish", page |-> [p \in RateMembers |-> Merged(p, pageBuild.page[p])]]
    /\ UNCHANGED <<scaleSource, rateChain, rateRows, ratePoll, ratePage, detail, rateFaults>>

\* The new objects replace those that a detail request may still work on.
PublishRates ==
    /\ pageBuild.pc = "publish"
    /\ ratePage' = pageBuild.page
    /\ pageBuild' = [pc |-> "idle", page |-> NoPage]
    /\ detail' = [detail EXCEPT !.shared = FALSE]
    /\ UNCHANGED <<scaleSource, rateChain, rateRows, ratePoll, rateFaults>>

BuildFails ==
    /\ pageBuild.pc # "idle"
    /\ RateFaults(1)
    /\ pageBuild' = [pc |-> "idle", page |-> NoPage]
    /\ UNCHANGED <<scaleSource, rateChain, rateRows, ratePoll, ratePage, detail>>

-----------------------------------------------------------------------------
(***************************************************************************)
(* get_participant_details of the running epoch                            *)
(***************************************************************************)

\* participant is the object of the page, not a copy; one whose rate is
\* unknown is looked up once more on the page, which may be the same.
StartDetail(p) ==
    /\ detail.pc = "idle" /\ detail.left > 0
    /\ ratePage # NoPage
    /\ detail' = [pc |-> "weights", who |-> p, shared |-> TRUE, member |-> FALSE,
                  left |-> detail.left - 1]
    /\ UNCHANGED <<scaleSource, rateChain, rateRows, ratePoll, ratePage, pageBuild, rateFaults>>

\* What is assigned to the object is seen on the page while it serves it.
Assign(s) ==
    ratePage' = IF detail.shared THEN [ratePage EXCEPT ![detail.who] = s] ELSE ratePage

\* The group and the subgroups: the rate is worked out without a ratio, and
\* the request for the ratio comes after the next awaits.
DetailWeights(answered) ==
    LET p == detail.who
        s == ratePage[p]
    IN /\ detail.pc = "weights"
       /\ SubgroupsAnswer(answered)
       /\ IF \E m \in answered : InSubgroup(m, p)
          THEN Assign([s EXCEPT !.answered = answered,
                   !.rate = RateOf(KnownStatus(s), NoValue, ConfirmedWeight[p],
                                   WeightToConfirm(answered, p), TRUE)])
          ELSE UNCHANGED ratePage
       /\ detail' = [detail EXCEPT !.pc = "ratio", !.member = TRUE]
       /\ UNCHANGED <<scaleSource, rateChain, rateRows, ratePoll, pageBuild>>

\* The parameters or the group fail, which only leaves a warning.
DetailWeightsFail ==
    /\ detail.pc = "weights"
    /\ RateFaults(1)
    /\ detail' = [detail EXCEPT !.pc = "ratio"]
    /\ UNCHANGED <<scaleSource, rateChain, rateRows, ratePoll, ratePage, pageBuild>>

\* A request that fails leaves the rate without a ratio.
DetailRatio(asked) ==
    LET p    == detail.who
        s    == ratePage[p]
        told == IF asked THEN rateChain[p].status ELSE s.told
    IN /\ detail.pc = "ratio"
       /\ RateFaults(IF asked THEN 0 ELSE 1)
       /\ Assign([s EXCEPT !.told = told,
              !.rate = RateOf(KnownStatus([s EXCEPT !.told = told]),
                              IF asked THEN rateChain[p].ratio ELSE NoValue,
                              ConfirmedWeight[p], WeightToConfirm(s.answered, p), detail.member)])
       /\ detail' = [detail EXCEPT !.pc = "idle"]
       /\ UNCHANGED <<scaleSource, rateChain, rateRows, ratePoll, pageBuild>>

-----------------------------------------------------------------------------
RatesPollStep == PollRates \/ \E failed \in SUBSET RateMembers : SaveRates(failed)

PageStep ==
    \/ \E answered \in SUBSET RateModels : BuildPage(answered)
    \/ MergeRates \/ PublishRates

DetailStep ==
    \/ \E answered \in SUBSET RateModels : DetailWeights(answered)
    \/ \E asked \in BOOLEAN : DetailRatio(asked)

RatesNext ==
    \/ \E p \in RateMembers, ratio \in FoundRatios : FindRatio(p, ratio)
    \/ \E p \in RateMembers : Deactivate(p) \/ StartDetail(p)
    \/ RatesPollStep \/ PollRatesFails
    \/ PageStep \/ BuildFails
    \/ DetailStep \/ DetailWeightsFail

RatesSpec == RatesInit /\ [][RatesNext]_rateVars

-----------------------------------------------------------------------------
(***************************************************************************)
(* Properties                                                              *)
(***************************************************************************)

\* Whatever answers are missing and whoever rewrites the page's objects: a
\* rate called confirmed is the chain's own, and an estimate, made without
\* the subgroups that failed, does not put a participant below what all of
\* them would give.  The nodes shown never weigh more than their member.
RatesAreGrounded ==
    ratePage # NoPage => \A p \in RateMembers :
        LET s == ratePage[p] IN
        /\ s.rate.state = "confirmed" =>
              /\ rateChain[p].ratio # NoValue
              /\ s.rate.value = AtMostOne(rateChain[p].ratio)
        /\ s.rate.state = "estimate" =>
              s.rate.value >= Estimate(ConfirmedWeight[p], WeightToConfirm(RateModels, p))
        /\ scaleSource = "snapshot" =>
              NodesWeight(s.answered, p) <= WeightToConfirm(s.answered, p)

\* What the chain as it is would be shown as.
TrueRate(p) ==
    RateOf(rateChain[p].status, rateChain[p].ratio, ConfirmedWeight[p],
           WeightToConfirm(RateModels, p), TRUE)

\* Rows without a ratio, statuses of an earlier poll, answers that are missing
\* and details that overwrite a confirmed rate on the page by an estimate are
\* passing: in the end each participant is shown at the chain's rate for good.
RatesSettle ==
    \A p \in RateMembers : <>[](ratePage # NoPage /\ ratePage[p].rate = TrueRate(p))

=============================================================================
