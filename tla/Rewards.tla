------------------------------ MODULE Rewards ------------------------------
(***************************************************************************)
(* backend/service.py: what the service remembers of the rewards of ended  *)
(* epochs.                                                                 *)
(*                                                                         *)
(* Two tables: participant_rewards and epoch_total_rewards.  Four kinds of *)
(* coroutine write them, a step at a time between awaits: the poller of    *)
(* the totals, the calculations that reading an epoch's page starts, the   *)
(* poller of the claims and the participant page.  On the chain a reward   *)
(* is assigned some time after its epoch ended, and claimed later still.   *)
(***************************************************************************)
EXTENDS Integers, Sequences, Functions

CONSTANTS
    MembersOf,       \* the participants of each epoch, in the chain's order
    Reward,          \* what the chain ends up assigning a participant, in ugnk
    UgnkPerGnk,      \* 10^9, scaled
    TotalWindow,     \* poll_epoch_total_rewards: 5 epochs, scaled
    ClaimWindow,     \* poll_participant_rewards: 6 epochs, scaled
    PageWindow,      \* get_participant_details: 5 epochs, scaled
    TotalPoller,     \* the coroutine of app.poll_epoch_total_rewards
    Visits,          \* bound: calculations that epoch pages have running
    LastEpoch,       \* bound: the chain stops here
    MaxRewardFaults  \* bound: failed requests and restarts in a behaviour

RewardEpoch == 1..LastEpoch
Participant == DOMAIN Reward

\* The chain lists a participant of an epoch once: "index" is its key there,
\* and service.py keys its own dictionaries of an epoch by it.
ASSUME RewardsAssumption ==
    /\ LastEpoch \in Nat \ {0} /\ MaxRewardFaults \in Nat
    /\ Reward \in [Participant -> Nat] /\ Participant # {}
    /\ MembersOf \in [RewardEpoch -> Seq(Participant)]
    /\ \A e \in RewardEpoch : IsInjective(MembersOf[e])
    /\ UgnkPerGnk \in Nat \ {0}
    /\ TotalWindow \in Nat \ {0} /\ ClaimWindow \in Nat \ {0}
    /\ PageWindow \in Nat \ {0}
    /\ TotalPoller \notin Visits

VARIABLES
    chainEpoch,     \* the chain's current epoch
    performance,    \* the epoch performance summaries on the chain
    rewardRows,     \* participant_rewards
    totals,         \* epoch_total_rewards, in GNK
    calculations,   \* the coroutines inside _calculate_and_cache_total_rewards
    claims,         \* the coroutine poll_participant_rewards
    page,           \* a coroutine get_participant_details
    rewardFaults

rewardVars == <<chainEpoch, performance, rewardRows, totals, calculations,
                claims, page, rewardFaults>>
rewardChain == <<chainEpoch, performance>>
rewardTables == <<rewardRows, totals>>

NoTotal == -1
Calculator == {TotalPoller} \cup Visits
Performance == [RewardEpoch -> [Participant -> {"none", "assigned", "claimed"}]]

RewardRow == [epoch : RewardEpoch, participant : Participant,
              coins : Nat, claimed : BOOLEAN]

Calculation ==
    [pc : {"idle", "look", "heal", "members", "fetch", "rows", "total"},
     epoch : RewardEpoch, last : RewardEpoch, heals : BOOLEAN,
     next : Nat \ {0}, sum : Nat, batch : SUBSET RewardRow]

ClaimPoll ==
    [pc : {"idle", "epoch", "scan", "save"}, view : Performance,
     current : RewardEpoch, next : Nat, batch : SUBSET RewardRow]

Page ==
    [pc : {"idle", "fetch"}, participant : Participant,
     missing : SUBSET RewardEpoch, batch : SUBSET RewardRow]

IdleCalculation ==
    [pc |-> "idle", epoch |-> 1, last |-> 1, heals |-> FALSE,
     next |-> 1, sum |-> 0, batch |-> {}]

NoPerformance == [e \in RewardEpoch |-> [p \in Participant |-> "none"]]

IdleClaims == [pc |-> "idle", view |-> NoPerformance, current |-> 1,
               next |-> 0, batch |-> {}]

IdlePage == [pc |-> "idle", participant |-> CHOOSE p \in Participant : TRUE,
             missing |-> {}, batch |-> {}]

RewardsTypeOK ==
    /\ chainEpoch \in RewardEpoch
    /\ performance \in Performance
    /\ rewardRows \subseteq RewardRow
    /\ totals \in [RewardEpoch -> Nat \cup {NoTotal}]
    /\ calculations \in [Calculator -> Calculation]
    /\ claims \in ClaimPoll
    /\ page \in Page
    /\ rewardFaults \in 0..MaxRewardFaults

RewardsInit ==
    /\ chainEpoch = 1
    /\ performance = NoPerformance
    /\ rewardRows = {}
    /\ totals = [e \in RewardEpoch |-> NoTotal]
    /\ calculations = [c \in Calculator |-> IdleCalculation]
    /\ claims = IdleClaims
    /\ page = IdlePage
    /\ rewardFaults = 0

\* One request fails: a timeout, or no node that can serve it.
RewardFault ==
    /\ rewardFaults < MaxRewardFaults
    /\ rewardFaults' = rewardFaults + 1

-----------------------------------------------------------------------------
(***************************************************************************)
(* The chain                                                               *)
(***************************************************************************)

EpochEnds ==
    /\ chainEpoch < LastEpoch
    /\ chainEpoch' = chainEpoch + 1
    /\ UNCHANGED <<performance, rewardTables, calculations, claims, page, rewardFaults>>

\* "rewards may still be distributing on-chain": one participant at a time.
Distribute(e, p) ==
    /\ e < chainEpoch /\ p \in Range(MembersOf[e])
    /\ performance[e][p] = "none"
    /\ performance' = [performance EXCEPT ![e][p] = "assigned"]
    /\ UNCHANGED <<chainEpoch, rewardTables, calculations, claims, page, rewardFaults>>

ClaimReward(e, p) ==
    /\ performance[e][p] = "assigned"
    /\ performance' = [performance EXCEPT ![e][p] = "claimed"]
    /\ UNCHANGED <<chainEpoch, rewardTables, calculations, claims, page, rewardFaults>>

\* Mutant of Summary: an assigned reward is taken for a claimed one.
SummaryAssigned(of, e, p) ==
    [epoch |-> e, participant |-> p,
     coins |-> IF of[e][p] = "none" THEN 0 ELSE Reward[p],
     claimed |-> of[e][p] # "none"]

\* get_epoch_performance_summary, and the row made of it.  A summary that
\* does not exist yet reads as no coins, unclaimed.
Summary(of, e, p) ==
    [epoch |-> e, participant |-> p,
     coins |-> IF of[e][p] = "none" THEN 0 ELSE Reward[p],
     claimed |-> of[e][p] = "claimed"]

\* save_reward_batch: INSERT OR REPLACE on (epoch_id, participant_id).
Replaced(table, batch) ==
    {r \in table : ~ \E s \in batch :
        s.epoch = r.epoch /\ s.participant = r.participant} \cup batch

-----------------------------------------------------------------------------
(***************************************************************************)
(* _calculate_and_cache_total_rewards, from its poller and from the page   *)
(* of an epoch                                                             *)
(***************************************************************************)

\* Mutant of Finished: the sum is not reset before the next epoch.
FinishedKeepingSum(k) ==
    IF k.epoch > k.last
    THEN [IdleCalculation EXCEPT !.pc = "look", !.epoch = k.epoch - 1,
                                 !.last = k.last, !.heals = TRUE, !.sum = k.sum]
    ELSE IdleCalculation

\* What follows a calculation: the poller goes one epoch further back.
Finished(k) ==
    IF k.epoch > k.last
    THEN [IdleCalculation EXCEPT !.pc = "look", !.epoch = k.epoch - 1,
                                 !.last = k.last, !.heals = TRUE]
    ELSE IdleCalculation

\* poll_epoch_total_rewards: the ended epochs of the window, latest first.
PollTotals ==
    /\ calculations[TotalPoller].pc = "idle" /\ chainEpoch > 1
    /\ calculations' = [calculations EXCEPT ![TotalPoller] =
          [IdleCalculation EXCEPT
              !.pc = "look", !.heals = TRUE, !.epoch = chainEpoch - 1,
              !.last = IF chainEpoch > TotalWindow
                       THEN chainEpoch - TotalWindow ELSE 1]]
    /\ UNCHANGED <<rewardChain, rewardTables, claims, page, rewardFaults>>

\* get_historical_epoch_stats reaches the total of the epoch it answers for;
\* heals: the rows of the epoch came from the database.
VisitEpoch(c, e) ==
    /\ calculations[c].pc = "idle" /\ e <= chainEpoch
    /\ \E heals \in BOOLEAN :
          calculations' = [calculations EXCEPT ![c] =
              [IdleCalculation EXCEPT !.pc = "look", !.heals = heals,
                                      !.epoch = e, !.last = e]]
    /\ UNCHANGED <<rewardChain, rewardTables, claims, page, rewardFaults>>

\* The poller recalculates whatever is cached, a visit only what is not.
LookAtTotal(c) ==
    LET k == calculations[c] IN
    /\ k.pc = "look"
    /\ calculations' = [calculations EXCEPT ![c] =
          IF totals[k.epoch] = 0 /\ k.heals THEN [k EXCEPT !.pc = "heal"]
          ELSE IF c = TotalPoller \/ totals[k.epoch] = NoTotal
          THEN [k EXCEPT !.pc = "members"] ELSE IdleCalculation]
    /\ UNCHANGED <<rewardChain, rewardTables, claims, page, rewardFaults>>

\* A total of 0 is deleted whoever wrote it and whatever it is by now.
DeleteTotal(c) ==
    LET k == calculations[c] IN
    /\ k.pc = "heal"
    /\ totals' = [totals EXCEPT ![k.epoch] = NoTotal]
    /\ calculations' = [calculations EXCEPT ![c].pc = "members"]
    /\ UNCHANGED <<rewardChain, rewardRows, claims, page, rewardFaults>>

ReadMembers(c) ==
    LET k == calculations[c] IN
    /\ k.pc = "members"
    /\ \/ /\ calculations' = [calculations EXCEPT ![c].pc = "fetch"]
          /\ UNCHANGED rewardFaults
       \/ /\ RewardFault
          /\ calculations' = [calculations EXCEPT ![c] = Finished(k)]
    /\ UNCHANGED <<rewardChain, rewardTables, claims, page>>

\* One participant is done: answers holds its row, or nothing if it failed.
Counted(k, answers) ==
    [k EXCEPT !.next = k.next + 1,
              !.batch = k.batch \cup answers,
              !.sum = k.sum + IF answers = {} THEN 0
                              ELSE (CHOOSE r \in answers : TRUE).coins]

FetchSummary(c) ==
    LET k == calculations[c]
        members == MembersOf[k.epoch] IN
    /\ k.pc = "fetch" /\ k.next <= Len(members)
    /\ \/ /\ calculations' = [calculations EXCEPT ![c] =
                Counted(k, {Summary(performance, k.epoch, members[k.next])})]
          /\ UNCHANGED rewardFaults
       \/ /\ RewardFault
          /\ calculations' = [calculations EXCEPT ![c] = Counted(k, {})]
    /\ UNCHANGED <<rewardChain, rewardTables, claims, page>>

\* Mutant of WorthSaving: an epoch whose total is cached is skipped.
WorthSavingOnce(k, cached) ==
    /\ ~ (k.sum = 0 /\ k.batch # {})
    /\ cached = NoTotal

\* "rewards may not be available yet, skipping cache", and a cached total is
\* only ever raised.
WorthSaving(k, cached) ==
    /\ ~ (k.sum = 0 /\ k.batch # {})
    /\ cached = NoTotal \/ cached < k.sum \div UgnkPerGnk

CompareTotal(c) ==
    LET k == calculations[c] IN
    /\ k.pc = "fetch" /\ k.next > Len(MembersOf[k.epoch])
    /\ calculations' = [calculations EXCEPT ![c] =
          IF ~ WorthSaving(k, totals[k.epoch]) THEN Finished(k)
          ELSE [k EXCEPT !.pc = IF k.batch = {} THEN "total" ELSE "rows"]]
    /\ UNCHANGED <<rewardChain, rewardTables, claims, page, rewardFaults>>

SaveRows(c) ==
    LET k == calculations[c] IN
    /\ k.pc = "rows"
    /\ rewardRows' = Replaced(rewardRows, k.batch)
    /\ calculations' = [calculations EXCEPT ![c].pc = "total"]
    /\ UNCHANGED <<rewardChain, totals, claims, page, rewardFaults>>

\* The total read before the rows were saved is not read again.
SaveTotal(c) ==
    LET k == calculations[c] IN
    /\ k.pc = "total"
    /\ totals' = [totals EXCEPT ![k.epoch] = k.sum \div UgnkPerGnk]
    /\ calculations' = [calculations EXCEPT ![c] = Finished(k)]
    /\ UNCHANGED <<rewardChain, rewardRows, claims, page, rewardFaults>>

-----------------------------------------------------------------------------
(***************************************************************************)
(* poll_participant_rewards                                                *)
(***************************************************************************)

\* The height is read first, and every summary is asked for at that height:
\* the poll sees the chain as it was when the poll started.
PollClaims ==
    /\ claims.pc = "idle"
    /\ claims' = [IdleClaims EXCEPT !.pc = "epoch", !.view = performance]
    /\ UNCHANGED <<rewardChain, rewardTables, calculations, page, rewardFaults>>

ClaimsEpoch ==
    /\ claims.pc = "epoch"
    /\ \/ /\ claims' = [claims EXCEPT !.pc = "scan", !.current = chainEpoch]
          /\ UNCHANGED rewardFaults
       \/ RewardFault /\ claims' = IdleClaims
    /\ UNCHANGED <<rewardChain, rewardTables, calculations, page>>

\* Mutant of KnownClaimed: a row that is there is not asked for again.
KnownAtAll(e, p) == \E r \in rewardRows : r.epoch = e /\ r.participant = p

KnownClaimed(e, p) ==
    \E r \in rewardRows : r.epoch = e /\ r.participant = p /\ r.claimed

\* The current participants, and for each the last epochs one by one.
ScanClaim ==
    LET p == MembersOf[claims.current][(claims.next \div ClaimWindow) + 1]
        e == claims.current - 1 - (claims.next % ClaimWindow) IN
    /\ claims.pc = "scan"
    /\ claims.next < ClaimWindow * Len(MembersOf[claims.current])
    /\ \/ /\ claims' = [claims EXCEPT
                !.next = @ + 1,
                !.batch = IF e < 1 \/ KnownClaimed(e, p) THEN @
                          ELSE @ \cup {Summary(claims.view, e, p)}]
          /\ UNCHANGED rewardFaults
       \/ /\ RewardFault
          /\ e >= 1 /\ ~ KnownClaimed(e, p)
          /\ claims' = [claims EXCEPT !.next = @ + 1]
    /\ UNCHANGED <<rewardChain, rewardTables, calculations, page>>

SaveClaims ==
    /\ claims.pc = "scan"
    /\ claims.next = ClaimWindow * Len(MembersOf[claims.current])
    /\ rewardRows' = Replaced(rewardRows, claims.batch)
    /\ claims' = IdleClaims
    /\ UNCHANGED <<rewardChain, totals, calculations, page, rewardFaults>>

-----------------------------------------------------------------------------
(***************************************************************************)
(* get_participant_details: the rewards an opened page is missing          *)
(***************************************************************************)

\* Mutant of PageEpochs: the window is not cut at the first epoch.
PageEpochsUncut(e) ==
    (e - PageWindow)..(IF e = chainEpoch THEN e - 1 ELSE e)

\* The epochs before the current one, or up to the one that is looked at.
PageEpochs(e) ==
    {x \in RewardEpoch :
        IF e = chainEpoch THEN x < e /\ x >= e - PageWindow
                          ELSE x <= e /\ x >= e - PageWindow}

OpenPage(p, e) ==
    /\ page.pc = "idle" /\ e <= chainEpoch
    /\ page' = [page EXCEPT
          !.pc = "fetch", !.participant = p,
          !.missing = {x \in PageEpochs(e) : ~ \E r \in rewardRows :
                          r.epoch = x /\ r.participant = p}]
    /\ UNCHANGED <<rewardChain, rewardTables, calculations, claims, rewardFaults>>

\* asyncio.gather: the answers come in any order, each at its own time.
PageAnswer(e) ==
    /\ page.pc = "fetch" /\ e \in page.missing
    /\ \/ /\ page' = [page EXCEPT !.missing = @ \ {e},
                !.batch = @ \cup {Summary(performance, e, page.participant)}]
          /\ UNCHANGED rewardFaults
       \/ RewardFault /\ page' = [page EXCEPT !.missing = @ \ {e}]
    /\ UNCHANGED <<rewardChain, rewardTables, calculations, claims>>

ClosePage ==
    /\ page.pc = "fetch" /\ page.missing = {}
    /\ rewardRows' = Replaced(rewardRows, page.batch)
    /\ page' = IdlePage
    /\ UNCHANGED <<rewardChain, totals, calculations, claims, rewardFaults>>

-----------------------------------------------------------------------------
\* The process dies and starts again: only the tables survive.
RewardsRestart ==
    /\ RewardFault
    /\ calculations' = [c \in Calculator |-> IdleCalculation]
    /\ claims' = IdleClaims
    /\ page' = IdlePage
    /\ UNCHANGED <<rewardChain, rewardTables>>

CalculationStep(c) ==
    LookAtTotal(c) \/ DeleteTotal(c) \/ ReadMembers(c) \/ FetchSummary(c)
    \/ CompareTotal(c) \/ SaveRows(c) \/ SaveTotal(c)

VisitStep ==
    \E c \in Visits :
        CalculationStep(c) \/ \E e \in RewardEpoch : VisitEpoch(c, e)

ClaimsStep == ClaimsEpoch \/ ScanClaim \/ SaveClaims
PageStep == (\E e \in RewardEpoch : PageAnswer(e)) \/ ClosePage
ChainPays(p) == \E e \in RewardEpoch : Distribute(e, p)

\* The poller of the totals with the visits, and the claims of one
\* participant with the visits: what the smaller runs take of RewardsNext.
TotalsNext ==
    \/ EpochEnds
    \/ \E p \in Participant : ChainPays(p)
    \/ PollTotals
    \/ CalculationStep(TotalPoller)
    \/ VisitStep
    \/ RewardsRestart

ClaimsNext(p) ==
    \/ EpochEnds
    \/ ChainPays(p)
    \/ \E e \in RewardEpoch : ClaimReward(e, p)
    \/ VisitStep
    \/ PollClaims
    \/ ClaimsStep
    \/ \E e \in RewardEpoch : OpenPage(p, e)
    \/ PageStep
    \/ RewardsRestart

RewardsNext == TotalsNext \/ \E p \in Participant : ClaimsNext(p)

RewardsSpec == RewardsInit /\ [][RewardsNext]_rewardVars

\* Every await ends.
RewardsStepFairness ==
    /\ \A c \in Calculator : WF_rewardVars(CalculationStep(c))
    /\ WF_rewardVars(ClaimsStep)
    /\ WF_rewardVars(PageStep)

\* app.py polls for ever, and the chain pays in the end.
RewardsFairness ==
    /\ \A p \in Participant : WF_rewardVars(ChainPays(p))
    /\ WF_rewardVars(PollTotals)
    /\ WF_rewardVars(PollClaims)
    /\ RewardsStepFairness

-----------------------------------------------------------------------------
(***************************************************************************)
(* Properties                                                              *)
(***************************************************************************)

\* No table row says more than the chain: the coins of a row are the chain's
\* or none yet, and a reward is recorded as claimed only once it is.
RowsNeverAhead ==
    \A r \in rewardRows :
        /\ r.coins \in {0, Summary(performance, r.epoch, r.participant).coins}
        /\ r.claimed => performance[r.epoch][r.participant] = "claimed"

\* What the chain has assigned the participants of an epoch, one by one and
\* together.
Assigned(e) == [p \in Participant |-> Summary(performance, e, p).coins]

ChainTotal(e) ==
    SumFunctionOnSet(Assigned(e), Range(MembersOf[e])) \div UgnkPerGnk

\* However polls, page visits and failed requests interleave, a cached total
\* may miss rewards and never exceeds what the chain assigned for the epoch.
TotalNeverOverstates ==
    \A e \in RewardEpoch : totals[e] <= ChainTotal(e)

\* While an epoch stays in the window of the poller, its total becomes the
\* chain's for good, in spite of partial sums, healed zeros and stale writes.
TotalsSettle ==
    \A e \in RewardEpoch :
        /\ []<>(calculations[TotalPoller].pc = "look")
        /\ <>[](e < chainEpoch /\ e >= chainEpoch - TotalWindow)
        => <>[](totals[e] = ChainTotal(e) \/ ChainTotal(e) = 0)

\* A claimed reward of a current participant is learnt, and a batch read
\* before the claim does not hide it again for good.
ClaimsAreLearnt ==
    \A e \in RewardEpoch, p \in Participant :
        <>[](/\ e < chainEpoch /\ e >= chainEpoch - ClaimWindow
             /\ p \in Range(MembersOf[chainEpoch])
             /\ performance[e][p] = "claimed")
            => <>[](\E r \in rewardRows :
                      r.epoch = e /\ r.participant = p /\ r.claimed)

=============================================================================
