--------------------------- MODULE Rewards_proofs ---------------------------
(***************************************************************************)
(* For every set of participants and epochs: no stored reward says more    *)
(* than the chain did, whichever of the four writers stored it and however *)
(* old its answers were.                                                   *)
(***************************************************************************)
EXTENDS Rewards, FiniteLemmas, SequenceTheorems

\* What the chain has said of a reward, now or earlier.
PageTruthful(r) ==
    /\ r.coins # 0 => /\ performance[r.epoch][r.participant] # "none"
                      /\ r.coins = Reward[r.participant]
    /\ r.claimed => performance[r.epoch][r.participant] = "claimed"

\* The chain only moves on from what the poll of the claims looks at.
ViewIsPast ==
    \A e \in RewardEpoch, p \in Participant :
        /\ claims.view[e][p] # "none" => performance[e][p] # "none"
        /\ claims.view[e][p] = "claimed" => performance[e][p] = "claimed"

InFlight ==
    (UNION {calculations[c].batch : c \in Calculator}) \cup claims.batch \cup page.batch

\* The inductive invariant: the rows, and those that a coroutine still holds.
RewardsInv ==
    /\ RewardsTypeOK
    /\ ViewIsPast
    /\ \A r \in rewardRows \cup InFlight : PageTruthful(r)

-----------------------------------------------------------------------------
LEMMA RewardConstants ==
    /\ LastEpoch \in Nat \ {0} /\ MaxRewardFaults \in Nat
    /\ Reward \in [Participant -> Nat]
    /\ MembersOf \in [RewardEpoch -> Seq(Participant)]
    /\ UgnkPerGnk \in Nat \ {0}
    /\ TotalWindow \in Nat \ {0} /\ ClaimWindow \in Nat \ {0}
    /\ PageWindow \in Nat \ {0}
    /\ TotalPoller \notin Visits
BY RewardsAssumption

LEMMA Members ==
    ASSUME NEW e \in RewardEpoch
    PROVE  /\ Len(MembersOf[e]) \in Nat
           /\ \A i \in 1..Len(MembersOf[e]) : MembersOf[e][i] \in Participant
<1>1. MembersOf[e] \in Seq(Participant)
  BY RewardConstants
<1> QED BY <1>1

\* A summary is a row, and true when its epoch is read from the past.
LEMMA SummaryIsTruthful ==
    ASSUME NEW of \in Performance, NEW e \in RewardEpoch, NEW p \in Participant,
           of[e][p] # "none" => performance[e][p] # "none",
           of[e][p] = "claimed" => performance[e][p] = "claimed"
    PROVE  Summary(of, e, p) \in RewardRow /\ PageTruthful(Summary(of, e, p))
<1>1. Reward[p] \in Nat /\ (of[e][p] = "claimed") \in BOOLEAN
  BY RewardConstants
<1>2. Summary(of, e, p) \in RewardRow
  BY <1>1 DEF Summary, RewardRow
<1>3. PageTruthful(Summary(of, e, p))
  BY <1>1 DEF Summary, PageTruthful
<1> QED BY <1>2, <1>3

-----------------------------------------------------------------------------
LEMMA RewardsInitInv == RewardsInit => RewardsInv
<1> SUFFICES ASSUME RewardsInit PROVE RewardsInv
  OBVIOUS
<1>1. NoPerformance \in Performance
  BY DEF NoPerformance, Performance
<1>2. 1 \in RewardEpoch
  BY RewardConstants DEF RewardEpoch
<1>3. IdleCalculation \in Calculation /\ IdleClaims \in ClaimPoll
  BY <1>1, <1>2 DEF IdleCalculation, Calculation, IdleClaims, ClaimPoll
<1>4. IdlePage \in Page
  <2>1. Participant # {}
    BY RewardsAssumption
  <2> QED BY <2>1 DEF IdlePage, Page
<1> QED
  BY <1>1, <1>2, <1>3, <1>4, RewardConstants DEF RewardsInit, RewardsInv, RewardsTypeOK, ViewIsPast,
     InFlight, IdleCalculation, IdleClaims, IdlePage

\* What a coroutine may change: its own part, and the rows and totals.
LEMMA KeepInv ==
    ASSUME RewardsInv,
           UNCHANGED <<chainEpoch, performance>>,
           rewardFaults' \in 0..MaxRewardFaults,
           totals' \in [RewardEpoch -> Nat \cup {NoTotal}],
           calculations' \in [Calculator -> Calculation],
           claims' \in ClaimPoll, page' \in Page,
           rewardRows' \subseteq RewardRow,
           ViewIsPast',
           \A r \in rewardRows' \cup InFlight' : PageTruthful(r)
    PROVE  RewardsInv'
BY DEF RewardsInv, RewardsTypeOK, PageTruthful

\* A coroutine of the totals takes a step that adds at most true rows.
LEMMA CalculationKeeps ==
    ASSUME RewardsInv, NEW c \in Calculator, NEW k \in Calculation,
           calculations' = [calculations EXCEPT ![c] = k],
           \A r \in k.batch : PageTruthful(r) \/ r \in InFlight,
           UNCHANGED <<chainEpoch, performance, rewardRows, claims, page>>,
           totals' \in [RewardEpoch -> Nat \cup {NoTotal}],
           rewardFaults' \in 0..MaxRewardFaults
    PROVE  RewardsInv'
<1>1. /\ calculations' \in [Calculator -> Calculation] /\ calculations'[c] = k
      /\ \A d \in Calculator \ {c} : calculations'[d] = calculations[d]
  BY DEF RewardsInv, RewardsTypeOK
<1>2. \A r \in InFlight' : r \in InFlight \/ r \in k.batch
  BY <1>1 DEF InFlight
<1>3. \A r \in rewardRows' \cup InFlight' : PageTruthful(r)
  BY <1>2 DEF RewardsInv
<1>4. ViewIsPast'
  BY DEF RewardsInv, ViewIsPast
<1> QED BY <1>1, <1>3, <1>4, KeepInv DEF RewardsInv, RewardsTypeOK

LEMMA RewardFaultCounts ==
    ASSUME RewardsInv, RewardFault \/ UNCHANGED rewardFaults
    PROVE  rewardFaults' \in 0..MaxRewardFaults
BY RewardConstants DEF RewardFault, RewardsInv, RewardsTypeOK

LEMMA FinishedIsEmpty ==
    ASSUME NEW k \in Calculation
    PROVE  Finished(k) \in Calculation /\ Finished(k).batch = {}
<1>1. LastEpoch \in Nat /\ k.epoch \in 1..LastEpoch /\ k.last \in 1..LastEpoch
  BY RewardConstants DEF Calculation, RewardEpoch
<1>2. k.epoch > k.last => k.epoch - 1 \in RewardEpoch
  BY <1>1 DEF RewardEpoch
<1>3. IdleCalculation \in Calculation /\ IdleCalculation.batch = {}
  BY RewardConstants DEF IdleCalculation, Calculation, RewardEpoch
<1>4. CASE k.epoch > k.last
  <2> DEFINE n == [IdleCalculation EXCEPT !.pc = "look", !.epoch = k.epoch - 1,
                                          !.last = k.last, !.heals = TRUE]
  <2>1. k.epoch - 1 \in RewardEpoch /\ k.last \in RewardEpoch
    BY <1>1, <1>2, <1>4 DEF RewardEpoch
  <2>2. n \in Calculation /\ n.batch = {}
    BY <1>3, <2>1 DEF Calculation
  <2>3. Finished(k) = n
    BY <1>4 DEF Finished
  <2> QED BY <2>2, <2>3
<1>5. CASE ~ (k.epoch > k.last)
  BY <1>3, <1>5 DEF Finished
<1> QED BY <1>4, <1>5

LEMMA CalculationInv ==
    ASSUME RewardsInv, NEW c \in Calculator, CalculationStep(c)
    PROVE  RewardsInv'
<1> DEFINE k == calculations[c]
<1>1. k \in Calculation /\ \A r \in k.batch : r \in InFlight /\ r \in RewardRow
  BY DEF RewardsInv, RewardsTypeOK, InFlight, Calculation
<1>2. rewardFaults' \in 0..MaxRewardFaults
  BY RewardFaultCounts DEF CalculationStep, LookAtTotal, DeleteTotal, ReadMembers, FetchSummary,
     CompareTotal, SaveRows, SaveTotal
<1>3. Finished(k) \in Calculation /\ Finished(k).batch = {}
  BY <1>1, FinishedIsEmpty
<1>4. \A pc \in {"look", "heal", "members", "fetch", "rows", "total"} :
         [k EXCEPT !.pc = pc] \in Calculation /\ [k EXCEPT !.pc = pc].batch = k.batch
  BY <1>1 DEF Calculation
<1>5. IdleCalculation \in Calculation /\ IdleCalculation.batch = {}
  BY RewardConstants DEF IdleCalculation, Calculation, RewardEpoch
<1>6. totals \in [RewardEpoch -> Nat \cup {NoTotal}] /\ rewardRows \subseteq RewardRow
  BY DEF RewardsInv, RewardsTypeOK
<1> HIDE DEF k
<1>7. CASE LookAtTotal(c)
  <2>1. PICK n \in {[k EXCEPT !.pc = "heal"], [k EXCEPT !.pc = "members"], IdleCalculation} :
          calculations' = [calculations EXCEPT ![c] = n]
    BY <1>7 DEF LookAtTotal, k
  <2>2. n \in Calculation /\ \A r \in n.batch : r \in InFlight
    BY <1>1, <1>4, <1>5, <2>1
  <2>3. UNCHANGED <<chainEpoch, performance, rewardRows, totals, claims, page>>
    BY <1>7 DEF LookAtTotal, rewardChain, rewardTables
  <2> QED BY <1>2, <1>6, <2>1, <2>2, <2>3, CalculationKeeps
<1>8. CASE DeleteTotal(c)
  <2>1. calculations' = [calculations EXCEPT ![c] = [k EXCEPT !.pc = "members"]]
    BY <1>8 DEF DeleteTotal, k
  <2>2. totals' \in [RewardEpoch -> Nat \cup {NoTotal}]
    BY <1>6, <1>8 DEF DeleteTotal
  <2>3. UNCHANGED <<chainEpoch, performance, rewardRows, claims, page>>
    BY <1>8 DEF DeleteTotal, rewardChain
  <2> QED BY <1>1, <1>2, <1>4, <2>1, <2>2, <2>3, CalculationKeeps
<1>9. CASE ReadMembers(c)
  <2>1. PICK n \in {[k EXCEPT !.pc = "fetch"], Finished(k)} :
          calculations' = [calculations EXCEPT ![c] = n]
    BY <1>9 DEF ReadMembers, k
  <2>2. n \in Calculation /\ \A r \in n.batch : r \in InFlight
    BY <1>1, <1>3, <1>4, <2>1
  <2>3. UNCHANGED <<chainEpoch, performance, rewardRows, totals, claims, page>>
    BY <1>9 DEF ReadMembers, rewardChain, rewardTables
  <2> QED BY <1>2, <1>6, <2>1, <2>2, <2>3, CalculationKeeps
<1>10. CASE FetchSummary(c)
  <2> DEFINE p == MembersOf[k.epoch][k.next]
             row == Summary(performance, k.epoch, p)
  <2>1. k.epoch \in RewardEpoch /\ p \in Participant
    BY <1>1, <1>10, Members DEF FetchSummary, k, Calculation
  <2>2. performance \in Performance
    BY DEF RewardsInv, RewardsTypeOK
  <2>3. row \in RewardRow /\ PageTruthful(row)
    BY <2>1, <2>2, SummaryIsTruthful
  <2>4. PICK answers \in {{row}, {}} :
          calculations' = [calculations EXCEPT ![c] = Counted(k, answers)]
    BY <1>10 DEF FetchSummary, k
  <2> HIDE DEF row, p
  <2>5. (IF answers = {} THEN 0 ELSE (CHOOSE r \in answers : TRUE).coins) \in Nat
    BY <2>3, <2>4 DEF RewardRow
  <2>6. /\ Counted(k, answers) \in Calculation
        /\ Counted(k, answers).batch = k.batch \cup answers
    <3>1. /\ k.next + 1 \in Nat \ {0} /\ k.batch \cup answers \in SUBSET RewardRow
          /\ k.sum + (IF answers = {} THEN 0 ELSE (CHOOSE r \in answers : TRUE).coins)
                \in Nat
      BY <1>1, <2>3, <2>4, <2>5 DEF Calculation
    <3> QED BY <1>1, <3>1 DEF Counted, Calculation
  <2>7. \A r \in Counted(k, answers).batch : PageTruthful(r) \/ r \in InFlight
    BY <1>1, <2>3, <2>4, <2>6
  <2>8. UNCHANGED <<chainEpoch, performance, rewardRows, totals, claims, page>>
    BY <1>10 DEF FetchSummary, rewardChain, rewardTables
  <2> QED BY <1>2, <1>6, <2>4, <2>6, <2>7, <2>8, CalculationKeeps
<1>11. CASE CompareTotal(c)
  <2>1. PICK n \in {Finished(k), [k EXCEPT !.pc = "total"], [k EXCEPT !.pc = "rows"]} :
          calculations' = [calculations EXCEPT ![c] = n]
    BY <1>11 DEF CompareTotal, k
  <2>2. n \in Calculation /\ \A r \in n.batch : r \in InFlight
    BY <1>1, <1>3, <1>4, <2>1
  <2>3. UNCHANGED <<chainEpoch, performance, rewardRows, totals, claims, page>>
    BY <1>11 DEF CompareTotal, rewardChain, rewardTables
  <2> QED BY <1>2, <1>6, <2>1, <2>2, <2>3, CalculationKeeps
<1>12. CASE SaveRows(c)
  <2>1. /\ calculations' = [calculations EXCEPT ![c] = [k EXCEPT !.pc = "total"]]
        /\ rewardRows' = Replaced(rewardRows, k.batch)
        /\ UNCHANGED <<chainEpoch, performance, totals, claims, page>>
    BY <1>12 DEF SaveRows, k, rewardChain
  <2>2. \A r \in rewardRows' : r \in rewardRows \/ r \in k.batch
    BY <2>1 DEF Replaced
  <2>3. rewardRows' \subseteq RewardRow
    BY <1>1, <1>6, <2>2
  <2>4. /\ calculations' \in [Calculator -> Calculation]
        /\ \A d \in Calculator : calculations'[d].batch = calculations[d].batch
    BY <1>1, <1>4, <2>1 DEF RewardsInv, RewardsTypeOK, k
  <2>5. \A r \in rewardRows' \cup InFlight' : PageTruthful(r)
    BY <1>1, <2>1, <2>2, <2>4 DEF RewardsInv, InFlight
  <2>6. ViewIsPast'
    BY <2>1 DEF RewardsInv, ViewIsPast
  <2> QED BY <1>2, <1>6, <2>1, <2>3, <2>4, <2>5, <2>6, KeepInv DEF RewardsInv, RewardsTypeOK
<1>13. CASE SaveTotal(c)
  <2>1. calculations' = [calculations EXCEPT ![c] = Finished(k)]
    BY <1>13 DEF SaveTotal, k
  <2>2. totals' \in [RewardEpoch -> Nat \cup {NoTotal}]
    <3>1. k.sum \div UgnkPerGnk \in Nat
      BY <1>1, RewardConstants, Division DEF Calculation
    <3> QED BY <1>6, <1>13, <3>1 DEF SaveTotal, k
  <2>3. UNCHANGED <<chainEpoch, performance, rewardRows, claims, page>>
    BY <1>13 DEF SaveTotal, rewardChain
  <2> QED BY <1>2, <1>3, <2>1, <2>2, <2>3, CalculationKeeps
<1> QED BY <1>7, <1>8, <1>9, <1>10, <1>11, <1>12, <1>13 DEF CalculationStep

-----------------------------------------------------------------------------
\* The poll of the claims, which looks at the chain as it was.
LEMMA ClaimsKeep ==
    ASSUME RewardsInv, claims' \in ClaimPoll,
           claims'.view = claims.view \/ claims'.view = performance
             \/ claims'.view = NoPerformance,
           \A r \in claims'.batch : PageTruthful(r),
           \A r \in rewardRows' : r \in rewardRows \cup claims.batch,
           UNCHANGED <<chainEpoch, performance, totals, calculations, page>>,
           rewardFaults' \in 0..MaxRewardFaults
    PROVE  RewardsInv'
<1>1. ViewIsPast'
  BY DEF RewardsInv, ViewIsPast, NoPerformance
<1>2. \A r \in rewardRows' \cup InFlight' : PageTruthful(r)
  BY DEF RewardsInv, InFlight
<1>3. rewardRows' \subseteq RewardRow
  BY DEF RewardsInv, RewardsTypeOK, ClaimPoll
<1> QED BY <1>1, <1>2, <1>3, KeepInv DEF RewardsInv, RewardsTypeOK

LEMMA IdleTyped ==
    /\ NoPerformance \in Performance
    /\ IdleClaims \in ClaimPoll
    /\ IdleClaims.view = NoPerformance /\ IdleClaims.batch = {}
    /\ IdlePage \in Page /\ IdlePage.batch = {}
    /\ IdleCalculation \in Calculation /\ IdleCalculation.batch = {}
<1>1. NoPerformance \in Performance
  BY DEF NoPerformance, Performance
<1>2. 1 \in RewardEpoch
  BY RewardConstants DEF RewardEpoch
<1>3. Participant # {}
  BY RewardsAssumption
<1>4. IdleClaims \in ClaimPoll
  BY <1>1, <1>2 DEF IdleClaims, ClaimPoll
<1>5. IdlePage \in Page
  BY <1>3 DEF IdlePage, Page
<1>6. IdleCalculation \in Calculation
  BY <1>2 DEF IdleCalculation, Calculation
<1> QED BY <1>1, <1>4, <1>5, <1>6 DEF IdleClaims, IdlePage, IdleCalculation

LEMMA ClaimsInv ==
    ASSUME RewardsInv, ClaimsStep \/ PollClaims
    PROVE  RewardsInv'
<1>1. /\ claims \in ClaimPoll /\ claims.current \in RewardEpoch /\ claims.next \in Nat
      /\ claims.view \in Performance /\ claims.batch \subseteq RewardRow
      /\ performance \in Performance /\ chainEpoch \in RewardEpoch
      /\ \A r \in claims.batch : PageTruthful(r)
  BY DEF RewardsInv, RewardsTypeOK, ClaimPoll, InFlight
<1>2. rewardFaults' \in 0..MaxRewardFaults
  BY RewardFaultCounts DEF ClaimsStep, PollClaims, ClaimsEpoch, ScanClaim, SaveClaims
<1>3. CASE PollClaims
  <2> DEFINE n == [IdleClaims EXCEPT !.pc = "epoch", !.view = performance]
  <2>1. n \in ClaimPoll /\ n.view = performance /\ n.batch = {}
    BY <1>1, IdleTyped DEF ClaimPoll
  <2>2. /\ claims' = n
        /\ UNCHANGED <<chainEpoch, performance, rewardRows, totals, calculations, page>>
    BY <1>3 DEF PollClaims, rewardChain, rewardTables
  <2> HIDE DEF n
  <2> QED BY <1>2, <2>1, <2>2, ClaimsKeep
<1>4. CASE ClaimsEpoch
  <2> DEFINE n == [claims EXCEPT !.pc = "scan", !.current = chainEpoch]
  <2>1. n \in ClaimPoll /\ n.view = claims.view /\ n.batch = claims.batch
    BY <1>1 DEF ClaimPoll
  <2>2. /\ claims' = n \/ claims' = IdleClaims
        /\ UNCHANGED <<chainEpoch, performance, rewardRows, totals, calculations, page>>
    BY <1>4 DEF ClaimsEpoch, rewardChain, rewardTables
  <2> HIDE DEF n
  <2>3. CASE claims' = n
    BY <1>1, <1>2, <2>1, <2>2, <2>3, ClaimsKeep
  <2>4. CASE claims' = IdleClaims
    BY <1>2, <2>2, <2>4, IdleTyped, ClaimsKeep
  <2> QED BY <2>2, <2>3, <2>4
<1>5. CASE ScanClaim
  <2> DEFINE members == MembersOf[claims.current]
             p == members[(claims.next \div ClaimWindow) + 1]
             e == claims.current - 1 - (claims.next % ClaimWindow)
             row == Summary(claims.view, e, p)
  <2>1. UNCHANGED <<chainEpoch, performance, rewardRows, totals, calculations, page>>
    BY <1>5 DEF ScanClaim, rewardChain, rewardTables
  <2>2. p \in Participant
    <3>1. claims.next < ClaimWindow * Len(members) /\ Len(members) \in Nat
      BY <1>1, <1>5, Members DEF ScanClaim
    <3>2. /\ claims.next \div ClaimWindow \in Nat
          /\ claims.next \div ClaimWindow < Len(members)
      BY <1>1, <3>1, RewardConstants, Division
    <3>3. (claims.next \div ClaimWindow) + 1 \in 1..Len(members)
      BY <3>1, <3>2
    <3> QED BY <1>1, <3>3, Members
  <2>3. e >= 1 => e \in RewardEpoch
    <3>1. claims.next % ClaimWindow \in Nat
      BY <1>1, RewardConstants, Division
    <3>2. claims.current \in 1..LastEpoch /\ LastEpoch \in Nat
      BY <1>1, RewardConstants DEF RewardEpoch
    <3> QED BY <3>1, <3>2 DEF RewardEpoch
  <2>4. e >= 1 => row \in RewardRow /\ PageTruthful(row)
    <3> SUFFICES ASSUME e >= 1 PROVE row \in RewardRow /\ PageTruthful(row)
      OBVIOUS
    <3>1. e \in RewardEpoch
      BY <2>3
    <3> HIDE DEF e, p
    <3>2. /\ claims.view[e][p] # "none" => performance[e][p] # "none"
          /\ claims.view[e][p] = "claimed" => performance[e][p] = "claimed"
      BY <2>2, <3>1 DEF RewardsInv, ViewIsPast
    <3> QED BY <1>1, <2>2, <3>1, <3>2, SummaryIsTruthful
  <2>5. PICK added \in {{}, {row}} :
          /\ claims' = [claims EXCEPT !.next = claims.next + 1,
                                      !.batch = claims.batch \cup added]
          /\ added # {} => e >= 1
    <3>1. /\ e < 1 \/ KnownClaimed(e, p) => claims' = [claims EXCEPT !.next = @ + 1]
          /\ e >= 1 => \/ claims' = [claims EXCEPT !.next = @ + 1]
                       \/ claims' = [claims EXCEPT !.next = @ + 1, !.batch = @ \cup {row}]
          /\ e < 1 \/ e >= 1
      <4>1. e \in Int
        <5>1. claims.next % ClaimWindow \in Nat
          BY <1>1, RewardConstants, Division
        <5>2. claims.current \in 1..LastEpoch /\ LastEpoch \in Nat
          BY <1>1, RewardConstants DEF RewardEpoch
        <5> QED BY <5>1, <5>2
      <4>2. \/ claims' = [claims EXCEPT
                !.next = @ + 1,
                !.batch = IF e < 1 \/ KnownClaimed(e, p) THEN @
                          ELSE @ \cup {row}]
            \/ claims' = [claims EXCEPT !.next = @ + 1]
        BY <1>5 DEF ScanClaim
      <4> HIDE DEF e, row, p
      <4>3. [claims EXCEPT !.next = @ + 1, !.batch = @] = [claims EXCEPT !.next = @ + 1]
        BY <1>1 DEF ClaimPoll
      <4>4. CASE e < 1 \/ KnownClaimed(e, p)
        <5>1. claims.batch = IF e < 1 \/ KnownClaimed(e, p) THEN claims.batch
                             ELSE claims.batch \cup {row}
          BY <4>4
        <5>2. claims' = [claims EXCEPT !.next = @ + 1]
          BY <4>2, <4>3, <5>1
        <5> QED BY <4>1, <5>2
      <4>5. CASE ~ (e < 1 \/ KnownClaimed(e, p))
        BY <4>1, <4>2, <4>5
      <4> QED BY <4>1, <4>4, <4>5
    <3> HIDE DEF e, row, p
    <3>2. [claims EXCEPT !.next = @ + 1]
            = [claims EXCEPT !.next = claims.next + 1, !.batch = claims.batch \cup {}]
      BY <1>1 DEF ClaimPoll
    <3>3. CASE claims' = [claims EXCEPT !.next = @ + 1]
      BY <3>2, <3>3
    <3>4. CASE e >= 1 /\ claims' = [claims EXCEPT !.next = @ + 1, !.batch = @ \cup {row}]
      BY <3>4
    <3> QED BY <3>1, <3>3, <3>4
  <2> HIDE DEF e, row, p
  <2>6. claims' \in ClaimPoll /\ claims'.view = claims.view
        /\ claims'.batch = claims.batch \cup added
    <3>1. claims.next + 1 \in Nat /\ claims.batch \cup added \in SUBSET RewardRow
      BY <1>1, <2>4, <2>5
    <3> QED BY <1>1, <2>5, <3>1 DEF ClaimPoll
  <2>7. \A r \in claims'.batch : PageTruthful(r)
    BY <1>1, <2>4, <2>5, <2>6
  <2> QED BY <1>2, <2>1, <2>6, <2>7, ClaimsKeep
<1>6. CASE SaveClaims
  <2>1. /\ claims' = IdleClaims
        /\ rewardRows' = Replaced(rewardRows, claims.batch)
        /\ UNCHANGED <<chainEpoch, performance, totals, calculations, page>>
    BY <1>6 DEF SaveClaims, rewardChain
  <2>2. \A r \in rewardRows' : r \in rewardRows \cup claims.batch
    BY <2>1 DEF Replaced
  <2> QED BY <1>2, <2>1, <2>2, IdleTyped, ClaimsKeep
<1> QED BY <1>3, <1>4, <1>5, <1>6 DEF ClaimsStep

-----------------------------------------------------------------------------
\* The participant page, which asks the chain as it is.
LEMMA PageKeeps ==
    ASSUME RewardsInv, page' \in Page,
           \A r \in page'.batch : PageTruthful(r),
           \A r \in rewardRows' : r \in rewardRows \cup page.batch,
           UNCHANGED <<chainEpoch, performance, totals, calculations, claims>>,
           rewardFaults' \in 0..MaxRewardFaults
    PROVE  RewardsInv'
<1>1. ViewIsPast'
  BY DEF RewardsInv, ViewIsPast
<1>2. \A r \in rewardRows' \cup InFlight' : PageTruthful(r)
  BY DEF RewardsInv, InFlight
<1>3. rewardRows' \subseteq RewardRow
  BY DEF RewardsInv, RewardsTypeOK, Page
<1> QED BY <1>1, <1>2, <1>3, KeepInv DEF RewardsInv, RewardsTypeOK

LEMMA PageInv ==
    ASSUME RewardsInv,
           \/ PageStep
           \/ \E p \in Participant, e \in RewardEpoch : OpenPage(p, e)
    PROVE  RewardsInv'
<1>1. /\ page \in Page /\ page.participant \in Participant
      /\ page.missing \subseteq RewardEpoch /\ page.batch \subseteq RewardRow
      /\ performance \in Performance
      /\ \A r \in page.batch : PageTruthful(r)
  BY DEF RewardsInv, RewardsTypeOK, Page, InFlight
<1>2. rewardFaults' \in 0..MaxRewardFaults
  BY RewardFaultCounts DEF PageStep, PageAnswer, ClosePage, OpenPage
<1>3. ASSUME NEW p \in Participant, NEW e \in RewardEpoch, OpenPage(p, e)
      PROVE  RewardsInv'
  <2>1. PICK missing \in SUBSET RewardEpoch :
          page' = [page EXCEPT !.pc = "fetch", !.participant = p, !.missing = missing]
    BY <1>3 DEF OpenPage, PageEpochs
  <2>2. page' \in Page /\ page'.batch = page.batch
    BY <1>1, <2>1 DEF Page
  <2>3. UNCHANGED <<chainEpoch, performance, rewardRows, totals, calculations, claims>>
    BY <1>3 DEF OpenPage, rewardChain, rewardTables
  <2> QED BY <1>1, <1>2, <2>2, <2>3, PageKeeps
<1>4. ASSUME NEW e \in RewardEpoch, PageAnswer(e)
      PROVE  RewardsInv'
  <2> DEFINE row == Summary(performance, e, page.participant)
  <2>1. row \in RewardRow /\ PageTruthful(row)
    BY <1>1, SummaryIsTruthful
  <2> HIDE DEF row
  <2>2. \/ page' = [page EXCEPT !.missing = @ \ {e}, !.batch = @ \cup {row}]
        \/ page' = [page EXCEPT !.missing = @ \ {e}]
    BY <1>4 DEF PageAnswer, row
  <2>3. page' \in Page /\ \A r \in page'.batch : r \in page.batch \/ r = row
    <3>1. /\ page.missing \ {e} \in SUBSET RewardEpoch
          /\ page.batch \cup {row} \in SUBSET RewardRow
      BY <1>1, <2>1
    <3>2. CASE page' = [page EXCEPT !.missing = @ \ {e}, !.batch = @ \cup {row}]
      <4>1. page' \in Page
        BY <1>1, <3>1, <3>2 DEF Page
      <4>2. page'.batch = page.batch \cup {row}
        BY <1>1, <3>2 DEF Page
      <4> QED BY <4>1, <4>2
    <3>3. CASE page' = [page EXCEPT !.missing = @ \ {e}]
      <4>1. page' \in Page
        BY <1>1, <3>1, <3>3 DEF Page
      <4>2. page'.batch = page.batch
        BY <1>1, <3>3 DEF Page
      <4> QED BY <4>1, <4>2
    <3> QED BY <2>2, <3>2, <3>3
  <2>4. UNCHANGED <<chainEpoch, performance, rewardRows, totals, calculations, claims>>
    BY <1>4 DEF PageAnswer, rewardChain, rewardTables
  <2> QED BY <1>1, <1>2, <2>1, <2>3, <2>4, PageKeeps
<1>5. CASE ClosePage
  <2>1. /\ page' = IdlePage
        /\ rewardRows' = Replaced(rewardRows, page.batch)
        /\ UNCHANGED <<chainEpoch, performance, totals, calculations, claims>>
    BY <1>5 DEF ClosePage, rewardChain
  <2>2. \A r \in rewardRows' : r \in rewardRows \cup page.batch
    BY <2>1 DEF Replaced
  <2> QED BY <1>2, <2>1, <2>2, IdleTyped, PageKeeps
<1> QED BY <1>3, <1>4, <1>5 DEF PageStep

-----------------------------------------------------------------------------
\* What the chain said stays true while it moves on.
LEMMA RewardsChainInv ==
    ASSUME RewardsInv,
           \/ EpochEnds
           \/ \E p \in Participant : ChainPays(p)
           \/ \E p \in Participant, e \in RewardEpoch : ClaimReward(e, p)
    PROVE  RewardsInv'
<1>1. performance \in Performance /\ chainEpoch \in RewardEpoch
  BY DEF RewardsInv, RewardsTypeOK
<1>2. UNCHANGED <<rewardRows, totals, calculations, claims, page, rewardFaults>>
  BY DEF EpochEnds, ChainPays, Distribute, ClaimReward, rewardTables
<1>3. /\ performance' \in Performance /\ chainEpoch' \in RewardEpoch
      /\ \A e \in RewardEpoch, p \in Participant :
           /\ performance[e][p] # "none" => performance'[e][p] # "none"
           /\ performance[e][p] = "claimed" => performance'[e][p] = "claimed"
  <2>1. CASE EpochEnds
    BY <1>1, <2>1, RewardConstants DEF EpochEnds, RewardEpoch
  <2>2. ASSUME NEW p \in Participant, NEW e \in RewardEpoch, Distribute(e, p)
        PROVE  <1>3
    BY <1>1, <2>2 DEF Distribute, Performance
  <2>3. ASSUME NEW p \in Participant, NEW e \in RewardEpoch, ClaimReward(e, p)
        PROVE  <1>3
    BY <1>1, <2>3 DEF ClaimReward, Performance
  <2> QED BY <2>1, <2>2, <2>3 DEF ChainPays
<1>4. \A r \in rewardRows \cup InFlight : r \in RewardRow
  BY DEF RewardsInv, RewardsTypeOK, InFlight, Calculation, ClaimPoll, Page
<1>5. \A r \in RewardRow : PageTruthful(r) => PageTruthful(r)'
  <2> SUFFICES ASSUME NEW r \in RewardRow, PageTruthful(r) PROVE PageTruthful(r)'
    OBVIOUS
  <2>1. r.epoch \in RewardEpoch /\ r.participant \in Participant
    BY DEF RewardRow
  <2> QED BY <1>3, <2>1 DEF PageTruthful
<1>6. \A r \in rewardRows' \cup InFlight' : PageTruthful(r)'
  BY <1>2, <1>4, <1>5 DEF RewardsInv, InFlight
<1>7. ViewIsPast'
  BY <1>2, <1>3 DEF RewardsInv, ViewIsPast
<1> QED BY <1>2, <1>3, <1>6, <1>7 DEF RewardsInv, RewardsTypeOK

\* A poll or a visit starts a calculation; a restart ends everything.
LEMMA StartsInv ==
    ASSUME RewardsInv,
           \/ PollTotals
           \/ \E c \in Visits, e \in RewardEpoch : VisitEpoch(c, e)
           \/ RewardsRestart
    PROVE  RewardsInv'
<1>1. chainEpoch \in 1..LastEpoch /\ LastEpoch \in Nat /\ TotalWindow \in Nat \ {0}
  BY RewardConstants DEF RewardsInv, RewardsTypeOK, RewardEpoch
<1>2. rewardFaults' \in 0..MaxRewardFaults
  BY RewardFaultCounts DEF PollTotals, VisitEpoch, RewardsRestart
<1>3. totals \in [RewardEpoch -> Nat \cup {NoTotal}]
  BY DEF RewardsInv, RewardsTypeOK
<1>4. \A e, last \in RewardEpoch, heals \in BOOLEAN :
         LET n == [IdleCalculation EXCEPT !.pc = "look", !.heals = heals,
                                          !.epoch = e, !.last = last]
         IN  n \in Calculation /\ n.batch = {}
  BY IdleTyped DEF Calculation
<1>5. ASSUME NEW c \in Calculator, NEW e \in RewardEpoch, NEW last \in RewardEpoch,
             NEW heals \in BOOLEAN,
             calculations' = [calculations EXCEPT ![c] =
                [IdleCalculation EXCEPT !.pc = "look", !.heals = heals,
                                        !.epoch = e, !.last = last]],
             UNCHANGED <<chainEpoch, performance, rewardRows, totals, claims, page>>
      PROVE  RewardsInv'
  <2> DEFINE n == [IdleCalculation EXCEPT !.pc = "look", !.heals = heals,
                                          !.epoch = e, !.last = last]
  <2>1. n \in Calculation /\ \A r \in n.batch : PageTruthful(r) \/ r \in InFlight
    BY <1>4
  <2> HIDE DEF n
  <2> QED BY <1>2, <1>3, <1>5, <2>1, CalculationKeeps DEF n
<1>6. CASE PollTotals
  <2> DEFINE last == IF chainEpoch > TotalWindow THEN chainEpoch - TotalWindow ELSE 1
  <2>1. chainEpoch - 1 \in RewardEpoch /\ last \in RewardEpoch
    BY <1>1, <1>6 DEF PollTotals, RewardEpoch
  <2>2. UNCHANGED <<chainEpoch, performance, rewardRows, totals, claims, page>>
    BY <1>6 DEF PollTotals, rewardChain, rewardTables
  <2>3. calculations' = [calculations EXCEPT ![TotalPoller] =
                [IdleCalculation EXCEPT !.pc = "look", !.heals = TRUE,
                                        !.epoch = chainEpoch - 1, !.last = last]]
    BY <1>6 DEF PollTotals
  <2>4. TotalPoller \in Calculator
    BY DEF Calculator
  <2> HIDE DEF last
  <2> QED BY <1>5, <2>1, <2>2, <2>3, <2>4
<1>7. ASSUME NEW c \in Visits, NEW e \in RewardEpoch, VisitEpoch(c, e)
      PROVE  RewardsInv'
  <2>1. c \in Calculator
    BY DEF Calculator
  <2>2. UNCHANGED <<chainEpoch, performance, rewardRows, totals, claims, page>>
    BY <1>7 DEF VisitEpoch, rewardChain, rewardTables
  <2>3. PICK heals \in BOOLEAN :
          calculations' = [calculations EXCEPT ![c] =
              [IdleCalculation EXCEPT !.pc = "look", !.heals = heals,
                                      !.epoch = e, !.last = e]]
    BY <1>7 DEF VisitEpoch
  <2> QED BY <1>5, <2>1, <2>2, <2>3
<1>8. CASE RewardsRestart
  <2>1. /\ calculations' = [c \in Calculator |-> IdleCalculation]
        /\ claims' = IdleClaims /\ page' = IdlePage
        /\ UNCHANGED <<chainEpoch, performance, rewardRows, totals>>
    BY <1>8 DEF RewardsRestart, rewardChain, rewardTables
  <2>2. calculations' \in [Calculator -> Calculation]
    BY <2>1, IdleTyped
  <2>3. ViewIsPast'
    BY <2>1, IdleTyped DEF ViewIsPast, NoPerformance
  <2>4. \A r \in rewardRows' \cup InFlight' : r \in rewardRows
    BY <2>1, IdleTyped DEF InFlight
  <2> QED BY <1>2, <1>3, <2>1, <2>2, <2>3, <2>4, IdleTyped, KeepInv DEF RewardsInv, RewardsTypeOK
<1> QED BY <1>6, <1>7, <1>8

LEMMA RewardsStepInv == RewardsInv /\ [RewardsNext]_rewardVars => RewardsInv'
<1> SUFFICES ASSUME RewardsInv, [RewardsNext]_rewardVars PROVE RewardsInv'
  OBVIOUS
<1>1. TotalPoller \in Calculator /\ Visits \subseteq Calculator
  BY DEF Calculator
<1>2. CASE TotalsNext
  <2>1. CASE VisitStep
    BY <1>1, <2>1, CalculationInv, StartsInv DEF VisitStep
  <2>2. CASE CalculationStep(TotalPoller)
    BY <1>1, <2>2, CalculationInv
  <2> QED BY <1>2, <2>1, <2>2, RewardsChainInv, StartsInv DEF TotalsNext
<1>3. ASSUME NEW p \in Participant, ClaimsNext(p) PROVE RewardsInv'
  <2>1. CASE VisitStep
    BY <1>1, <2>1, CalculationInv, StartsInv DEF VisitStep
  <2>2. CASE PollClaims \/ ClaimsStep
    BY <2>2, ClaimsInv
  <2>3. CASE PageStep \/ \E e \in RewardEpoch : OpenPage(p, e)
    BY <2>3, PageInv
  <2> QED BY <1>3, <2>1, <2>2, <2>3, RewardsChainInv, StartsInv DEF ClaimsNext
<1>4. CASE UNCHANGED rewardVars
  BY <1>4 DEF rewardVars, RewardsInv, RewardsTypeOK, ViewIsPast, PageTruthful, InFlight
<1> QED BY <1>2, <1>3, <1>4 DEF RewardsNext

-----------------------------------------------------------------------------
\* The inductive invariant holds in every state, whatever polls, pages,
\* failures and restarts do.
THEOREM RewardsInvariant == RewardsSpec => []RewardsInv
<1> QED BY RewardsInitInv, RewardsStepInv, PTL DEF RewardsSpec

\* Every row, total and coroutine keeps its type.
THEOREM RewardsTypes == RewardsSpec => []RewardsTypeOK
<1>1. RewardsInv => RewardsTypeOK
  BY DEF RewardsInv
<1> QED BY <1>1, RewardsInvariant, PTL

\* No row overstates the coins, or the claim, of a reward.
THEOREM RowsAreNeverAhead == RewardsSpec => []RowsNeverAhead
<1>1. RewardsInv => RowsNeverAhead
  <2> SUFFICES ASSUME RewardsInv, NEW r \in rewardRows
               PROVE  /\ r.coins \in {0, Summary(performance, r.epoch, r.participant).coins}
                      /\ r.claimed => performance[r.epoch][r.participant] = "claimed"
    BY DEF RowsNeverAhead
  <2>1. PageTruthful(r)
    BY DEF RewardsInv
  <2> QED BY <2>1 DEF PageTruthful, Summary
<1> QED BY <1>1, RewardsInvariant, PTL

-----------------------------------------------------------------------------
(***************************************************************************)
(* The totals.  Every sum that a calculation has reached is covered by     *)
(* what the chain has assigned those it has counted, and stays so while    *)
(* the chain assigns more: what is saved of it can be too low only.        *)
(***************************************************************************)

\* Those whose answer a calculation has, or went without.
Reached(k) == {MembersOf[k.epoch][i] : i \in 1..(k.next - 1)}

Grounded(k) ==
    /\ k.next <= Len(MembersOf[k.epoch]) + 1
    /\ k.sum <= SumFunctionOnSet(Assigned(k.epoch), Reached(k))

SumsInv ==
    /\ \A c \in Calculator : Grounded(calculations[c])
    /\ TotalNeverOverstates

\* The members of an epoch: finitely many, each at one place.
LEMMA MembersOnce ==
    ASSUME NEW e \in RewardEpoch
    PROVE  /\ IsFiniteSet(Range(MembersOf[e]))
           /\ Range(MembersOf[e]) \subseteq Participant
           /\ \A n \in Nat : IsFiniteSet({MembersOf[e][i] : i \in 1..n})
           /\ \A n \in Nat : n <= Len(MembersOf[e])
                => {MembersOf[e][i] : i \in 1..n} \subseteq Range(MembersOf[e])
           /\ \A n \in Nat : n + 1 <= Len(MembersOf[e])
                => MembersOf[e][n + 1] \notin {MembersOf[e][i] : i \in 1..n}
<1> DEFINE m == MembersOf[e]
<1>1. Len(m) \in Nat /\ DOMAIN m = 1..Len(m) /\ \A i \in 1..Len(m) : m[i] \in Participant
  BY Members, RewardConstants
<1>2. IsInjective(m)
  BY RewardsAssumption
<1> HIDE DEF m
<1>3. \A n \in Nat : IsFiniteSet({m[i] : i \in 1..n})
  <2> TAKE n \in Nat
  <2>1. IsFiniteSet(1..n)
    BY FS_Interval
  <2> QED BY <2>1, ImageIsFinite
<1>4. Range(m) = {m[i] : i \in 1..Len(m)}
  BY <1>1 DEF Range
<1>5. \A n \in Nat : n <= Len(m) => {m[i] : i \in 1..n} \subseteq Range(m)
  BY <1>1, <1>4
<1>6. \A n \in Nat : n + 1 <= Len(m) => m[n + 1] \notin {m[i] : i \in 1..n}
  <2> TAKE n \in Nat
  <2> SUFFICES ASSUME n + 1 <= Len(m), NEW i \in 1..n, m[n + 1] = m[i] PROVE FALSE
    OBVIOUS
  <2>1. n + 1 \in DOMAIN m /\ i \in DOMAIN m
    BY <1>1
  <2> QED BY <1>2, <2>1 DEF IsInjective
<1>7. IsFiniteSet(Range(m)) /\ Range(m) \subseteq Participant
  BY <1>1, <1>3, <1>4
<1> QED BY <1>3, <1>5, <1>6, <1>7 DEF m

LEMMA AssignedType ==
    ASSUME RewardsInv, NEW e \in RewardEpoch, NEW p \in Participant
    PROVE  /\ Assigned(e)[p] \in Nat
           /\ Assigned(e)[p] = IF performance[e][p] = "none" THEN 0 ELSE Reward[p]
BY RewardConstants DEF Assigned, Summary

\* Whoever has been counted is a member.
LEMMA ReachedIsPart ==
    ASSUME NEW k \in Calculation, k.next <= Len(MembersOf[k.epoch]) + 1
    PROVE  /\ Reached(k) \subseteq Range(MembersOf[k.epoch])
           /\ IsFiniteSet(Reached(k))
<1>1. k.epoch \in RewardEpoch /\ k.next - 1 \in Nat
  BY DEF Calculation
<1>2. k.next - 1 <= Len(MembersOf[k.epoch])
  <2>1. Len(MembersOf[k.epoch]) \in Nat /\ k.next \in Nat
    BY <1>1, Members DEF Calculation
  <2> QED BY <2>1
<1> QED BY <1>1, <1>2, MembersOnce DEF Reached

\* Nothing has been counted yet.
LEMMA FreshIsGrounded ==
    ASSUME NEW k \in Calculation, k.next = 1, k.sum = 0
    PROVE  Grounded(k)
<1>1. Reached(k) = {}
  BY DEF Reached
<1>2. SumFunctionOnSet(Assigned(k.epoch), {}) = 0
  BY FS_EmptySet, SumUnfolds
<1>3. Len(MembersOf[k.epoch]) \in Nat
  BY Members DEF Calculation
<1> QED BY <1>1, <1>2, <1>3 DEF Grounded

\* One participant more, whose answer is what the chain says now or nothing.
LEMMA CountedIsGrounded ==
    ASSUME RewardsInv, NEW k \in Calculation, Grounded(k),
           k.next <= Len(MembersOf[k.epoch]),
           NEW n \in Calculation, n.epoch = k.epoch, n.next = k.next + 1,
           n.sum = k.sum
             \/ n.sum = k.sum + Assigned(k.epoch)[MembersOf[k.epoch][k.next]]
    PROVE  Grounded(n)
<1> DEFINE e == k.epoch
           p == MembersOf[e][k.next]
<1>1. e \in RewardEpoch /\ k.next \in Nat \ {0} /\ k.sum \in Nat /\ n.sum \in Nat
  BY DEF Calculation
<1>2. Len(MembersOf[e]) \in Nat /\ p \in Participant
  BY <1>1, Members
<1>3. Reached(n) = Reached(k) \cup {p}
  BY <1>1 DEF Reached
<1>4. p \notin Reached(k)
  <2>1. k.next - 1 \in Nat /\ (k.next - 1) + 1 = k.next
    BY <1>1
  <2> QED BY <1>1, <2>1, MembersOnce DEF Reached
<1>5. IsFiniteSet(Reached(n)) /\ Reached(n) \subseteq Participant
  BY <1>1, <1>2, ReachedIsPart, MembersOnce
<1>6. \A q \in Participant : Assigned(e)[q] \in Nat
  BY <1>1, AssignedType
<1>7. SumFunctionOnSet(Assigned(e), Reached(n))
        = Assigned(e)[p] + SumFunctionOnSet(Assigned(e), Reached(k))
  <2>1. Reached(n) \ {p} = Reached(k)
    BY <1>3, <1>4
  <2>2. p \in Reached(n) /\ \A q \in Reached(n) : Assigned(e)[q] \in Nat
    BY <1>3, <1>5, <1>6
  <2>3. SumFunctionOnSet(Assigned(e), Reached(n))
          = Assigned(e)[p] + SumFunctionOnSet(Assigned(e), Reached(n) \ {p})
    BY <1>5, <2>2, SumTake
  <2> QED BY <2>1, <2>3
<1>8. SumFunctionOnSet(Assigned(e), Reached(k)) \in Nat /\ Assigned(e)[p] \in Nat
  <2>1. IsFiniteSet(Reached(k)) /\ Reached(k) \subseteq Participant
    BY <1>3, <1>5, FS_Subset
  <2> QED BY <1>2, <1>6, <2>1, SumType
<1>9. k.sum <= SumFunctionOnSet(Assigned(e), Reached(k))
  BY DEF Grounded
<1> HIDE DEF p
<1>10. n.sum <= SumFunctionOnSet(Assigned(e), Reached(n))
  <2>1. n.sum = k.sum \/ n.sum = k.sum + Assigned(e)[p]
    BY DEF p
  <2> HIDE DEF e
  <2> QED BY <1>1, <1>7, <1>8, <1>9, <2>1
<1> QED BY <1>1, <1>2, <1>10 DEF Grounded

\* What is saved of a sum is no more than the chain's total.
LEMMA GroundedTotal ==
    ASSUME RewardsInv, NEW k \in Calculation, Grounded(k)
    PROVE  k.sum \div UgnkPerGnk <= ChainTotal(k.epoch)
<1> DEFINE e == k.epoch
           Sum(s) == SumFunctionOnSet(Assigned(e), s)
           all == Range(MembersOf[e])
<1>1. e \in RewardEpoch /\ k.sum \in Nat
  BY DEF Calculation
<1>2. IsFiniteSet(all) /\ all \subseteq Participant
  BY <1>1, MembersOnce
<1>3. Reached(k) \subseteq all /\ IsFiniteSet(Reached(k))
  BY ReachedIsPart DEF Grounded
<1>4. \A q \in all : Assigned(e)[q] \in Nat
  BY <1>1, <1>2, AssignedType
<1>5. Sum(Reached(k)) <= Sum(all)
  <2>1. \A q \in Reached(k) : Assigned(e)[q] <= Assigned(e)[q]
    BY <1>3, <1>4
  <2> QED BY <1>2, <1>3, <1>4, <2>1, SumRises
<1>6. Sum(Reached(k)) \in Nat /\ Sum(all) \in Nat
  BY <1>2, <1>3, <1>4, SumType
<1>7. k.sum <= Sum(all)
  BY <1>1, <1>5, <1>6 DEF Grounded
<1>8. k.sum \div UgnkPerGnk <= Sum(all) \div UgnkPerGnk
  <2> HIDE DEF Sum, all, e
  <2> QED BY <1>1, <1>6, <1>7, QuotientRises, RewardConstants
<1> QED BY <1>8 DEF ChainTotal

\* While the chain assigns more, what was grounded stays so.
LEMMA MoreIsAssigned ==
    ASSUME RewardsInv, RewardsInv', SumsInv,
           \A e \in RewardEpoch, p \in Participant :
              performance[e][p] # "none" => performance'[e][p] # "none",
           UNCHANGED <<calculations, totals>>
    PROVE  SumsInv'
<1>1. ASSUME NEW e \in RewardEpoch, NEW s, IsFiniteSet(s), s \subseteq Participant
      PROVE  /\ SumFunctionOnSet(Assigned(e), s) <= SumFunctionOnSet(Assigned(e)', s)
             /\ SumFunctionOnSet(Assigned(e), s) \in Nat
             /\ SumFunctionOnSet(Assigned(e)', s) \in Nat
  <2>1. \A p \in s : Assigned(e)[p] \in Nat /\ Assigned(e)'[p] \in Nat
                     /\ Assigned(e)[p] <= Assigned(e)'[p]
    <3> TAKE p \in s
    <3>1. Assigned(e)[p] = IF performance[e][p] = "none" THEN 0 ELSE Reward[p]
      BY <1>1 DEF Assigned, Summary
    <3>2. Assigned(e)'[p] = IF performance'[e][p] = "none" THEN 0 ELSE Reward[p]
      BY <1>1 DEF Assigned, Summary
    <3>3. Reward[p] \in Nat
      BY <1>1, RewardConstants
    <3> QED BY <1>1, <3>1, <3>2, <3>3
  <2> DEFINE f == Assigned(e)
             g == Assigned(e)'
  <2> HIDE DEF f, g
  <2>2. \A p \in s : f[p] \in Nat /\ g[p] \in Nat /\ f[p] <= g[p]
    BY <2>1 DEF f, g
  <2>3. SumFunctionOnSet(f, s) <= SumFunctionOnSet(g, s)
    BY <1>1, <2>2, SumRises
  <2>4. SumFunctionOnSet(f, s) \in Nat /\ SumFunctionOnSet(g, s) \in Nat
    BY <1>1, <2>2, SumType
  <2> QED BY <2>3, <2>4 DEF f, g
<1>2. ASSUME NEW c \in Calculator PROVE Grounded(calculations[c])'
  <2>1. PICK k \in Calculation : k = calculations[c]
    BY DEF RewardsInv, RewardsTypeOK
  <2>2. k.epoch \in RewardEpoch /\ k.sum \in Nat /\ Grounded(k)
    BY <2>1 DEF SumsInv, Calculation
  <2>3. IsFiniteSet(Reached(k)) /\ Reached(k) \subseteq Participant
    BY <2>1, <2>2, ReachedIsPart, MembersOnce DEF Grounded
  <2>4. /\ SumFunctionOnSet(Assigned(k.epoch), Reached(k))
             <= SumFunctionOnSet(Assigned(k.epoch)', Reached(k))
        /\ SumFunctionOnSet(Assigned(k.epoch), Reached(k)) \in Nat
        /\ SumFunctionOnSet(Assigned(k.epoch)', Reached(k)) \in Nat
    BY <1>1, <2>2, <2>3
  <2>5. /\ k.sum <= SumFunctionOnSet(Assigned(k.epoch), Reached(k))
        /\ k.next <= Len(MembersOf[k.epoch]) + 1
    BY <2>2 DEF Grounded
  <2>6. k.sum <= SumFunctionOnSet(Assigned(k.epoch)', Reached(k))
    BY <2>2, <2>4, <2>5
  <2>7. Grounded(k)'
    BY <2>5, <2>6 DEF Grounded, Reached
  <2> QED BY <2>1, <2>7 DEF Grounded, Reached
<1>3. ASSUME NEW e \in RewardEpoch PROVE totals'[e] <= ChainTotal(e)'
  <2> DEFINE all == Range(MembersOf[e])
             a == SumFunctionOnSet(Assigned(e), all)
             b == SumFunctionOnSet(Assigned(e)', all)
  <2>1. IsFiniteSet(all) /\ all \subseteq Participant
    BY MembersOnce
  <2>2. a \in Nat /\ b \in Nat /\ a <= b
    BY <1>1, <2>1
  <2>3. ChainTotal(e) = a \div UgnkPerGnk /\ ChainTotal(e)' = b \div UgnkPerGnk
    BY DEF ChainTotal
  <2>4. totals[e] <= ChainTotal(e) /\ totals[e] \in Nat \cup {NoTotal}
    BY DEF SumsInv, TotalNeverOverstates, RewardsInv, RewardsTypeOK
  <2> HIDE DEF a, b
  <2>5. a \div UgnkPerGnk <= b \div UgnkPerGnk /\ a \div UgnkPerGnk \in Nat
        /\ b \div UgnkPerGnk \in Nat
    BY <2>2, QuotientRises, Division, RewardConstants
  <2> QED BY <2>3, <2>4, <2>5 DEF NoTotal
<1> QED BY <1>2, <1>3 DEF SumsInv, TotalNeverOverstates

\* A calculation moves on to a sum that is grounded, by the chain as it is.
LEMMA SumsKeep ==
    ASSUME RewardsInv, SumsInv, NEW c \in Calculator, NEW k \in Calculation, Grounded(k),
           calculations' = [calculations EXCEPT ![c] = k],
           UNCHANGED performance,
           \A e \in RewardEpoch : totals'[e] <= ChainTotal(e)
    PROVE  SumsInv'
<1>1. \A d \in Calculator : calculations'[d] = IF d = c THEN k ELSE calculations[d]
  BY DEF RewardsInv, RewardsTypeOK
<1>2. \A e \in RewardEpoch : Assigned(e)' = Assigned(e)
  BY DEF Assigned, Summary
<1>3. \A d \in Calculator : Grounded(calculations'[d])
  BY <1>1 DEF SumsInv
<1>4. \A d \in Calculator : calculations'[d].epoch \in RewardEpoch
  BY <1>1 DEF RewardsInv, RewardsTypeOK, Calculation
<1>5. ASSUME NEW d \in Calculator PROVE Grounded(calculations[d])'
  <2>1. PICK n : n = calculations'[d]
    OBVIOUS
  <2>2. Grounded(n) /\ n.epoch \in RewardEpoch
    BY <1>3, <1>4, <2>1
  <2>3. Assigned(n.epoch)' = Assigned(n.epoch)
    BY <1>2, <2>2
  <2>4. Grounded(n)'
    BY <2>2, <2>3 DEF Grounded, Reached
  <2> QED BY <2>1, <2>4 DEF Grounded, Reached
<1>6. TotalNeverOverstates'
  BY <1>2 DEF TotalNeverOverstates, ChainTotal
<1> QED BY <1>5, <1>6 DEF SumsInv

LEMMA FinishedIsFresh ==
    ASSUME NEW k \in Calculation
    PROVE  Grounded(Finished(k)) /\ Grounded(IdleCalculation)
<1>1. IdleCalculation.next = 1 /\ IdleCalculation.sum = 0
  BY DEF IdleCalculation
<1>2. Finished(k).next = 1 /\ Finished(k).sum = 0
  BY DEF Finished, IdleCalculation
<1>3. Finished(k) \in Calculation /\ IdleCalculation \in Calculation
  BY FinishedIsEmpty, IdleTyped
<1> QED BY <1>1, <1>2, <1>3, FreshIsGrounded

LEMMA CalculationSums ==
    ASSUME RewardsInv, SumsInv, NEW c \in Calculator, CalculationStep(c)
    PROVE  SumsInv'
<1>1. PICK k \in Calculation : k = calculations[c]
  BY DEF RewardsInv, RewardsTypeOK
<1>2. Grounded(k) /\ k.epoch \in RewardEpoch
  BY <1>1 DEF SumsInv, Calculation
<1>3. Grounded(Finished(k)) /\ Grounded(IdleCalculation)
  BY FinishedIsFresh
<1>4. Finished(k) \in Calculation /\ IdleCalculation \in Calculation
  BY FinishedIsEmpty, IdleTyped
<1>5. \A pc \in {"look", "heal", "members", "fetch", "rows", "total"} :
         [k EXCEPT !.pc = pc] \in Calculation /\ Grounded([k EXCEPT !.pc = pc])
  BY <1>2 DEF Calculation, Grounded, Reached
<1>6. \A e \in RewardEpoch : totals[e] <= ChainTotal(e)
  BY DEF SumsInv, TotalNeverOverstates
<1>7. totals \in [RewardEpoch -> Nat \cup {NoTotal}]
  BY DEF RewardsInv, RewardsTypeOK
<1>8. UNCHANGED performance
  BY DEF CalculationStep, LookAtTotal, DeleteTotal, ReadMembers, FetchSummary,
     CompareTotal, SaveRows, SaveTotal, rewardChain
<1>9. CASE LookAtTotal(c)
  <2>1. PICK n \in {[k EXCEPT !.pc = "heal"], [k EXCEPT !.pc = "members"], IdleCalculation} :
          calculations' = [calculations EXCEPT ![c] = n]
    BY <1>1, <1>9 DEF LookAtTotal
  <2>2. n \in Calculation /\ Grounded(n) /\ totals' = totals
    BY <1>3, <1>4, <1>5, <1>9, <2>1 DEF LookAtTotal, rewardTables
  <2> QED BY <1>6, <1>8, <2>1, <2>2, SumsKeep
<1>10. CASE DeleteTotal(c)
  <2>1. calculations' = [calculations EXCEPT ![c] = [k EXCEPT !.pc = "members"]]
    BY <1>1, <1>10 DEF DeleteTotal
  <2>2. \A e \in RewardEpoch : totals'[e] <= ChainTotal(e)
    <3> TAKE e \in RewardEpoch
    <3>1. ChainTotal(e) \in Nat
      <4> DEFINE all == Range(MembersOf[e])
      <4>1. IsFiniteSet(all) /\ all \subseteq Participant
        BY MembersOnce
      <4>2. \A q \in all : Assigned(e)[q] \in Nat
        BY <4>1, AssignedType
      <4> HIDE DEF all
      <4>3. SumFunctionOnSet(Assigned(e), all) \in Nat
        BY <4>1, <4>2, SumType
      <4> QED BY <4>3, Division, RewardConstants DEF ChainTotal, all
    <3>2. totals'[e] = totals[e] \/ totals'[e] = NoTotal
      BY <1>1, <1>7, <1>10 DEF DeleteTotal
    <3> QED BY <1>6, <3>1, <3>2 DEF NoTotal
  <2> QED BY <1>5, <1>8, <2>1, <2>2, SumsKeep
<1>11. CASE ReadMembers(c)
  <2>1. PICK n \in {[k EXCEPT !.pc = "fetch"], Finished(k)} :
          calculations' = [calculations EXCEPT ![c] = n]
    BY <1>1, <1>11 DEF ReadMembers
  <2>2. n \in Calculation /\ Grounded(n) /\ totals' = totals
    BY <1>3, <1>4, <1>5, <1>11, <2>1 DEF ReadMembers, rewardTables
  <2> QED BY <1>6, <1>8, <2>1, <2>2, SumsKeep
<1>12. CASE FetchSummary(c)
  <2> DEFINE p == MembersOf[k.epoch][k.next]
             row == Summary(performance, k.epoch, p)
  <2>1. k.next <= Len(MembersOf[k.epoch]) /\ totals' = totals
    BY <1>1, <1>12 DEF FetchSummary, rewardTables
  <2>2. p \in Participant
    BY <1>2, <2>1, Members DEF Calculation
  <2>3. row \in RewardRow /\ row.coins = Assigned(k.epoch)[p]
    <3>1. performance \in Performance
      BY DEF RewardsInv, RewardsTypeOK
    <3>2. row \in RewardRow
      BY <1>2, <2>2, <3>1, SummaryIsTruthful
    <3> QED BY <2>2, <3>2 DEF Assigned
  <2>4. PICK answers \in {{row}, {}} :
          calculations' = [calculations EXCEPT ![c] = Counted(k, answers)]
    BY <1>1, <1>12 DEF FetchSummary
  <2> HIDE DEF row
  <2>5. (IF answers = {} THEN 0 ELSE (CHOOSE r \in answers : TRUE).coins)
           \in {0, Assigned(k.epoch)[p]}
    BY <2>3, <2>4
  <2>6. Counted(k, answers) \in Calculation
    <3>1. /\ k.next + 1 \in Nat \ {0} /\ k.batch \cup answers \in SUBSET RewardRow
          /\ k.sum + (IF answers = {} THEN 0 ELSE (CHOOSE r \in answers : TRUE).coins)
                \in Nat
      BY <1>2, <2>2, <2>3, <2>4, <2>5, AssignedType DEF Calculation
    <3> QED BY <3>1 DEF Counted, Calculation
  <2>7. /\ Counted(k, answers).epoch = k.epoch
        /\ Counted(k, answers).next = k.next + 1
        /\ Counted(k, answers).sum = k.sum
             + (IF answers = {} THEN 0 ELSE (CHOOSE r \in answers : TRUE).coins)
    BY DEF Counted, Calculation
  <2>8. \/ Counted(k, answers).sum = k.sum
        \/ Counted(k, answers).sum = k.sum + Assigned(k.epoch)[p]
    BY <2>5, <2>7 DEF Calculation
  <2>9. Grounded(Counted(k, answers))
    BY <1>2, <2>1, <2>6, <2>7, <2>8, CountedIsGrounded
  <2> QED BY <1>6, <1>8, <2>1, <2>4, <2>6, <2>9, SumsKeep
<1>13. CASE CompareTotal(c)
  <2>1. PICK n \in {Finished(k), [k EXCEPT !.pc = "total"], [k EXCEPT !.pc = "rows"]} :
          calculations' = [calculations EXCEPT ![c] = n]
    BY <1>1, <1>13 DEF CompareTotal
  <2>2. n \in Calculation /\ Grounded(n) /\ totals' = totals
    BY <1>3, <1>4, <1>5, <1>13, <2>1 DEF CompareTotal, rewardTables
  <2> QED BY <1>6, <1>8, <2>1, <2>2, SumsKeep
<1>14. CASE SaveRows(c)
  <2>1. calculations' = [calculations EXCEPT ![c] = [k EXCEPT !.pc = "total"]]
        /\ totals' = totals
    BY <1>1, <1>14 DEF SaveRows
  <2> QED BY <1>5, <1>6, <1>8, <2>1, SumsKeep
<1>15. CASE SaveTotal(c)
  <2>1. calculations' = [calculations EXCEPT ![c] = Finished(k)]
        /\ totals' = [totals EXCEPT ![k.epoch] = k.sum \div UgnkPerGnk]
    BY <1>1, <1>15 DEF SaveTotal
  <2>2. k.sum \div UgnkPerGnk <= ChainTotal(k.epoch)
    BY <1>2, GroundedTotal
  <2>3. \A e \in RewardEpoch : totals'[e] <= ChainTotal(e)
    BY <1>6, <1>7, <2>1, <2>2
  <2> QED BY <1>3, <1>4, <1>8, <2>1, <2>3, SumsKeep
<1> QED BY <1>9, <1>10, <1>11, <1>12, <1>13, <1>14, <1>15 DEF CalculationStep

\* A poll or a visit starts from nothing, and so does a restarted process.
LEMMA StartsSums ==
    ASSUME RewardsInv, RewardsInv', SumsInv,
           \/ PollTotals
           \/ \E c \in Visits, e \in RewardEpoch : VisitEpoch(c, e)
           \/ RewardsRestart
    PROVE  SumsInv'
<1>1. \A e \in RewardEpoch : totals[e] <= ChainTotal(e)
  BY DEF SumsInv, TotalNeverOverstates
<1>2. UNCHANGED <<performance, totals>>
  BY DEF PollTotals, VisitEpoch, RewardsRestart, rewardChain, rewardTables
<1>3. ASSUME NEW c \in Calculator, NEW k, calculations' = [calculations EXCEPT ![c] = k],
             k.next = 1, k.sum = 0
      PROVE  SumsInv'
  <2>1. k \in Calculation
    <3>1. calculations'[c] = k
      BY <1>3 DEF RewardsInv, RewardsTypeOK
    <3>2. calculations' \in [Calculator -> Calculation]
      BY DEF RewardsInv, RewardsTypeOK
    <3> QED BY <3>1, <3>2
  <2> QED BY <1>1, <1>2, <1>3, <2>1, FreshIsGrounded, SumsKeep
<1>4. CASE PollTotals
  <2>1. TotalPoller \in Calculator
    BY DEF Calculator
  <2> DEFINE last == IF chainEpoch > TotalWindow THEN chainEpoch - TotalWindow ELSE 1
             k == [IdleCalculation EXCEPT !.pc = "look", !.heals = TRUE,
                                          !.epoch = chainEpoch - 1, !.last = last]
  <2>2. calculations' = [calculations EXCEPT ![TotalPoller] = k]
    BY <1>4 DEF PollTotals
  <2>3. k.next = 1 /\ k.sum = 0
    BY DEF IdleCalculation
  <2> HIDE DEF k
  <2> QED BY <1>3, <2>1, <2>2, <2>3
<1>5. ASSUME NEW c \in Visits, NEW e \in RewardEpoch, VisitEpoch(c, e)
      PROVE  SumsInv'
  <2>1. c \in Calculator
    BY DEF Calculator
  <2>2. PICK heals \in BOOLEAN :
          calculations' = [calculations EXCEPT ![c] =
              [IdleCalculation EXCEPT !.pc = "look", !.heals = heals,
                                      !.epoch = e, !.last = e]]
    BY <1>5 DEF VisitEpoch
  <2> DEFINE k == [IdleCalculation EXCEPT !.pc = "look", !.heals = heals,
                                          !.epoch = e, !.last = e]
  <2>3. k.next = 1 /\ k.sum = 0
    BY DEF IdleCalculation
  <2>4. calculations' = [calculations EXCEPT ![c] = k]
    BY <2>2
  <2> HIDE DEF k
  <2> QED BY <1>3, <2>1, <2>3, <2>4
<1>6. CASE RewardsRestart
  <2>1. calculations' = [c \in Calculator |-> IdleCalculation]
    BY <1>6 DEF RewardsRestart
  <2>2. Grounded(IdleCalculation) /\ IdleCalculation.epoch = 1
    BY IdleTyped, FinishedIsFresh DEF IdleCalculation
  <2>3. Assigned(1)' = Assigned(1)
    BY <1>2 DEF Assigned, Summary
  <2>4. ASSUME NEW c \in Calculator PROVE Grounded(calculations[c])'
    <3>1. PICK k : k = IdleCalculation
      OBVIOUS
    <3>2. Grounded(k) /\ k.epoch = 1 /\ calculations'[c] = k
      BY <2>1, <2>2, <3>1
    <3>3. Grounded(k)'
      BY <2>3, <3>2 DEF Grounded, Reached
    <3> QED BY <3>2, <3>3 DEF Grounded, Reached
  <2>5. TotalNeverOverstates'
    BY <1>1, <1>2 DEF TotalNeverOverstates, ChainTotal, Assigned, Summary
  <2> QED BY <2>4, <2>5 DEF SumsInv
<1> QED BY <1>4, <1>5, <1>6

LEMMA SumsInit == RewardsInit => SumsInv
<1> SUFFICES ASSUME RewardsInit PROVE SumsInv
  OBVIOUS
<1>1. Grounded(IdleCalculation)
  BY IdleTyped, FinishedIsFresh
<1>2. ASSUME NEW e \in RewardEpoch PROVE NoTotal <= ChainTotal(e)
  <2> DEFINE all == Range(MembersOf[e])
  <2>1. IsFiniteSet(all) /\ all \subseteq Participant
    BY MembersOnce
  <2>2. \A q \in all : Assigned(e)[q] \in Nat
    BY <2>1, RewardsInitInv, AssignedType
  <2> HIDE DEF all
  <2>3. SumFunctionOnSet(Assigned(e), all) \in Nat
    BY <2>1, <2>2, SumType
  <2>4. ChainTotal(e) \in Nat
    BY <2>3, Division, RewardConstants DEF ChainTotal, all
  <2> QED BY <2>4 DEF NoTotal
<1> QED BY <1>1, <1>2 DEF RewardsInit, SumsInv, TotalNeverOverstates

LEMMA SumsStep == RewardsInv /\ RewardsInv' /\ SumsInv /\ [RewardsNext]_rewardVars => SumsInv'
<1> SUFFICES ASSUME RewardsInv, RewardsInv', SumsInv, [RewardsNext]_rewardVars PROVE SumsInv'
  OBVIOUS
<1>1. TotalPoller \in Calculator /\ Visits \subseteq Calculator
  BY DEF Calculator
<1>2. ASSUME UNCHANGED <<calculations, totals, performance>> PROVE SumsInv'
  BY <1>2, MoreIsAssigned
<1>3. CASE VisitStep
  BY <1>1, <1>3, CalculationSums, StartsSums DEF VisitStep
<1>4. CASE EpochEnds
  BY <1>2, <1>4 DEF EpochEnds, rewardTables
<1>5. ASSUME NEW p \in Participant,
             ChainPays(p) \/ \E e \in RewardEpoch : ClaimReward(e, p)
      PROVE  SumsInv'
  <2>1. UNCHANGED <<calculations, totals>>
    BY <1>5 DEF ChainPays, Distribute, ClaimReward, rewardTables
  <2>2. performance \in Performance
    BY DEF RewardsInv, RewardsTypeOK
  <2>3. \A e \in RewardEpoch, q \in Participant :
           performance[e][q] # "none" => performance'[e][q] # "none"
    BY <1>5, <2>2 DEF ChainPays, Distribute, ClaimReward, Performance
  <2> QED BY <2>1, <2>3, MoreIsAssigned
<1>6. CASE TotalsNext
  <2>1. CASE CalculationStep(TotalPoller)
    BY <1>1, <2>1, CalculationSums
  <2> QED BY <1>3, <1>4, <1>5, <1>6, <2>1, StartsSums DEF TotalsNext
<1>7. ASSUME NEW p \in Participant, ClaimsNext(p) PROVE SumsInv'
  <2>1. CASE PollClaims \/ ClaimsStep
    BY <1>2, <2>1 DEF PollClaims, ClaimsStep, ClaimsEpoch, ScanClaim, SaveClaims,
       rewardChain, rewardTables
  <2>2. CASE PageStep \/ \E e \in RewardEpoch : OpenPage(p, e)
    BY <1>2, <2>2 DEF PageStep, PageAnswer, ClosePage, OpenPage, rewardChain, rewardTables
  <2> QED BY <1>3, <1>4, <1>5, <1>7, <2>1, <2>2, StartsSums DEF ClaimsNext
<1>8. CASE UNCHANGED rewardVars
  BY <1>2, <1>8 DEF rewardVars
<1> QED BY <1>6, <1>7, <1>8 DEF RewardsNext

\* A cached total may miss rewards, and never exceeds what the chain has
\* assigned the participants of its epoch: whatever partial sums, healed
\* zeros, stale writes and restarts there were.
THEOREM TotalsNeverOverstate == RewardsSpec => []TotalNeverOverstates
<1>1. RewardsSpec => []SumsInv
  BY RewardsInitInv, RewardsStepInv, SumsInit, SumsStep, PTL DEF RewardsSpec
<1>2. SumsInv => TotalNeverOverstates
  BY DEF SumsInv
<1> QED BY <1>1, <1>2, PTL

=============================================================================
