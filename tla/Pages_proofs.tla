---------------------------- MODULE Pages_proofs ----------------------------
(***************************************************************************)
(* For every number of members, models, nodes, overlapping calls and       *)
(* failing requests, every TTL and every bound of the clock: no            *)
(* confirmation rate is invented, the timeline given away from memory is   *)
(* fresh, a price and its figures come from one round, a ratio and a       *)
(* weight keep their epoch, an inference is filed as it ended.  Then the   *)
(* six pages together: each behaves as it does alone.                      *)
(***************************************************************************)
EXTENDS MCPages, FiniteLemmas, SequenceTheorems

-----------------------------------------------------------------------------
(***************************************************************************)
(* The weights                                                             *)
(***************************************************************************)

LEMMA RateConstants ==
    /\ IsFiniteSet(RateMembers) /\ IsFiniteSet(RateModels)
    /\ \A m \in RateModels, p \in RateMembers :
          /\ NodeWeights[m][p] \in Seq(Nat)
          /\ MemberWeight[m][p] \in Nat
    /\ \A m \in RateModels : Coefficient[m].num \in Nat /\ Coefficient[m].den \in Nat \ {0}
    /\ \A p \in RateMembers : ConfirmedWeight[p] \in Nat \cup {NoValue}
    /\ FoundRatios \subseteq Nat
    /\ RateDetails \in Nat /\ MaxRateFaults \in Nat
BY RatesAssumption

\* The nodes of a member in a subgroup: finitely many weights.
LEMMA NodesOf ==
    ASSUME NEW m \in RateModels, NEW p \in RateMembers
    PROVE  /\ IsFiniteSet(DOMAIN NodeWeights[m][p])
           /\ \A i \in DOMAIN NodeWeights[m][p] : NodeWeights[m][p][i] \in Nat
           /\ ~ InSubgroup(m, p) => DOMAIN NodeWeights[m][p] = {}
<1> DEFINE w == NodeWeights[m][p]
<1>1. w \in Seq(Nat)
  BY RateConstants
<1>2. ~ InSubgroup(m, p) => w = <<>>
  BY DEF InSubgroup
<1> HIDE DEF w
<1>3. Len(w) \in Nat /\ DOMAIN w = 1..Len(w) /\ \A i \in DOMAIN w : w[i] \in Nat
  BY <1>1
<1>4. IsFiniteSet(DOMAIN w)
  BY <1>3, FS_Interval
<1>5. w = <<>> => DOMAIN w = {}
  BY <1>3
<1> QED BY <1>2, <1>3, <1>4, <1>5 DEF w

LEMMA ScaleType ==
    ASSUME NEW m \in RateModels, NEW raw \in Nat
    PROVE  /\ ScaleWeight(m, raw) \in Nat
           /\ Coefficient[m].den * ScaleWeight(m, raw) <= Coefficient[m].num * raw
<1> DEFINE num == Coefficient[m].num
           den == Coefficient[m].den
<1>1. num \in Nat /\ den \in Nat \ {0}
  BY RateConstants
<1>2. ScaleWeight(m, raw) = (raw * num) \div den
  BY DEF ScaleWeight
<1> HIDE DEF num, den
<1>3. raw * num \in Nat /\ raw * num = num * raw
  BY <1>1, SMTT(30)
<1>4. (raw * num) \div den \in Nat
  BY <1>1, <1>3, Division
<1>5. den * ((raw * num) \div den) <= raw * num
  BY <1>1, <1>3, <1>4, QuotientFits
<1> QED BY <1>2, <1>3, <1>4, <1>5 DEF num, den

LEMMA RawType ==
    ASSUME NEW m \in RateModels, NEW p \in RateMembers
    PROVE  /\ RawWeight(m, p) \in Nat
           /\ SumFunction(NodeWeights[m][p]) \in Nat
<1>1. SumFunction(NodeWeights[m][p]) \in Nat
  BY NodesOf, SumType DEF SumFunction
<1>2. MemberWeight[m][p] \in Nat
  BY RateConstants
<1> QED BY <1>1, <1>2 DEF RawWeight

\* What a subgroup adds to the weight to confirm.
ModelWeight(p) == [m \in RateModels |-> ScaleWeight(m, RawWeight(m, p))]
Answering(answered, p) == {m \in answered : InSubgroup(m, p)}

LEMMA WeightIsSum ==
    ASSUME NEW p \in RateMembers, NEW answered \in SUBSET RateModels
    PROVE  /\ WeightToConfirm(answered, p)
                = SumFunctionOnSet(ModelWeight(p), Answering(answered, p))
           /\ \A m \in RateModels : ModelWeight(p)[m] \in Nat
           /\ IsFiniteSet(answered) /\ IsFiniteSet(Answering(answered, p))
           /\ Answering(answered, p) \subseteq answered
<1> DEFINE A == Answering(answered, p)
           g == [m \in A |-> ScaleWeight(m, RawWeight(m, p))]
           f == ModelWeight(p)
<1>1. IsFiniteSet(answered) /\ IsFiniteSet(A) /\ A \subseteq answered
  BY RateConstants, FS_Subset DEF Answering
<1>2. \A m \in RateModels : f[m] \in Nat /\ f[m] = ScaleWeight(m, RawWeight(m, p))
  BY RawType, ScaleType DEF ModelWeight
<1>3. WeightToConfirm(answered, p) = SumFunctionOnSet(g, A)
  BY DEF WeightToConfirm, SumFunction, Answering
<1>4. \A m \in A : g[m] = f[m] /\ f[m] \in Nat
  BY <1>1, <1>2
<1> HIDE DEF A, g, f
<1>5. SumFunctionOnSet(g, A) = SumFunctionOnSet(f, A)
  BY <1>1, <1>4, SumSame
<1> QED BY <1>1, <1>2, <1>3, <1>5 DEF A, f

\* A subgroup that does not answer can only make the weight smaller.
LEMMA WeightRises ==
    ASSUME NEW p \in RateMembers, NEW answered \in SUBSET RateModels
    PROVE  /\ WeightToConfirm(answered, p) \in Nat
           /\ WeightToConfirm(RateModels, p) \in Nat
           /\ WeightToConfirm(answered, p) <= WeightToConfirm(RateModels, p)
<1> DEFINE f == ModelWeight(p)
           A == Answering(answered, p)
           B == Answering(RateModels, p)
<1>1. /\ WeightToConfirm(answered, p) = SumFunctionOnSet(f, A)
      /\ WeightToConfirm(RateModels, p) = SumFunctionOnSet(f, B)
      /\ \A m \in RateModels : f[m] \in Nat
      /\ IsFiniteSet(A) /\ IsFiniteSet(B) /\ B \subseteq RateModels
  BY WeightIsSum
<1>2. A \in SUBSET B
  BY DEF Answering
<1> HIDE DEF f, A, B
<1>3. \A m \in B : f[m] \in Nat
  BY <1>1
<1>4. \A m \in A : f[m] <= f[m]
  BY <1>2, <1>3
<1>5. SumFunctionOnSet(f, A) <= SumFunctionOnSet(f, B)
  BY <1>1, <1>2, <1>3, <1>4, SumRises
<1>6. SumFunctionOnSet(f, A) \in Nat /\ SumFunctionOnSet(f, B) \in Nat
  BY <1>1, <1>2, <1>3, SumType
<1> QED BY <1>1, <1>5, <1>6

\* The weights of a member's nodes, each rounded down, never come to more
\* than the weight of the member, which is rounded down once.
LEMMA NodesBelowMember ==
    ASSUME NEW m \in RateModels, NEW p \in RateMembers
    PROVE  LET w == NodeWeights[m][p]
               g == [i \in DOMAIN w |-> ScaleWeight(m, w[i])]
           IN  /\ SumFunction(g) \in Nat
               /\ SumFunction(g) <= ScaleWeight(m, SumFunction(w))
<1> DEFINE w == NodeWeights[m][p]
           g == [i \in DOMAIN w |-> ScaleWeight(m, w[i])]
           num == Coefficient[m].num
           den == Coefficient[m].den
           D == DOMAIN w
<1>1. IsFiniteSet(D) /\ \A i \in D : w[i] \in Nat
  BY NodesOf
<1>2. \A i \in D : g[i] \in Nat /\ den * g[i] <= num * w[i]
  BY <1>1, ScaleType
<1>3. num \in Nat /\ den \in Nat \ {0}
  BY RateConstants
<1>4. SumFunction(g) = SumFunctionOnSet(g, D) /\ SumFunction(w) = SumFunctionOnSet(w, D)
  BY DEF SumFunction
<1>5. \A raw : ScaleWeight(m, raw) = (raw * num) \div den
  BY DEF ScaleWeight
<1> HIDE DEF w, g, num, den, D
<1>6. SumFunctionOnSet(g, D) \in Nat /\ SumFunctionOnSet(w, D) \in Nat
  BY <1>1, <1>2, SumType
<1>7. den * SumFunctionOnSet(g, D) <= num * SumFunctionOnSet(w, D)
  BY <1>1, <1>2, <1>3, SumScales
<1>8. SumFunctionOnSet(g, D) <= (SumFunctionOnSet(w, D) * num) \div den
  <2>1. \A x, y, n \in Nat, d \in Nat \ {0} : d * x <= n * y => x <= (y * n) \div d
    <3> TAKE x, y, n \in Nat, d \in Nat \ {0}
    <3>1. n * y = y * n /\ y * n \in Nat
      BY SMTT(30)
    <3> QED BY <3>1, QuotientFits
  <2> QED BY <1>3, <1>6, <1>7, <2>1
<1>9. /\ SumFunction(g) \in Nat
      /\ SumFunction(g) <= ScaleWeight(m, SumFunction(w))
  BY <1>4, <1>5, <1>6, <1>8
<1> QED BY <1>9 DEF w, g, D

LEMMA NodesBelowMembers ==
    ASSUME NEW p \in RateMembers, NEW answered \in SUBSET RateModels,
           scaleSource = "snapshot"
    PROVE  NodesWeight(answered, p) <= WeightToConfirm(answered, p)
<1> DEFINE g == [m \in answered |-> SumFunction(
                    [i \in DOMAIN NodeWeights[m][p] |-> ScaleWeight(m, NodeWeights[m][p][i])])]
           f == ModelWeight(p)
           A == Answering(answered, p)
<1>1. /\ WeightToConfirm(answered, p) = SumFunctionOnSet(f, A)
      /\ \A m \in RateModels : f[m] \in Nat
      /\ IsFiniteSet(answered) /\ IsFiniteSet(A) /\ A \subseteq answered
  BY WeightIsSum
<1>2. NodesWeight(answered, p) = SumFunctionOnSet(g, answered)
  BY DEF NodesWeight, SumFunction
<1>3. ASSUME NEW m \in answered PROVE g[m] \in Nat /\ g[m] <= f[m]
  <2>1. f[m] = ScaleWeight(m, SumFunction(NodeWeights[m][p]))
    BY DEF ModelWeight, RawWeight
  <2> QED BY <2>1, NodesBelowMember
<1>4. ASSUME NEW m \in answered \ A PROVE f[m] = 0
  <2>1. DOMAIN NodeWeights[m][p] = {}
    BY NodesOf DEF Answering
  <2>2. SumFunction(NodeWeights[m][p]) = 0
    BY <2>1, FS_EmptySet, SumUnfolds DEF SumFunction
  <2>3. f[m] = ScaleWeight(m, 0)
    BY <2>2 DEF ModelWeight, RawWeight
  <2>4. Coefficient[m].num \in Nat /\ Coefficient[m].den \in Nat \ {0}
    BY RateConstants
  <2>5. Coefficient[m].den * f[m] <= Coefficient[m].num * 0 /\ f[m] \in Nat
    BY <2>3, ScaleType
  <2>6. \A d \in Nat \ {0}, x \in Nat : d * x <= 0 => x = 0
    BY SMTT(30)
  <2> QED BY <2>4, <2>5, <2>6
<1> HIDE DEF g, f, A
<1>5. SumFunctionOnSet(f, answered) = SumFunctionOnSet(f, A)
  BY <1>1, <1>4, SumZeros
<1>6. SumFunctionOnSet(g, answered) <= SumFunctionOnSet(f, answered)
  BY <1>1, <1>3, SumRises
<1> QED BY <1>1, <1>2, <1>5, <1>6

\* An estimate is a rate, and the more weight there is to confirm the lower.
LEMMA EstimateFalls ==
    ASSUME NEW confirmed \in Nat, NEW v \in Nat \ {0}, NEW w \in Nat, v <= w
    PROVE  /\ Estimate(confirmed, v) \in RateValue
           /\ Estimate(confirmed, w) <= Estimate(confirmed, v)
<1> DEFINE a == confirmed * 1000000
<1>1. a \in Nat
  OBVIOUS
<1>2. v * 909 \in Nat \ {0} /\ w * 909 \in Nat \ {0} /\ v * 909 <= w * 909
  OBVIOUS
<1>3. Estimate(confirmed, v) = AtMostOne(a \div (v * 909))
      /\ Estimate(confirmed, w) = AtMostOne(a \div (w * 909))
  BY DEF Estimate
<1> HIDE DEF a
<1>4. a \div (v * 909) \in Nat /\ a \div (w * 909) \in Nat
  BY <1>1, <1>2, Division
<1>5. a \div (w * 909) <= a \div (v * 909)
  <2> DEFINE b == v * 909
             c == w * 909
  <2>1. b \in Nat \ {0} /\ c \in Nat \ {0} /\ b <= c
    BY <1>2
  <2> HIDE DEF b, c
  <2>2. a \div c <= a \div b
    BY <1>1, <2>1, QuotientFalls
  <2> QED BY <2>2 DEF b, c
<1>6. \A x, y \in Nat : x <= y => AtMostOne(x) <= AtMostOne(y) /\ AtMostOne(y) \in 0..1000
  BY DEF AtMostOne
<1> QED BY <1>3, <1>4, <1>5, <1>6 DEF RateValue

-----------------------------------------------------------------------------
(***************************************************************************)
(* The rates                                                               *)
(***************************************************************************)

\* What may be said of a member at any place.
GoodRate(p, r) ==
    /\ r \in Rate
    /\ r.state = "confirmed" =>
          /\ rateChain[p].ratio # NoValue
          /\ r.value = AtMostOne(rateChain[p].ratio)
    /\ r.state = "estimate" =>
          r.value >= Estimate(ConfirmedWeight[p], WeightToConfirm(RateModels, p))

\* A ratio that is known is the chain's, capped or not yet.
GoodRatio(p, x) ==
    x # NoValue => /\ rateChain[p].ratio # NoValue
                   /\ x \in {rateChain[p].ratio, AtMostOne(rateChain[p].ratio)}

GoodPage(g) == g \in Page => \A p \in RateMembers : GoodRate(p, g[p].rate)
GoodSight(t) == t \in Truths => \A p \in RateMembers : GoodRatio(p, t[p].ratio)

\* The page in memory holds nothing else, and nothing else is on its way.
RatesInv ==
    /\ RatesTypeOK
    /\ pageBuild.pc # "idle" => pageBuild.page \in Page
    /\ detail.pc # "idle" => ratePage \in Page
    /\ GoodPage(ratePage) /\ GoodPage(pageBuild.page) /\ GoodSight(ratePoll)
    /\ \A p \in RateMembers : GoodRatio(p, rateRows[p].ratio)

\* Where every rate comes from.
LEMMA RateIsGood ==
    ASSUME RatesTypeOK, NEW p \in RateMembers, NEW status, NEW ratio \in Nat \cup {NoValue},
           GoodRatio(p, ratio), NEW answered \in SUBSET RateModels, NEW member \in BOOLEAN
    PROVE  GoodRate(p, RateOf(status, ratio, ConfirmedWeight[p],
                              WeightToConfirm(answered, p), member))
<1> DEFINE c == ConfirmedWeight[p]
           v == WeightToConfirm(answered, p)
           w == WeightToConfirm(RateModels, p)
           r == RateOf(status, ratio, c, v, member)
<1>1. c \in Nat \cup {NoValue} /\ v \in Nat /\ w \in Nat /\ v <= w
  BY RateConstants, WeightRises
<1>2. rateChain[p].ratio \in Nat \cup {NoValue}
  BY DEF RatesTypeOK, Truths
<1> HIDE DEF c, v, w
<1>3. CASE ratio # NoValue
  <2>1. r = [state |-> "confirmed", value |-> AtMostOne(ratio)]
    BY <1>3 DEF RateOf
  <2>2. /\ rateChain[p].ratio # NoValue
        /\ ratio \in {rateChain[p].ratio, AtMostOne(rateChain[p].ratio)}
    BY <1>3 DEF GoodRatio
  <2>3. AtMostOne(ratio) = AtMostOne(rateChain[p].ratio) /\ AtMostOne(ratio) \in RateValue
    BY <1>2, <1>3, <2>2 DEF AtMostOne, RateValue, NoValue
  <2>4. r \in Rate
    BY <2>1, <2>3 DEF Rate
  <2> QED BY <2>1, <2>2, <2>3, <2>4 DEF GoodRate, c, v
<1>4. CASE ratio = NoValue /\ ~ (status = "INACTIVE") /\ member /\ c # NoValue /\ v > 0
  <2>1. r = [state |-> "estimate", value |-> Estimate(c, v)]
    BY <1>4 DEF RateOf
  <2>2. Estimate(c, v) \in RateValue /\ Estimate(c, w) <= Estimate(c, v)
    BY <1>1, <1>4, EstimateFalls
  <2>3. r \in Rate
    BY <2>1, <2>2 DEF Rate
  <2>4. Estimate(c, w) \in Int
    <3>1. w \in Nat \ {0} /\ c \in Nat /\ w <= w
      BY <1>1, <1>4
    <3>2. Estimate(c, w) \in RateValue
      BY <3>1, EstimateFalls
    <3> QED BY <3>2 DEF RateValue
  <2>5. r.state = "estimate" /\ r.value >= Estimate(c, w)
    BY <2>1, <2>2, <2>4 DEF RateValue
  <2> QED BY <2>3, <2>5 DEF GoodRate, c, v, w
<1>5. CASE ratio = NoValue /\ (status = "INACTIVE" \/ ~ (member /\ c # NoValue /\ v > 0))
  <2>1. \/ r = [state |-> "inactive", value |-> NoValue]
        \/ r = [state |-> "unknown", value |-> NoValue]
    BY <1>5 DEF RateOf
  <2>2. r \in Rate
    BY <2>1 DEF Rate
  <2>3. r.state # "confirmed" /\ r.state # "estimate"
    BY <2>1
  <2> QED BY <2>2, <2>3 DEF GoodRate, c, v
<1> QED BY <1>3, <1>4, <1>5

\* While the chain and its scales stay, what is good stays good.
LEMMA GoodStays ==
    ASSUME UNCHANGED <<scaleSource, rateChain>>
    PROVE  /\ \A p, r : GoodRate(p, r)' <=> GoodRate(p, r)
           /\ \A p, x : GoodRatio(p, x)' <=> GoodRatio(p, x)
<1>1. \A p : WeightToConfirm(RateModels, p)' = WeightToConfirm(RateModels, p)
  BY DEF WeightToConfirm, RawWeight
<1> QED BY <1>1 DEF GoodRate, GoodRatio

LEMMA RateFaultCounts ==
    ASSUME RatesTypeOK, NEW k \in Nat, RateFaults(k)
    PROVE  rateFaults' \in 0..MaxRateFaults
<1>1. rateFaults \in 0..MaxRateFaults /\ MaxRateFaults \in Nat
  BY RateConstants DEF RatesTypeOK
<1> QED BY <1>1 DEF RateFaults

LEMMA SubgroupFaults ==
    ASSUME RatesTypeOK, NEW answered \in SUBSET RateModels, SubgroupsAnswer(answered)
    PROVE  rateFaults' \in 0..MaxRateFaults
<1>1. IsFiniteSet(RateModels \ answered)
  BY RateConstants, FS_Subset
<1>2. Cardinality(RateModels \ answered) \in Nat
  BY <1>1, FS_CardinalityType
<1> QED BY <1>2, RateFaultCounts DEF SubgroupsAnswer

\* What a step of the service may change, with the chain as it is.
LEMMA RatesKeep ==
    ASSUME RatesInv, UNCHANGED <<scaleSource, rateChain>>,
           rateRows' \in [RateMembers -> {NotStored} \cup
               [status : MemberStatus \cup {""}, ratio : Nat \cup {NoValue}]],
           \A p \in RateMembers : GoodRatio(p, rateRows'[p].ratio),
           ratePoll' \in Truths \cup {NoSight}, GoodSight(ratePoll'),
           ratePage' \in Page \cup {NoPage}, GoodPage(ratePage'),
           pageBuild' \in [pc : {"idle", "merge", "publish"}, page : Page \cup {NoPage}],
           GoodPage(pageBuild'.page),
           pageBuild'.pc # "idle" => pageBuild'.page \in Page,
           detail' \in [pc : {"idle", "weights", "ratio"}, who : RateMembers \cup {"none"},
                        shared : BOOLEAN, member : BOOLEAN, left : 0..RateDetails],
           detail'.pc # "idle" => detail'.who \in RateMembers /\ ratePage' \in Page,
           rateFaults' \in 0..MaxRateFaults
    PROVE  RatesInv'
<1>1. RatesTypeOK'
  <2>1. scaleSource \in {"snapshot", "params"} /\ rateChain \in Truths
    BY DEF RatesInv, RatesTypeOK
  <2> QED BY <2>1 DEF RatesTypeOK, Truths, Page, Participant, Rate, NotStored, NoSight, NoPage
<1>2. /\ \A p, r : GoodRate(p, r)' <=> GoodRate(p, r)
      /\ \A p, x : GoodRatio(p, x)' <=> GoodRatio(p, x)
  BY GoodStays
<1>3. GoodPage(ratePage)' /\ GoodPage(pageBuild.page)' /\ GoodSight(ratePoll)'
  BY <1>2 DEF GoodPage, GoodSight
<1>4. \A p \in RateMembers : GoodRatio(p, rateRows[p].ratio)'
  BY <1>2
<1> QED BY <1>1, <1>3, <1>4 DEF RatesInv

\* The chain finds a ratio, which nothing could have said before, or gives a
\* member up.
LEMMA ChainRates ==
    ASSUME RatesInv,
           \/ \E p \in RateMembers, ratio \in FoundRatios : FindRatio(p, ratio)
           \/ \E p \in RateMembers : Deactivate(p)
    PROVE  RatesInv'
<1>1. rateChain \in Truths
  BY DEF RatesInv, RatesTypeOK
<1>2. UNCHANGED <<scaleSource, rateRows, ratePoll, ratePage, pageBuild, detail, rateFaults>>
  BY DEF FindRatio, Deactivate
<1>3. /\ rateChain' \in Truths
      /\ \A q \in RateMembers :
            rateChain[q].ratio # NoValue => rateChain'[q].ratio = rateChain[q].ratio
  <2>1. ASSUME NEW p \in RateMembers, NEW ratio \in FoundRatios, FindRatio(p, ratio)
        PROVE  <1>3
    <3>1. ratio \in Nat
      BY RateConstants
    <3>2. [rateChain[p] EXCEPT !.ratio = ratio]
            \in [status : MemberStatus, ratio : Nat \cup {NoValue}]
      BY <1>1, <3>1 DEF Truths
    <3>3. rateChain' = [rateChain EXCEPT ![p] = [rateChain[p] EXCEPT !.ratio = ratio]]
          /\ rateChain[p].ratio = NoValue
      BY <2>1 DEF FindRatio
    <3> QED BY <1>1, <3>2, <3>3 DEF Truths
  <2>2. ASSUME NEW p \in RateMembers, Deactivate(p) PROVE <1>3
    <3>1. [rateChain[p] EXCEPT !.status = "INACTIVE"]
            \in [status : MemberStatus, ratio : Nat \cup {NoValue}]
          /\ [rateChain[p] EXCEPT !.status = "INACTIVE"].ratio = rateChain[p].ratio
      BY <1>1 DEF Truths, MemberStatus
    <3>2. rateChain' = [rateChain EXCEPT ![p] = [rateChain[p] EXCEPT !.status = "INACTIVE"]]
      BY <2>2 DEF Deactivate
    <3> QED BY <1>1, <3>1, <3>2 DEF Truths
  <2> QED BY <2>1, <2>2
<1>4. \A p : WeightToConfirm(RateModels, p)' = WeightToConfirm(RateModels, p)
  BY <1>2 DEF WeightToConfirm, RawWeight
<1>5. \A p \in RateMembers : \A r : GoodRate(p, r) => GoodRate(p, r)'
  BY <1>3, <1>4 DEF GoodRate
<1>6. \A p \in RateMembers : \A x : GoodRatio(p, x) => GoodRatio(p, x)'
  BY <1>3 DEF GoodRatio
<1>7. GoodPage(ratePage)' /\ GoodPage(pageBuild.page)' /\ GoodSight(ratePoll)'
  BY <1>2, <1>5, <1>6 DEF GoodPage, GoodSight, RatesInv
<1>8. \A p \in RateMembers : GoodRatio(p, rateRows[p].ratio)'
  BY <1>2, <1>6 DEF RatesInv
<1>9. RatesTypeOK'
  BY <1>2, <1>3 DEF RatesInv, RatesTypeOK, Page, Participant, Rate, Truths
<1> QED BY <1>2, <1>7, <1>8, <1>9 DEF RatesInv

\* The poller: what it has read is the chain's, and so is what it stores.
LEMMA PollerRates ==
    ASSUME RatesInv, RatesPollStep \/ PollRatesFails
    PROVE  RatesInv'
<1> DEFINE Row == {NotStored} \cup [status : MemberStatus \cup {""}, ratio : Nat \cup {NoValue}]
<1>1. /\ rateChain \in Truths /\ ratePoll \in Truths \cup {NoSight}
      /\ rateRows \in [RateMembers -> Row] /\ rateFaults \in 0..MaxRateFaults
      /\ ratePage \in Page \cup {NoPage}
      /\ pageBuild \in [pc : {"idle", "merge", "publish"}, page : Page \cup {NoPage}]
      /\ detail \in [pc : {"idle", "weights", "ratio"}, who : RateMembers \cup {"none"},
                     shared : BOOLEAN, member : BOOLEAN, left : 0..RateDetails]
      /\ detail.pc # "idle" => detail.who \in RateMembers /\ ratePage \in Page
      /\ GoodPage(ratePage) /\ GoodPage(pageBuild.page) /\ GoodSight(ratePoll)
      /\ pageBuild.pc # "idle" => pageBuild.page \in Page
      /\ \A p \in RateMembers : GoodRatio(p, rateRows[p].ratio)
  BY DEF RatesInv, RatesTypeOK
<1>2. UNCHANGED <<scaleSource, rateChain, ratePage, pageBuild, detail>>
  BY DEF RatesPollStep, PollRates, SaveRates, PollRatesFails
<1>3. NoSight \in Truths => RateMembers = {}
  BY DEF NoSight, Truths
<1>4. GoodSight(NoSight)
  BY <1>3 DEF GoodSight
<1>5. CASE PollRates
  <2>1. GoodSight(rateChain)
    BY DEF GoodSight, GoodRatio
  <2>2. ratePoll' = rateChain /\ UNCHANGED <<rateRows, rateFaults>>
    BY <1>5 DEF PollRates
  <2> QED BY <1>1, <1>2, <2>1, <2>2, RatesKeep
<1>6. CASE PollRatesFails
  <2>1. rateFaults' \in 0..MaxRateFaults
    BY <1>6, RateFaultCounts DEF PollRatesFails, RatesInv
  <2>2. ratePoll' = NoSight /\ UNCHANGED rateRows
    BY <1>6 DEF PollRatesFails
  <2> QED BY <1>1, <1>2, <1>4, <2>1, <2>2, RatesKeep
<1>7. ASSUME NEW failed \in SUBSET RateMembers, SaveRates(failed)
      PROVE  RatesInv'
  <2>1. ratePoll \in Truths /\ ratePoll' = NoSight
        /\ rateRows' = [p \in RateMembers |-> RateRow(p, p \notin failed)]
    BY <1>1, <1>7 DEF SaveRates
  <2>2. rateFaults' \in 0..MaxRateFaults
    <3>1. IsFiniteSet(failed)
      BY RateConstants, FS_Subset
    <3>2. Cardinality(failed) \in Nat
      BY <3>1, FS_CardinalityType
    <3> QED BY <1>7, <3>2, RateFaultCounts DEF SaveRates, RatesInv
  <2>3. ASSUME NEW p \in RateMembers
        PROVE  /\ RateRow(p, p \notin failed) \in Row
               /\ GoodRatio(p, RateRow(p, p \notin failed).ratio)
    <3> DEFINE x == ratePoll[p].ratio
    <3>1. x \in Nat \cup {NoValue} /\ ratePoll[p].status \in MemberStatus /\ GoodRatio(p, x)
      BY <1>1, <2>1 DEF Truths, GoodSight
    <3>2. rateChain[p].ratio \in Nat \cup {NoValue}
      BY <1>1 DEF Truths
    <3> HIDE DEF x
    <3>3. AtMostOne(x) \in Nat \cup {NoValue}
      BY <3>1 DEF AtMostOne, NoValue
    <3>4. GoodRatio(p, AtMostOne(x)) /\ GoodRatio(p, NoValue)
      BY <3>1, <3>2 DEF GoodRatio, AtMostOne, NoValue
    <3>5. CASE p \in failed
      BY <3>4, <3>5 DEF RateRow
    <3>6. CASE p \notin failed
      BY <3>1, <3>3, <3>4, <3>6 DEF RateRow, x
    <3> QED BY <3>5, <3>6
  <2>4. rateRows' \in [RateMembers -> Row]
        /\ \A p \in RateMembers : GoodRatio(p, rateRows'[p].ratio)
    <3> HIDE DEF Row
    <3> QED BY <2>1, <2>3
  <2> QED BY <1>1, <1>2, <1>4, <2>1, <2>2, <2>4, RatesKeep
<1> QED BY <1>5, <1>6, <1>7 DEF RatesPollStep

\* The typing and the grounds, as every step needs them.
LEMMA RatesParts ==
    ASSUME RatesInv
    PROVE  /\ rateChain \in Truths /\ ratePoll \in Truths \cup {NoSight}
           /\ rateRows \in [RateMembers -> {NotStored} \cup
                 [status : MemberStatus \cup {""}, ratio : Nat \cup {NoValue}]]
           /\ rateFaults \in 0..MaxRateFaults
           /\ ratePage \in Page \cup {NoPage}
           /\ pageBuild \in [pc : {"idle", "merge", "publish"}, page : Page \cup {NoPage}]
           /\ detail \in [pc : {"idle", "weights", "ratio"}, who : RateMembers \cup {"none"},
                          shared : BOOLEAN, member : BOOLEAN, left : 0..RateDetails]
           /\ detail.pc # "idle" => detail.who \in RateMembers /\ ratePage \in Page
           /\ GoodPage(ratePage) /\ GoodPage(pageBuild.page) /\ GoodSight(ratePoll)
           /\ pageBuild.pc # "idle" => pageBuild.page \in Page
           /\ \A p \in RateMembers : GoodRatio(p, rateRows[p].ratio)
           /\ GoodPage(NoPage)
<1>1. NoPage \in Page => RateMembers = {}
  BY DEF NoPage, Page
<1>2. GoodPage(NoPage)
  BY <1>1 DEF GoodPage
<1> QED BY <1>2 DEF RatesInv, RatesTypeOK

\* A participant object of which only the status told and the rate change.
LEMMA PatchedIsGood ==
    ASSUME RatesTypeOK, NEW p \in RateMembers, NEW s \in Participant,
           NEW answered \in SUBSET RateModels, NEW told \in MemberStatus \cup {""},
           NEW status, NEW ratio \in Nat \cup {NoValue}, GoodRatio(p, ratio),
           NEW weighed \in SUBSET RateModels, NEW member \in BOOLEAN
    PROVE  LET r == RateOf(status, ratio, ConfirmedWeight[p],
                           WeightToConfirm(weighed, p), member)
               n == [s EXCEPT !.answered = answered, !.told = told, !.rate = r]
           IN  n \in Participant /\ GoodRate(p, n.rate)
<1> DEFINE r == RateOf(status, ratio, ConfirmedWeight[p],
                       WeightToConfirm(weighed, p), member)
           n == [s EXCEPT !.answered = answered, !.told = told, !.rate = r]
<1>1. GoodRate(p, r) /\ r \in Rate
  BY RateIsGood DEF GoodRate
<1> HIDE DEF r
<1>2. n \in Participant /\ n.rate = r
  BY <1>1 DEF Participant
<1> QED BY <1>1, <1>2 DEF r

\* The ratio that a page's object shows was the chain's.
LEMMA ShownRatio ==
    ASSUME RatesTypeOK, NEW p \in RateMembers, NEW s \in Participant, GoodRate(p, s.rate)
    PROVE  GoodRatio(p, ChainRatioOf(s)) /\ ChainRatioOf(s) \in Nat \cup {NoValue}
<1>1. rateChain[p].ratio \in Nat \cup {NoValue}
  BY DEF RatesTypeOK, Truths
<1>2. CASE s.rate.state = "confirmed"
  <2>1. ChainRatioOf(s) = AtMostOne(rateChain[p].ratio) /\ rateChain[p].ratio # NoValue
    BY <1>2 DEF ChainRatioOf, GoodRate
  <2> QED BY <1>1, <2>1 DEF GoodRatio, AtMostOne
<1>3. CASE s.rate.state # "confirmed"
  BY <1>3 DEF ChainRatioOf, GoodRatio
<1> QED BY <1>2, <1>3

LEMMA MergedIsGood ==
    ASSUME RatesInv, NEW p \in RateMembers, NEW s \in Participant, GoodRate(p, s.rate)
    PROVE  Merged(p, s) \in Participant /\ GoodRate(p, Merged(p, s).rate)
<1> DEFINE row   == rateRows[p]
           told  == IF row = NotStored THEN s.told ELSE row.status
           ratio == IF row = NotStored THEN ChainRatioOf(s) ELSE Preferred(row, s)
           status == KnownStatus([s EXCEPT !.told = told])
           r == RateOf(status, ratio, ConfirmedWeight[p], WeightToConfirm(s.answered, p), TRUE)
<1>1. /\ row \in {NotStored} \cup [status : MemberStatus \cup {""}, ratio : Nat \cup {NoValue}]
      /\ GoodRatio(p, row.ratio)
  BY RatesParts
<1>2. GoodRatio(p, ChainRatioOf(s)) /\ ChainRatioOf(s) \in Nat \cup {NoValue}
  BY ShownRatio DEF RatesInv
<1>3. ratio \in Nat \cup {NoValue} /\ GoodRatio(p, ratio)
  BY <1>1, <1>2 DEF Preferred
<1>4. told \in MemberStatus \cup {""} /\ s.answered \in SUBSET RateModels
  BY <1>1 DEF Participant
<1>5. Merged(p, s) = [s EXCEPT !.told = told, !.rate = r]
  BY DEF Merged
<1> HIDE DEF row, told, ratio, status
<1>6. GoodRate(p, r) /\ r \in Rate
  BY <1>3, <1>4, RateIsGood DEF GoodRate, RatesInv
<1> HIDE DEF r
<1>7. [s EXCEPT !.told = told, !.rate = r] \in Participant
      /\ [s EXCEPT !.told = told, !.rate = r].rate = r
  BY <1>4, <1>6 DEF Participant
<1> QED BY <1>5, <1>6, <1>7

\* The page of the epoch, from its own answers and the poller's rows.
LEMMA BuiltRates ==
    ASSUME RatesInv, PageStep \/ BuildFails
    PROVE  RatesInv'
<1> USE RatesParts
<1>1. CASE BuildFails
  <2>1. rateFaults' \in 0..MaxRateFaults
    BY <1>1, RateFaultCounts DEF BuildFails, RatesInv
  <2>2. pageBuild' = [pc |-> "idle", page |-> NoPage]
        /\ UNCHANGED <<scaleSource, rateChain, rateRows, ratePoll, ratePage, detail>>
    BY <1>1 DEF BuildFails
  <2> QED BY <2>1, <2>2, RatesKeep
<1>2. ASSUME NEW answered \in SUBSET RateModels, BuildPage(answered)
      PROVE  RatesInv'
  <2> DEFINE Built(p) ==
               LET t == rateChain[p] IN
               [own |-> t.status, told |-> t.status, answered |-> answered,
                rate |-> RateOf(t.status, t.ratio, ConfirmedWeight[p],
                                WeightToConfirm(answered, p), TRUE)]
             g == [p \in RateMembers |-> Built(p)]
  <2>1. ASSUME NEW p \in RateMembers PROVE Built(p) \in Participant /\ GoodRate(p, Built(p).rate)
    <3> DEFINE r == RateOf(rateChain[p].status, rateChain[p].ratio, ConfirmedWeight[p],
                           WeightToConfirm(answered, p), TRUE)
    <3>1. rateChain[p].status \in MemberStatus /\ rateChain[p].ratio \in Nat \cup {NoValue}
      BY DEF Truths
    <3>2. GoodRatio(p, rateChain[p].ratio)
      BY DEF GoodRatio
    <3>3. GoodRate(p, r) /\ r \in Rate
      <4> HIDE RatesParts
      <4>1. RatesTypeOK
        BY DEF RatesInv
      <4>2. GoodRate(p, r)
        BY <3>1, <3>2, <4>1, RateIsGood
      <4> QED BY <4>2 DEF GoodRate
    <3> HIDE DEF r
    <3>4. Built(p) = [own |-> rateChain[p].status, told |-> rateChain[p].status,
                      answered |-> answered, rate |-> r]
      BY DEF r
    <3> QED BY <3>1, <3>3, <3>4 DEF Participant
  <2>2. g \in Page /\ GoodPage(g)
    <3> HIDE DEF Built
    <3>1. g \in Page
      BY <2>1 DEF Page
    <3>2. \A p \in RateMembers : GoodRate(p, g[p].rate)
      BY <2>1
    <3> QED BY <3>1, <3>2 DEF GoodPage
  <2>3. pageBuild' = [pc |-> "merge", page |-> g]
        /\ UNCHANGED <<scaleSource, rateChain, rateRows, ratePoll, ratePage, detail>>
    BY <1>2 DEF BuildPage
  <2>4. rateFaults' \in 0..MaxRateFaults
    BY <1>2, SubgroupFaults DEF BuildPage, RatesInv
  <2> HIDE DEF g
  <2> QED BY <2>2, <2>3, <2>4, RatesKeep
<1>3. CASE MergeRates
  <2> DEFINE g == [p \in RateMembers |-> Merged(p, pageBuild.page[p])]
  <2>1. pageBuild.page \in Page /\ GoodPage(pageBuild.page)
    BY <1>3 DEF MergeRates
  <2>2. ASSUME NEW p \in RateMembers
        PROVE  /\ Merged(p, pageBuild.page[p]) \in Participant
               /\ GoodRate(p, Merged(p, pageBuild.page[p]).rate)
    <3>1. pageBuild.page[p] \in Participant /\ GoodRate(p, pageBuild.page[p].rate)
      BY <2>1 DEF Page, GoodPage
    <3> QED BY <3>1, MergedIsGood
  <2>3. g \in Page /\ GoodPage(g)
    BY <2>2 DEF Page, GoodPage
  <2>4. pageBuild' = [pc |-> "publish", page |-> g]
        /\ UNCHANGED <<scaleSource, rateChain, rateRows, ratePoll, ratePage, detail, rateFaults>>
    BY <1>3 DEF MergeRates
  <2> HIDE DEF g
  <2> QED BY <2>3, <2>4, RatesKeep
<1>4. CASE PublishRates
  <2>1. ratePage' \in Page /\ GoodPage(ratePage')
    BY <1>4 DEF PublishRates
  <2>2. pageBuild' = [pc |-> "idle", page |-> NoPage]
        /\ UNCHANGED <<scaleSource, rateChain, rateRows, ratePoll, rateFaults>>
    BY <1>4 DEF PublishRates
  <2>3. /\ detail' \in [pc : {"idle", "weights", "ratio"}, who : RateMembers \cup {"none"},
                        shared : BOOLEAN, member : BOOLEAN, left : 0..RateDetails]
        /\ detail'.pc = detail.pc /\ detail'.who = detail.who
    BY <1>4 DEF PublishRates
  <2> QED BY <2>1, <2>2, <2>3, RatesKeep
<1> QED BY <1>1, <1>2, <1>3, <1>4 DEF PageStep

\* What a detail request assigns to the object that the page serves.
LEMMA AssignedIsGood ==
    ASSUME RatesInv, detail.pc # "idle", NEW s \in Participant,
           GoodRate(detail.who, s.rate), Assign(s)
    PROVE  ratePage' \in Page /\ GoodPage(ratePage')
<1>1. detail.who \in RateMembers /\ ratePage \in Page /\ GoodPage(ratePage)
  BY RatesParts
<1>2. ratePage' = ratePage \/ ratePage' = [ratePage EXCEPT ![detail.who] = s]
  BY DEF Assign
<1>3. ratePage' \in Page
  BY <1>1, <1>2 DEF Page
<1>4. \A p \in RateMembers : ratePage'[p] = ratePage[p] \/ (p = detail.who /\ ratePage'[p] = s)
  BY <1>1, <1>2 DEF Page
<1> QED BY <1>1, <1>3, <1>4 DEF GoodPage

\* The details of a participant, worked out on the page's own object.
LEMMA DetailRates ==
    ASSUME RatesInv,
           DetailStep \/ DetailWeightsFail \/ \E p \in RateMembers : StartDetail(p)
    PROVE  RatesInv'
<1> DEFINE Request == [pc : {"idle", "weights", "ratio"}, who : RateMembers \cup {"none"},
                       shared : BOOLEAN, member : BOOLEAN, left : 0..RateDetails]
<1> USE RatesParts
<1>1. UNCHANGED <<scaleSource, rateChain, rateRows, ratePoll, pageBuild>>
  BY DEF DetailStep, DetailWeights, DetailRatio, DetailWeightsFail, StartDetail
<1>2. ASSUME NEW p \in RateMembers, StartDetail(p)
      PROVE  RatesInv'
  <2>1. ratePage \in Page /\ UNCHANGED <<ratePage, rateFaults>>
    BY <1>2 DEF StartDetail
  <2>2. detail.left - 1 \in 0..RateDetails
    <3> HIDE RatesParts
    <3>1. RateDetails \in Nat /\ detail.left \in 0..RateDetails /\ detail.left > 0
      BY <1>2, RatesParts, RateConstants DEF StartDetail
    <3>2. \A n \in Nat : \A l \in 0..n : l > 0 => l - 1 \in 0..n
      OBVIOUS
    <3> QED BY <3>1, <3>2
  <2>3. detail' \in Request /\ detail'.who = p
    BY <1>2, <2>2 DEF StartDetail
  <2> QED BY <1>1, <2>1, <2>3, RatesKeep
<1>3. CASE DetailWeightsFail
  <2>1. rateFaults' \in 0..MaxRateFaults
    BY <1>3, RateFaultCounts DEF DetailWeightsFail, RatesInv
  <2>2. detail' \in Request /\ detail'.who = detail.who /\ detail.pc # "idle"
        /\ UNCHANGED ratePage
    BY <1>3 DEF DetailWeightsFail
  <2> QED BY <1>1, <2>1, <2>2, RatesKeep
<1>4. ASSUME NEW answered \in SUBSET RateModels, DetailWeights(answered)
      PROVE  RatesInv'
  <2> DEFINE p == detail.who
             s == ratePage[p]
             n == [s EXCEPT !.answered = answered,
                     !.rate = RateOf(KnownStatus(s), NoValue, ConfirmedWeight[p],
                                     WeightToConfirm(answered, p), TRUE)]
  <2>1. detail.pc # "idle" /\ p \in RateMembers /\ ratePage \in Page /\ s \in Participant
    BY <1>4 DEF DetailWeights, Page
  <2>2. n \in Participant /\ GoodRate(p, n.rate)
    <3> DEFINE r == RateOf(KnownStatus(s), NoValue, ConfirmedWeight[p],
                           WeightToConfirm(answered, p), TRUE)
    <3>1. GoodRate(p, r) /\ r \in Rate
      <4> HIDE RatesParts
      <4>1. RatesTypeOK /\ GoodRatio(p, NoValue)
        BY DEF RatesInv, GoodRatio
      <4>2. GoodRate(p, r)
        BY <2>1, <4>1, RateIsGood
      <4> QED BY <4>2 DEF GoodRate
    <3> HIDE DEF r
    <3>2. [s EXCEPT !.answered = answered, !.rate = r] \in Participant
          /\ [s EXCEPT !.answered = answered, !.rate = r].rate = r
      BY <2>1, <3>1 DEF Participant
    <3> QED BY <3>1, <3>2 DEF r
  <2>3. Assign(n) \/ UNCHANGED ratePage
    BY <1>4 DEF DetailWeights
  <2> HIDE DEF n
  <2>4. ratePage' \in Page /\ GoodPage(ratePage')
    BY <2>1, <2>2, <2>3, AssignedIsGood
  <2>5. detail' \in Request /\ detail'.who = detail.who
    BY <1>4 DEF DetailWeights
  <2>6. rateFaults' \in 0..MaxRateFaults
    BY <1>4, SubgroupFaults DEF DetailWeights, RatesInv
  <2> QED BY <1>1, <2>1, <2>4, <2>5, <2>6, RatesKeep
<1>5. ASSUME NEW asked \in BOOLEAN, DetailRatio(asked)
      PROVE  RatesInv'
  <2> DEFINE p == detail.who
             s == ratePage[p]
             told == IF asked THEN rateChain[p].status ELSE s.told
             ratio == IF asked THEN rateChain[p].ratio ELSE NoValue
             r == RateOf(KnownStatus([s EXCEPT !.told = told]), ratio, ConfirmedWeight[p],
                         WeightToConfirm(s.answered, p), detail.member)
             n == [s EXCEPT !.told = told, !.rate = r]
  <2>1. detail.pc # "idle" /\ p \in RateMembers /\ ratePage \in Page /\ s \in Participant
    BY <1>5 DEF DetailRatio, Page
  <2>2. told \in MemberStatus \cup {""} /\ s.answered \in SUBSET RateModels
        /\ detail.member \in BOOLEAN
    BY <2>1 DEF Participant, Truths
  <2>3. ratio \in Nat \cup {NoValue} /\ GoodRatio(p, ratio)
    BY <2>1 DEF Truths, GoodRatio
  <2>4. GoodRate(p, r) /\ r \in Rate
    <3> HIDE RatesParts
    <3> HIDE DEF p, s, told, ratio
    <3>1. RatesTypeOK
      BY DEF RatesInv
    <3>2. GoodRate(p, r)
      BY <2>1, <2>2, <2>3, <3>1, RateIsGood
    <3> QED BY <3>2 DEF GoodRate
  <2>5. Assign(n)
    BY <1>5 DEF DetailRatio
  <2> HIDE DEF r
  <2>6. n \in Participant /\ n.rate = r
    BY <2>1, <2>2, <2>4 DEF Participant
  <2> HIDE DEF n
  <2>7. ratePage' \in Page /\ GoodPage(ratePage')
    BY <2>1, <2>4, <2>5, <2>6, AssignedIsGood
  <2>8. detail' \in Request /\ detail'.who = detail.who
    BY <1>5 DEF DetailRatio
  <2>9. rateFaults' \in 0..MaxRateFaults
    BY <1>5, RateFaultCounts DEF DetailRatio, RatesInv
  <2> QED BY <1>1, <2>1, <2>7, <2>8, <2>9, RatesKeep
<1> QED BY <1>2, <1>3, <1>4, <1>5 DEF DetailStep

LEMMA RatesInitInv == RatesInit => RatesInv
<1> SUFFICES ASSUME RatesInit PROVE RatesInv
  OBVIOUS
<1>1. NoPage \in Page => RateMembers = {}
  BY DEF NoPage, Page
<1>2. NoSight \in Truths => RateMembers = {}
  BY DEF NoSight, Truths
<1>3. RatesTypeOK
  <2>1. RateDetails \in 0..RateDetails /\ 0 \in 0..MaxRateFaults
    BY RateConstants
  <2>2. rateChain \in Truths
    BY DEF RatesInit, Truths, MemberStatus
  <2>3. detail \in [pc : {"idle", "weights", "ratio"}, who : RateMembers \cup {"none"},
                    shared : BOOLEAN, member : BOOLEAN, left : 0..RateDetails]
    BY <2>1 DEF RatesInit
  <2>4. pageBuild \in [pc : {"idle", "merge", "publish"}, page : Page \cup {NoPage}]
    BY DEF RatesInit
  <2> QED BY <2>1, <2>2, <2>3, <2>4 DEF RatesInit, RatesTypeOK
<1>4. GoodPage(NoPage) /\ GoodSight(NoSight)
  BY <1>1, <1>2 DEF GoodPage, GoodSight
<1>5. \A p \in RateMembers : GoodRatio(p, rateRows[p].ratio)
  BY DEF RatesInit, NotStored, GoodRatio
<1> QED BY <1>3, <1>4, <1>5 DEF RatesInit, RatesInv

LEMMA RatesStep == RatesInv /\ [RatesNext]_rateVars => RatesInv'
<1> SUFFICES ASSUME RatesInv, [RatesNext]_rateVars PROVE RatesInv'
  OBVIOUS
<1>1. CASE RatesNext
  BY <1>1, ChainRates, PollerRates, BuiltRates, DetailRates DEF RatesNext
<1>2. CASE UNCHANGED rateVars
  <2>1. UNCHANGED <<scaleSource, rateChain, rateRows, ratePoll, ratePage, pageBuild,
                    detail, rateFaults>>
    BY <1>2 DEF rateVars
  <2> QED BY <2>1, RatesParts, RatesKeep
<1> QED BY <1>1, <1>2

\* Every row, page object and request of the rates keeps its type, and what
\* is said of a member at any place is the chain's or a safe estimate.
THEOREM RatesInvariant == RatesSpec => []RatesInv
<1> QED BY RatesInitInv, RatesStep, PTL DEF RatesSpec

LEMMA RatesInvGrounds == RatesInv => RatesAreGrounded
<1> SUFFICES ASSUME RatesInv, ratePage # NoPage, NEW p \in RateMembers
             PROVE  LET s == ratePage[p] IN
               /\ s.rate.state = "confirmed" =>
                     /\ rateChain[p].ratio # NoValue
                     /\ s.rate.value = AtMostOne(rateChain[p].ratio)
               /\ s.rate.state = "estimate" =>
                     s.rate.value >= Estimate(ConfirmedWeight[p],
                                              WeightToConfirm(RateModels, p))
               /\ scaleSource = "snapshot" =>
                     NodesWeight(s.answered, p) <= WeightToConfirm(s.answered, p)
  BY DEF RatesAreGrounded
<1>1. ratePage \in Page /\ GoodRate(p, ratePage[p].rate)
  BY RatesParts DEF GoodPage
<1>2. ratePage[p].answered \in SUBSET RateModels
  BY <1>1 DEF Page, Participant
<1> QED BY <1>1, <1>2, NodesBelowMembers DEF GoodRate

\* A confirmed rate is the chain's own; an estimate, whatever subgroups it had
\* to do without, is no lower than all of them would give; the nodes shown
\* never weigh more than their member.
THEOREM NoRateIsInvented == RatesSpec => []RatesAreGrounded
BY RatesInvGrounds, RatesInvariant, PTL

-----------------------------------------------------------------------------
(***************************************************************************)
(* The timeline                                                            *)
(***************************************************************************)

\* A fetched answer is stamped no later than the chain was asked, a loaded one
\* LoadedAge before it was loaded.
CacheStamped ==
    LET answer == timelineCache.answer IN
    InMemory =>
        /\ answer.asOf \in 0..timelineNow
        /\ IF answer.loaded = Never
           THEN timelineCache.time <= answer.asOf
           ELSE /\ answer.loaded \in 0..timelineNow
                /\ timelineCache.time = answer.loaded - LoadedAge

\* Where a call is tells what it has read.
CallOK(t) ==
    /\ t.start <= timelineNow
    /\ t.pc = "rest" => t.asOf \in t.start..timelineNow
    /\ t.pc = "persist" => t.asOf \in 0..timelineNow

FreshInv ==
    /\ TimelineTypeOK
    /\ TimelineIsFresh
    /\ CacheStamped
    /\ timelineRow <= timelineNow
    /\ \A c \in TimelineCalls : CallOK(timelineCall[c])

LEMMA ClockInv ==
    ASSUME TimelineAssumption, FreshInv, TimePasses PROVE FreshInv'
<1>1. timelineNow \in Moment /\ timelineNow' = timelineNow + 1 /\ timelineNow' \in Moment
  BY DEF FreshInv, TimelineTypeOK, TimePasses, Moment, TimelineAssumption
<1>2. UNCHANGED <<timelineCache, timelineRow, timelineCall, lastHit, timelineFaults>>
  BY DEF TimePasses
<1>3. \A c \in TimelineCalls : CallOK(timelineCall[c])'
  <2> TAKE c \in TimelineCalls
  <2>1. timelineCall[c] \in TimelineStep /\ CallOK(timelineCall[c])
    BY DEF FreshInv, TimelineTypeOK
  <2> QED BY <1>1, <1>2, <2>1 DEF CallOK, TimelineStep, Moment, Never
<1>4. CacheStamped'
  BY <1>1, <1>2 DEF FreshInv, CacheStamped, InMemory, Moment
<1>5. timelineRow' <= timelineNow'
  BY <1>1, <1>2 DEF FreshInv, TimelineTypeOK, Moment, Never
<1> QED BY <1>1, <1>2, <1>3, <1>4, <1>5 DEF FreshInv, TimelineTypeOK, TimelineIsFresh

\* A step that leaves the clock, the answer in memory and the last hit alone,
\* and one call where it may be.
LEMMA CallInv ==
    ASSUME FreshInv, NEW c \in TimelineCalls, NEW t \in TimelineStep, CallOK(t),
           timelineCall' = [timelineCall EXCEPT ![c] = t],
           UNCHANGED <<timelineNow, timelineCache, lastHit>>,
           timelineRow' \in Moment \cup {Never}, timelineRow' <= timelineNow,
           timelineFaults' \in 0..MaxTimelineFaults
    PROVE  FreshInv'
<1>1. \A d \in TimelineCalls : CallOK(timelineCall[d])'
  BY DEF FreshInv, TimelineTypeOK, CallOK
<1>2. timelineCall' \in [TimelineCalls -> TimelineStep]
  BY DEF FreshInv, TimelineTypeOK
<1> QED BY <1>1, <1>2 DEF FreshInv, TimelineTypeOK, TimelineIsFresh, CacheStamped, InMemory

\* A step that replaces the answer in memory.
LEMMA AnswerInv ==
    ASSUME FreshInv, NEW c \in TimelineCalls, NEW t \in TimelineStep, CallOK(t),
           timelineCall' = [timelineCall EXCEPT ![c] = t],
           timelineCache' \in [answer : Answer, time : -LoadedAge..MaxTimelineNow],
           CacheStamped',
           UNCHANGED <<timelineNow, timelineRow, lastHit, timelineFaults>>
    PROVE  FreshInv'
<1>1. \A d \in TimelineCalls : CallOK(timelineCall[d])'
  BY DEF FreshInv, TimelineTypeOK, CallOK
<1>2. timelineCall' \in [TimelineCalls -> TimelineStep]
  BY DEF FreshInv, TimelineTypeOK
<1> QED BY <1>1, <1>2 DEF FreshInv, TimelineTypeOK, TimelineIsFresh

LEMMA NoCallOK ==
    ASSUME TimelineAssumption, timelineNow \in Moment
    PROVE  NoCall \in TimelineStep /\ CallOK(NoCall)
BY DEF NoCall, CallOK, TimelineStep, Moment, Never, TimelineAssumption

LEMMA FaultCounted ==
    ASSUME TimelineAssumption, timelineFaults \in 0..MaxTimelineFaults, TimelineFault
    PROVE  timelineFaults' \in 0..MaxTimelineFaults
BY DEF TimelineFault, TimelineAssumption

LEMMA GetInv ==
    ASSUME TimelineAssumption, FreshInv, NEW c \in TimelineCalls, GetTimeline(c)
    PROVE  FreshInv'
<1>1. /\ timelineNow \in Moment /\ timelineRow \in Moment \cup {Never}
      /\ timelineRow <= timelineNow /\ timelineFaults \in 0..MaxTimelineFaults
      /\ UNCHANGED <<timelineNow, timelineCache, timelineRow, timelineFaults>>
  BY DEF FreshInv, TimelineTypeOK, GetTimeline
<1>2. CASE InMemory /\ StillFresh(timelineCache.time)
  <2>1. lastHit' = AgeOf(timelineCache.answer) /\ UNCHANGED timelineCall
    BY <1>2 DEF GetTimeline
  <2> DEFINE answer == timelineCache.answer
  <2>2. /\ answer.asOf \in 0..timelineNow
        /\ IF answer.loaded = Never
           THEN timelineCache.time <= answer.asOf
           ELSE /\ answer.loaded \in 0..timelineNow
                /\ timelineCache.time = answer.loaded - LoadedAge
    BY <1>2 DEF FreshInv, CacheStamped
  <2>3. timelineCache.time \in Int /\ timelineNow - timelineCache.time < TimelineTTL
    BY <1>2 DEF StillFresh, FreshInv, TimelineTypeOK, TimelineAssumption
  <2> HIDE DEF answer
  <2>4. CASE answer.loaded = Never
    <3>1. lastHit' = [loaded |-> FALSE, age |-> timelineNow - answer.asOf]
      BY <2>1, <2>4 DEF AgeOf, answer
    <3>2. timelineNow - answer.asOf \in Moment /\ timelineNow - answer.asOf < TimelineTTL
      BY <1>1, <2>2, <2>3, <2>4 DEF Moment, TimelineAssumption
    <3> QED BY <1>1, <2>1, <3>1, <3>2 DEF FreshInv, TimelineTypeOK, TimelineIsFresh,
                                        CacheStamped, InMemory, CallOK
  <2>5. CASE answer.loaded # Never
    <3>1. lastHit' = [loaded |-> TRUE, age |-> timelineNow - answer.loaded]
      BY <2>1, <2>5 DEF AgeOf, answer
    <3>2. /\ timelineNow - answer.loaded \in Moment
          /\ timelineNow - answer.loaded < TimelineTTL - LoadedAge
      BY <1>1, <2>2, <2>3, <2>5 DEF Moment, TimelineAssumption
    <3> QED BY <1>1, <2>1, <3>1, <3>2 DEF FreshInv, TimelineTypeOK, TimelineIsFresh,
                                        CacheStamped, InMemory, CallOK
  <2> QED BY <2>4, <2>5
<1>3. CASE ~(InMemory /\ StillFresh(timelineCache.time))
  <2> DEFINE t == [NoCall EXCEPT !.pc = IF InMemory THEN "height" ELSE "load",
                                 !.start = timelineNow]
  <2>1. timelineCall' = [timelineCall EXCEPT ![c] = t] /\ UNCHANGED lastHit
    BY <1>3 DEF GetTimeline
  <2>2. t \in TimelineStep /\ CallOK(t)
    <3> DEFINE pc == IF InMemory THEN "height" ELSE "load"
    <3>1. pc \in {"height", "load"}
      OBVIOUS
    <3> HIDE DEF pc
    <3>2. NoCall \in TimelineStep
      BY <1>1, NoCallOK
    <3>3. t \in TimelineStep /\ t.start = timelineNow /\ t.pc = pc
      BY <1>1, <3>1, <3>2 DEF TimelineStep, pc
    <3> HIDE DEF t
    <3> QED BY <1>1, <3>1, <3>3 DEF CallOK, Moment
  <2> HIDE DEF t
  <2> QED BY <1>1, <2>1, <2>2, CallInv
<1> QED BY <1>2, <1>3

LEMMA LoadInv ==
    ASSUME TimelineAssumption, FreshInv, NEW c \in TimelineCalls, LoadTimeline(c)
    PROVE  FreshInv'
<1> DEFINE s == timelineCall[c]
<1>1. /\ timelineNow \in Moment /\ timelineRow \in Moment \cup {Never}
      /\ timelineRow <= timelineNow /\ timelineFaults \in 0..MaxTimelineFaults
      /\ s \in TimelineStep /\ CallOK(s)
      /\ UNCHANGED <<timelineNow, timelineRow, lastHit, timelineFaults>>
  BY DEF FreshInv, TimelineTypeOK, LoadTimeline
<1>2. CASE timelineRow = Never
  <2> DEFINE t == [s EXCEPT !.pc = "height"]
  <2>1. timelineCall' = [timelineCall EXCEPT ![c] = t] /\ UNCHANGED timelineCache
    BY <1>2 DEF LoadTimeline
  <2>2. t \in TimelineStep /\ CallOK(t)
    BY <1>1 DEF TimelineStep, CallOK
  <2> HIDE DEF s, t
  <2> QED BY <1>1, <2>1, <2>2, CallInv
<1>3. CASE timelineRow # Never
  <2> DEFINE answer == [asOf |-> timelineRow, loaded |-> s.start]
  <2>1. /\ timelineCache' = [answer |-> answer, time |-> s.start - LoadedAge]
        /\ timelineCall' = [timelineCall EXCEPT ![c] = NoCall]
    BY <1>3 DEF LoadTimeline, LoadedStamp
  <2>2. s.start \in 0..timelineNow /\ timelineRow \in 0..timelineNow
    BY <1>1, <1>3 DEF CallOK, TimelineStep, Moment, Never
  <2>3. s.start - LoadedAge \in -LoadedAge..MaxTimelineNow /\ s.start # Never
    BY <1>1, <2>2 DEF Moment, Never, TimelineAssumption
  <2> HIDE DEF s
  <2>4. timelineCache' \in [answer : Answer, time : -LoadedAge..MaxTimelineNow]
    BY <1>1, <2>1, <2>2, <2>3 DEF Answer, Moment
  <2>5. CacheStamped'
    BY <1>1, <2>1, <2>2, <2>3 DEF CacheStamped
  <2> QED BY <1>1, <2>1, <2>4, <2>5, NoCallOK, AnswerInv
<1> QED BY <1>2, <1>3

LEMMA FetchInv ==
    ASSUME TimelineAssumption, FreshInv, NEW c \in TimelineCalls,
           ReadTimelineHeight(c) \/ KeepTimeline(c) \/ PersistTimeline(c) \/ TimelineFails(c)
    PROVE  FreshInv'
<1> DEFINE s == timelineCall[c]
<1>1. /\ timelineNow \in Moment /\ timelineRow \in Moment \cup {Never}
      /\ timelineRow <= timelineNow /\ timelineFaults \in 0..MaxTimelineFaults
      /\ s \in TimelineStep /\ CallOK(s)
  BY DEF FreshInv, TimelineTypeOK
<1>2. CASE ReadTimelineHeight(c)
  <2> DEFINE t == [s EXCEPT !.pc = "rest", !.asOf = timelineNow]
  <2>1. /\ timelineCall' = [timelineCall EXCEPT ![c] = t]
        /\ UNCHANGED <<timelineNow, timelineCache, timelineRow, lastHit, timelineFaults>>
    BY <1>1, <1>2 DEF ReadTimelineHeight, TimelineStep
  <2>2. t \in TimelineStep /\ CallOK(t)
    <3>1. /\ t \in TimelineStep /\ t.start = s.start
          /\ t.pc = "rest" /\ t.asOf = timelineNow
      BY <1>1 DEF TimelineStep
    <3>2. s.start \in 0..timelineNow
      BY <1>1 DEF CallOK, TimelineStep, Moment
    <3> HIDE DEF s, t
    <3> QED BY <1>1, <3>1, <3>2 DEF CallOK, TimelineStep, Moment
  <2> HIDE DEF s, t
  <2> QED BY <1>1, <2>1, <2>2, CallInv
<1>3. CASE KeepTimeline(c)
  <2> DEFINE answer == [asOf |-> s.asOf, loaded |-> Never]
             t == [NoCall EXCEPT !.pc = "persist", !.asOf = s.asOf]
  <2>1. /\ s.pc = "rest"
        /\ timelineCache' = [answer |-> answer, time |-> s.start]
        /\ timelineCall' = [timelineCall EXCEPT ![c] = t]
        /\ UNCHANGED <<timelineNow, timelineRow, lastHit, timelineFaults>>
    BY <1>3 DEF KeepTimeline, StampOf
  <2>2. s.start \in 0..timelineNow /\ s.asOf \in s.start..timelineNow
    BY <1>1, <2>1 DEF CallOK, TimelineStep, Moment
  <2> HIDE DEF s
  <2>3. t \in TimelineStep /\ CallOK(t)
    <3>0. NoCall \in TimelineStep /\ NoCall.start = 0
      BY <1>1, NoCallOK DEF NoCall
    <3>1. /\ t \in TimelineStep /\ t.start = NoCall.start
          /\ t.pc = "persist" /\ t.asOf = s.asOf
      BY <1>1, <2>2, <3>0 DEF TimelineStep, Moment
    <3> HIDE DEF t
    <3> QED BY <1>1, <2>2, <3>0, <3>1 DEF CallOK, Moment
  <2>4. timelineCache' \in [answer : Answer, time : -LoadedAge..MaxTimelineNow]
    BY <1>1, <2>1, <2>2 DEF Answer, Moment, TimelineAssumption
  <2>5. CacheStamped'
    BY <1>1, <2>1, <2>2 DEF CacheStamped, Moment
  <2> HIDE DEF t
  <2> QED BY <1>1, <2>1, <2>3, <2>4, <2>5, AnswerInv
<1>4. CASE PersistTimeline(c)
  <2>1. /\ s.pc = "persist" /\ timelineCall' = [timelineCall EXCEPT ![c] = NoCall]
        /\ UNCHANGED <<timelineNow, timelineCache, lastHit>>
        /\ \/ timelineRow' = s.asOf /\ UNCHANGED timelineFaults
           \/ TimelineFault /\ UNCHANGED timelineRow
    BY <1>4 DEF PersistTimeline
  <2>2. timelineRow' \in Moment \cup {Never} /\ timelineRow' <= timelineNow
    BY <1>1, <2>1 DEF CallOK, Moment
  <2>3. timelineFaults' \in 0..MaxTimelineFaults
    BY <1>1, <2>1, FaultCounted
  <2> QED BY <1>1, <2>1, <2>2, <2>3, NoCallOK, CallInv
<1>5. CASE TimelineFails(c)
  <2>1. /\ timelineCall' = [timelineCall EXCEPT ![c] = NoCall] /\ TimelineFault
        /\ UNCHANGED <<timelineNow, timelineCache, timelineRow, lastHit>>
    BY <1>5 DEF TimelineFails
  <2>2. timelineFaults' \in 0..MaxTimelineFaults
    BY <1>1, <2>1, FaultCounted
  <2> QED BY <1>1, <2>1, <2>2, NoCallOK, CallInv
<1> QED BY <1>2, <1>3, <1>4, <1>5

LEMMA RestartInv ==
    ASSUME TimelineAssumption, FreshInv, TimelineRestart PROVE FreshInv'
<1>1. /\ timelineNow \in Moment /\ timelineFaults \in 0..MaxTimelineFaults
      /\ TimelineFault /\ timelineCache' = Empty
      /\ timelineCall' = [c \in TimelineCalls |-> NoCall]
      /\ UNCHANGED <<timelineNow, timelineRow, lastHit>>
  BY DEF FreshInv, TimelineTypeOK, TimelineRestart
<1>2. timelineFaults' \in 0..MaxTimelineFaults
  BY <1>1, FaultCounted
<1>3. timelineCache' \in [answer : Answer, time : -LoadedAge..MaxTimelineNow]
  BY <1>1 DEF Empty, NoAnswer, Answer, TimelineAssumption
<1>4. CacheStamped'
  BY <1>1 DEF CacheStamped, InMemory, Empty
<1>5. \A c \in TimelineCalls : CallOK(timelineCall[c])' /\ timelineCall'[c] \in TimelineStep
  BY <1>1, NoCallOK DEF CallOK
<1> QED BY <1>1, <1>2, <1>3, <1>4, <1>5 DEF FreshInv, TimelineTypeOK, TimelineIsFresh

LEMMA FreshInitInv == TimelineInit => FreshInv
BY TimelineAssumption
   DEF TimelineInit, FreshInv, TimelineTypeOK, TimelineIsFresh, CacheStamped, InMemory, CallOK,
       Empty, NoAnswer, Answer, NoHit, NoCall, TimelineStep, Moment, Never, TimelineAssumption

LEMMA FreshStepInv == FreshInv /\ [TimelineNext]_timelineVars => FreshInv'
<1> SUFFICES ASSUME FreshInv, [TimelineNext]_timelineVars PROVE FreshInv'
  OBVIOUS
<1>1. CASE TimelineNext
  BY <1>1, TimelineAssumption, ClockInv, GetInv, LoadInv, FetchInv, RestartInv DEF TimelineNext
<1>2. CASE UNCHANGED timelineVars
  BY <1>2 DEF timelineVars, FreshInv, TimelineTypeOK, TimelineIsFresh, CacheStamped, InMemory,
              CallOK
<1> QED BY <1>1, <1>2

\* The invariant holds however calls overlap, fail and are cut off.
THEOREM FreshInvariant == TimelineSpec => []FreshInv
BY FreshInitInv, FreshStepInv, PTL DEF TimelineSpec

\* get_timeline gives away no answer older than its TTL, and a loaded one for
\* no longer than the loading leaves it.
THEOREM TheTimelineIsFresh == TimelineSpec => []TimelineIsFresh
<1>1. FreshInv => TimelineIsFresh
  BY DEF FreshInv
<1> QED BY <1>1, FreshInvariant, PTL

-----------------------------------------------------------------------------
(***************************************************************************)
(* The markets                                                             *)
(***************************************************************************)

MarketsInv == MarketsTypeOK /\ FiguresBelongToPrice

LEMMA MarketsInitInv == MarketsInit => MarketsInv
<1>1. MaxQuote \in Nat \ {0} /\ MaxMarketFaults \in Nat
  BY MarketsAssumption
<1> QED
  BY <1>1 DEF MarketsInit, MarketsInv, MarketsTypeOK, FiguresBelongToPrice, NoMarketPoll,
              Quote, NoQuote, Source

LEMMA MarketsStep == MarketsInv /\ [MarketsNext]_marketVars => MarketsInv'
<1> SUFFICES ASSUME MarketsInv, [MarketsNext]_marketVars PROVE MarketsInv'
  OBVIOUS
<1>1. MaxQuote \in Nat \ {0} /\ MaxMarketFaults \in Nat
  BY MarketsAssumption
<1>2. MarketFault => marketFaults' \in 0..MaxMarketFaults
  BY <1>1 DEF MarketFault, MarketsInv, MarketsTypeOK
<1> USE DEF MarketsInv, MarketsTypeOK, FiguresBelongToPrice, Quote, NoQuote
<1>3. CASE MarketsMove
  BY <1>1, <1>3 DEF MarketsMove
<1>4. ASSUME NEW s \in Source, SourceChanges(s) PROVE MarketsInv'
  BY <1>4 DEF SourceChanges
<1>5. CASE PollMarkets
  BY <1>5 DEF PollMarkets, Asks, NoMarketPoll, Source
<1>6. CASE AskGecko
  BY <1>6 DEF AskGecko, Asks, NoMarketPoll, Source
<1>7. CASE AskSlot0
  BY <1>7 DEF AskSlot0, Asks, NoMarketPoll, Source
<1>8. CASE AskBook
  BY <1>8 DEF AskBook, NoMarketPoll, Source
<1>9. CASE AskOrders
  BY <1>9 DEF AskOrders, NoMarketPoll, Source
<1>10. CASE SaveDexFails
  BY <1>2, <1>10 DEF SaveDexFails, Asks, NoMarketPoll, Source
<1>11. CASE MarketPollLost
  BY <1>2, <1>11 DEF MarketPollLost, NoMarketPoll, Source
<1>12. CASE UNCHANGED marketVars
  BY <1>12 DEF marketVars
<1> QED
  BY <1>3, <1>4, <1>5, <1>6, <1>7, <1>8, <1>9, <1>10, <1>11, <1>12
     DEF MarketsNext, MarketPollStep

\* The 24h figures of dex_market_stats are those of the price beside them,
\* whichever services fail, answer late or never come back.
THEOREM FiguresStayWithThePrice == MarketsSpec => []FiguresBelongToPrice
<1>1. MarketsInv => FiguresBelongToPrice
  BY DEF MarketsInv
<1> QED BY <1>1, MarketsInitInv, MarketsStep, PTL DEF MarketsSpec

-----------------------------------------------------------------------------
(***************************************************************************)
(* The rows of the validators                                              *)
(***************************************************************************)

\* The poller of the confirmation data reads the epoch first and the height
\* then, and nobody else stores under it what was read later.
ConfirmationOrder ==
    LET t == watch["confirmation"] IN
    /\ t.pc = "height" => t.epoch <= StakeEpochNow
    /\ t.pc = "fetch" =>
          /\ t.height # NoRow /\ StakeEpochAt(t.height) >= t.epoch
          /\ \A e \in StakeEpoch : ratioRows[e] <= t.height

ValidatorsInv ==
    /\ ValidatorsTypeOK
    /\ RatiosAreOfTheirEpoch
    /\ healthRows <= stakeTip
    /\ \A w \in Watcher : watch[w].height <= stakeTip
    /\ merge.height <= stakeTip
    /\ ConfirmationOrder

\* Later heights lie in later epochs, and every height in one.
LEMMA StakeEpochs ==
    /\ StakeHeight \subseteq Nat \ {0} /\ StakeEpoch \subseteq Nat \ {0} /\ 1 \in StakeEpoch
    /\ \A h \in StakeHeight : StakeEpochAt(h) \in StakeEpoch
    /\ \A h, k \in StakeHeight : h <= k => StakeEpochAt(h) <= StakeEpochAt(k)
<1>1. /\ StakeEpochLength \in Nat \ {0} /\ MaxStakeTip \in Nat \ {0}
      /\ MaxStakeTip \in StakeHeight /\ StakeHeight \subseteq Nat \ {0}
      /\ \A h \in StakeHeight : h <= MaxStakeTip
  BY StakeAssumption DEF StakeHeight
<1>2. \A h \in StakeHeight : (h - 1) \div StakeEpochLength \in Nat
  <2> SUFFICES ASSUME NEW h \in StakeHeight PROVE (h - 1) \div StakeEpochLength \in Nat
    OBVIOUS
  <2>1. h - 1 \in Nat
    BY <1>1
  <2> QED BY <1>1, <2>1, Division
<1>3. ASSUME NEW h \in StakeHeight, NEW k \in StakeHeight, h <= k
      PROVE  StakeEpochAt(h) <= StakeEpochAt(k)
  <2>1. h - 1 \in Nat /\ k - 1 \in Nat /\ h - 1 <= k - 1
    BY <1>1, <1>3
  <2>2. (h - 1) \div StakeEpochLength <= (k - 1) \div StakeEpochLength
    BY <1>1, <2>1, QuotientRises
  <2> QED BY <1>2, <2>2 DEF StakeEpochAt
<1>4. \A h \in StakeHeight : StakeEpochAt(h) \in Nat \ {0}
  BY <1>2 DEF StakeEpochAt
<1> QED BY <1>1, <1>3, <1>4 DEF StakeEpoch

LEMMA StakeFaultCounts ==
    ASSUME ValidatorsInv, StakeFault PROVE stakeFaults' \in 0..MaxStakeFaults
BY StakeAssumption DEF StakeFault, ValidatorsInv, ValidatorsTypeOK

LEMMA NoWatchTyped ==
    NoWatch \in Watch /\ NoWatch \in Merge /\ NoWatch.pc = "idle" /\ NoWatch.height = NoRow
BY StakeEpochs DEF NoWatch, Watch, Merge, RowAge, NoRow

LEMMA ValidatorsInitInv == ValidatorsInit => ValidatorsInv
<1> SUFFICES ASSUME ValidatorsInit PROVE ValidatorsInv
  OBVIOUS
<1>1. stakeTip \in StakeHeight /\ stakeTip = 1 /\ stakeFaults \in 0..MaxStakeFaults
  BY StakeAssumption DEF ValidatorsInit, StakeHeight
<1>2. /\ jailRows \in [StakeEpoch -> RowAge] /\ ratioRows \in [StakeEpoch -> RowAge]
      /\ healthRows \in RowAge /\ healthRows = NoRow
      /\ \A e \in StakeEpoch : jailRows[e] = NoRow /\ ratioRows[e] = NoRow
  BY DEF ValidatorsInit, RowAge
<1>3. /\ watch \in [Watcher -> Watch] /\ merge \in Merge /\ merge = NoWatch
      /\ \A w \in Watcher : watch[w] = NoWatch
  BY NoWatchTyped DEF ValidatorsInit
<1> QED
  BY <1>1, <1>2, <1>3, NoWatchTyped
     DEF ValidatorsInv, ValidatorsTypeOK, RatiosAreOfTheirEpoch, ConfirmationOrder, NoRow, Watcher

\* The chain grows: what was read is older still.
LEMMA StakeGrowsInv ==
    ASSUME ValidatorsInv, StakeChainGrows
    PROVE  ValidatorsInv' /\ ratioRows' = ratioRows
<1>1. /\ stakeTip < MaxStakeTip /\ stakeTip' = stakeTip + 1
      /\ UNCHANGED <<jailRows, ratioRows, healthRows, watch, merge, stakeFaults>>
  BY DEF StakeChainGrows, validatorTables
<1>2. stakeTip \in StakeHeight /\ stakeTip \in Nat /\ MaxStakeTip \in Nat
  BY StakeAssumption DEF ValidatorsInv, ValidatorsTypeOK, StakeHeight
<1>3. stakeTip' \in StakeHeight /\ stakeTip <= stakeTip'
  BY <1>1, <1>2 DEF StakeHeight
<1>4. StakeEpochNow <= StakeEpochNow'
  BY <1>2, <1>3, StakeEpochs DEF StakeEpochNow, StakeEpochAt
<1>5. StakeEpochNow \in Nat /\ StakeEpochNow' \in Nat
  BY <1>2, <1>3, StakeEpochs DEF StakeEpochNow, StakeEpochAt
<1>6. \A h \in RowAge : h <= stakeTip => h <= stakeTip'
  <2>1. RowAge \subseteq Nat
    BY StakeEpochs DEF RowAge, NoRow
  <2> QED BY <1>1, <1>2, <2>1
<1>7. ValidatorsTypeOK'
  BY <1>1, <1>3 DEF ValidatorsInv, ValidatorsTypeOK
<1>8. RatiosAreOfTheirEpoch'
  <2>1. \A e \in StakeEpoch : jailRows[e] \in RowAge /\ ratioRows[e] \in RowAge
    BY DEF ValidatorsInv, ValidatorsTypeOK
  <2> QED BY <1>1, <1>6, <2>1 DEF ValidatorsInv, RatiosAreOfTheirEpoch, StakeEpochAt
<1>9. /\ healthRows' <= stakeTip' /\ merge'.height <= stakeTip'
      /\ \A w \in Watcher : watch'[w].height <= stakeTip'
  <2>1. /\ healthRows \in RowAge /\ merge.height \in RowAge
        /\ \A w \in Watcher : watch[w].height \in RowAge
    BY DEF ValidatorsInv, ValidatorsTypeOK, Watch, Merge
  <2> QED BY <1>1, <1>6, <2>1 DEF ValidatorsInv
<1>10. ConfirmationOrder'
  <2>1. watch["confirmation"].epoch \in Nat
    BY StakeEpochs DEF ValidatorsInv, ValidatorsTypeOK, Watch, Watcher
  <2> QED
    BY <1>1, <1>4, <1>5, <2>1 DEF ValidatorsInv, ConfirmationOrder, StakeEpochAt
<1> QED BY <1>1, <1>7, <1>8, <1>9, <1>10 DEF ValidatorsInv

\* A coroutine moves and no row changes.
LEMMA WatchMoves ==
    ASSUME ValidatorsInv, NEW w \in Watcher, NEW t \in Watch, t.height <= stakeTip,
           watch' = [watch EXCEPT ![w] = t],
           UNCHANGED <<stakeTip, validatorTables, merge>>, stakeFaults' \in 0..MaxStakeFaults,
           w = "confirmation" =>
              /\ t.pc = "height" => t.epoch <= StakeEpochNow
              /\ t.pc = "fetch" => /\ t.height # NoRow /\ StakeEpochAt(t.height) >= t.epoch
                                   /\ \A e \in StakeEpoch : ratioRows[e] <= t.height
    PROVE  ValidatorsInv' /\ ratioRows' = ratioRows
<1>1. UNCHANGED <<stakeTip, jailRows, ratioRows, healthRows, merge>>
  BY DEF validatorTables
<1>2. /\ watch' \in [Watcher -> Watch] /\ watch'[w] = t
      /\ \A u \in Watcher : u # w => watch'[u] = watch[u]
  BY DEF ValidatorsInv, ValidatorsTypeOK
<1>3. ValidatorsTypeOK' /\ RatiosAreOfTheirEpoch'
  BY <1>1, <1>2 DEF ValidatorsInv, ValidatorsTypeOK, RatiosAreOfTheirEpoch, StakeEpochAt
<1>4. /\ healthRows' <= stakeTip' /\ merge'.height <= stakeTip'
      /\ \A u \in Watcher : watch'[u].height <= stakeTip'
  BY <1>1, <1>2 DEF ValidatorsInv
<1>5. ConfirmationOrder'
  <2>1. CASE w = "confirmation"
    BY <1>1, <1>2, <2>1 DEF ConfirmationOrder, StakeEpochNow, StakeEpochAt
  <2>2. CASE w # "confirmation"
    <3>1. watch'["confirmation"] = watch["confirmation"]
      BY <1>2, <2>2 DEF Watcher
    <3> QED BY <1>1, <3>1 DEF ValidatorsInv, ConfirmationOrder, StakeEpochNow, StakeEpochAt
  <2> QED BY <2>1, <2>2
<1> QED BY <1>1, <1>3, <1>4, <1>5 DEF ValidatorsInv

LEMMA WatchReadsInv ==
    ASSUME ValidatorsInv, NEW w \in Watcher,
           ReadStakeMembers(w) \/ ReadStakeHeight(w) \/ WatchFails(w)
    PROVE  ValidatorsInv' /\ ratioRows' = ratioRows
<1>1. /\ stakeTip \in StakeHeight /\ stakeFaults \in 0..MaxStakeFaults /\ watch[w] \in Watch
      /\ \A e \in StakeEpoch : ratioRows[e] <= stakeTip
      /\ StakeEpochNow \in StakeEpoch /\ stakeTip # NoRow
      /\ StakeEpochNow = StakeEpochAt(stakeTip)
  BY StakeEpochs DEF ValidatorsInv, ValidatorsTypeOK, RatiosAreOfTheirEpoch, StakeEpochNow, NoRow
<1>2. \A h \in StakeHeight : h \in Nat /\ h > NoRow
  BY StakeEpochs DEF NoRow
<1>3. \A e \in StakeEpoch : e \in Nat
  BY StakeEpochs
<1>4. CASE ReadStakeMembers(w)
  <2> DEFINE t == [pc |-> IF w = "health" THEN "fetch" ELSE "height",
                   epoch |-> IF w = "health" THEN 1 ELSE StakeEpochNow,
                   height |-> IF w = "health" THEN stakeTip ELSE NoRow]
  <2>1. watch' = [watch EXCEPT ![w] = t]
        /\ UNCHANGED <<stakeTip, validatorTables, merge, stakeFaults>>
    BY <1>4 DEF ReadStakeMembers
  <2>2. t \in Watch
    BY <1>1, StakeEpochs DEF Watch, RowAge
  <2>3. t.height <= stakeTip
    BY <1>1, <1>2 DEF NoRow
  <2>4. w = "confirmation" => t.pc = "height" /\ t.epoch <= StakeEpochNow
    BY <1>1, <1>3
  <2> HIDE DEF t
  <2> QED BY <1>1, <2>1, <2>2, <2>3, <2>4, WatchMoves
<1>5. CASE ReadStakeHeight(w)
  <2> DEFINE t == [watch[w] EXCEPT !.pc = "fetch", !.height = stakeTip]
  <2>1. watch' = [watch EXCEPT ![w] = t] /\ watch[w].pc = "height"
        /\ UNCHANGED <<stakeTip, validatorTables, merge, stakeFaults>>
    BY <1>1, <1>5 DEF ReadStakeHeight, ValidatorsInv, ValidatorsTypeOK, Watch
  <2>2. t \in Watch /\ t.height = stakeTip /\ t.pc = "fetch" /\ t.epoch = watch[w].epoch
    BY <1>1 DEF Watch, RowAge
  <2>3. w = "confirmation" => watch[w].epoch <= StakeEpochNow
    BY <2>1 DEF ValidatorsInv, ConfirmationOrder
  <2>4. w = "confirmation" => StakeEpochAt(stakeTip) >= watch[w].epoch
    <3>1. watch[w].epoch \in Nat
      BY <1>1, <1>3 DEF Watch
    <3> QED BY <1>1, <1>3, <2>3, <3>1
  <2>5. stakeTip <= stakeTip
    BY <1>1, <1>2
  <2> HIDE DEF t
  <2> QED BY <1>1, <2>1, <2>2, <2>4, <2>5, WatchMoves
<1>6. CASE WatchFails(w)
  <2>1. watch' = [watch EXCEPT ![w] = NoWatch] /\ StakeFault
        /\ UNCHANGED <<stakeTip, validatorTables, merge>>
    BY <1>6 DEF WatchFails
  <2>2. NoRow <= stakeTip
    BY <1>1, <1>2 DEF NoRow
  <2> QED BY <2>1, <2>2, NoWatchTyped, StakeFaultCounts, WatchMoves
<1> QED BY <1>4, <1>5, <1>6

LEMMA RatiosStay ==
    ASSUME ValidatorsInv, ratioRows' = ratioRows
    PROVE  \A e \in StakeEpoch : ratioRows'[e] >= ratioRows[e]
<1>1. RowAge \subseteq Nat
  BY StakeEpochs DEF RowAge, NoRow
<1>2. \A e \in StakeEpoch : ratioRows[e] \in RowAge
  BY DEF ValidatorsInv, ValidatorsTypeOK
<1>3. \A h \in RowAge : h >= h
  BY <1>1
<1> QED BY <1>2, <1>3

LEMMA WatchStoresInv ==
    ASSUME ValidatorsInv, WatchJail \/ WatchConfirmation \/ WatchHealth
    PROVE  ValidatorsInv' /\ \A e \in StakeEpoch : ratioRows'[e] >= ratioRows[e]
<1>1. /\ \A w \in Watcher : watch[w] \in Watch /\ watch[w].height <= stakeTip
      /\ \A e \in StakeEpoch : ratioRows[e] \in RowAge /\ jailRows[e] \in RowAge
      /\ RowAge \subseteq Nat /\ StakeEpoch \subseteq Nat
  BY StakeEpochs DEF ValidatorsInv, ValidatorsTypeOK, RowAge, NoRow
<1>2. \A w \in Watcher : /\ watch[w].epoch \in StakeEpoch /\ watch[w].height \in RowAge
  BY <1>1 DEF Watch
\* A round is over: the coroutine rests.
<1>3. ASSUME NEW w \in Watcher, watch' = [watch EXCEPT ![w] = NoWatch],
             UNCHANGED <<stakeTip, merge>>
      PROVE  /\ watch' \in [Watcher -> Watch] /\ watch'[w] = NoWatch
             /\ \A u \in Watcher : u # w => watch'[u] = watch[u]
             /\ \A u \in Watcher : watch'[u].height <= stakeTip'
  <2>1. /\ watch' \in [Watcher -> Watch] /\ watch'[w] = NoWatch
        /\ \A u \in Watcher : u # w => watch'[u] = watch[u]
    BY <1>3, NoWatchTyped DEF ValidatorsInv, ValidatorsTypeOK
  <2>2. NoWatch.height <= stakeTip
    BY NoWatchTyped, StakeEpochs DEF ValidatorsInv, ValidatorsTypeOK, NoRow
  <2> QED BY <1>1, <1>3, <2>1, <2>2
<1>4. CASE WatchJail
  <2> DEFINE w == watch["jail"]
  <2>1. /\ jailRows' = [jailRows EXCEPT ![w.epoch] = w.height]
        /\ watch' = [watch EXCEPT !["jail"] = NoWatch]
        /\ UNCHANGED <<stakeTip, ratioRows, healthRows, merge, stakeFaults>>
    BY <1>4 DEF WatchJail, StoreJail, Stored
  <2>2. "jail" \in Watcher /\ "confirmation" \in Watcher /\ "jail" # "confirmation"
    BY DEF Watcher
  <2>3. /\ watch' \in [Watcher -> Watch] /\ watch'["confirmation"] = watch["confirmation"]
        /\ \A u \in Watcher : watch'[u].height <= stakeTip'
    BY <1>3, <2>1, <2>2
  <2>4. w.epoch \in StakeEpoch /\ w.height \in RowAge /\ w.height <= stakeTip
    BY <1>1, <1>2, <2>2
  <2>5. /\ jailRows' \in [StakeEpoch -> RowAge]
        /\ \A e \in StakeEpoch : jailRows'[e] <= stakeTip
    BY <2>1, <2>4 DEF ValidatorsInv, ValidatorsTypeOK, RatiosAreOfTheirEpoch
  <2>6. ValidatorsTypeOK' /\ RatiosAreOfTheirEpoch'
    BY <2>1, <2>3, <2>5 DEF ValidatorsInv, ValidatorsTypeOK, RatiosAreOfTheirEpoch, StakeEpochAt
  <2>7. ConfirmationOrder'
    BY <2>1, <2>3 DEF ValidatorsInv, ConfirmationOrder, StakeEpochNow, StakeEpochAt
  <2> QED BY <1>1, <2>1, <2>3, <2>6, <2>7, RatiosStay DEF ValidatorsInv
<1>5. CASE WatchConfirmation
  <2> DEFINE w == watch["confirmation"]
  <2>1. /\ w.pc = "fetch"
        /\ ratioRows' = [ratioRows EXCEPT ![w.epoch] = w.height]
        /\ watch' = [watch EXCEPT !["confirmation"] = NoWatch]
        /\ UNCHANGED <<stakeTip, jailRows, healthRows, merge, stakeFaults>>
    BY <1>5 DEF WatchConfirmation, Stored
  <2>2. "confirmation" \in Watcher
    BY DEF Watcher
  <2>3. /\ watch' \in [Watcher -> Watch] /\ watch'["confirmation"] = NoWatch
        /\ \A u \in Watcher : watch'[u].height <= stakeTip'
    BY <1>3, <2>1, <2>2
  <2>4. /\ w.epoch \in StakeEpoch /\ w.height \in RowAge /\ w.height <= stakeTip
        /\ w.height # NoRow /\ StakeEpochAt(w.height) >= w.epoch
        /\ \A e \in StakeEpoch : ratioRows[e] <= w.height
    BY <1>1, <1>2, <2>1, <2>2 DEF ValidatorsInv, ConfirmationOrder
  <2> HIDE DEF w
  <2>5. /\ ratioRows' \in [StakeEpoch -> RowAge] /\ ratioRows'[w.epoch] = w.height
        /\ \A e \in StakeEpoch : e # w.epoch => ratioRows'[e] = ratioRows[e]
    BY <2>1, <2>4 DEF ValidatorsInv, ValidatorsTypeOK
  <2>6. ValidatorsTypeOK'
    BY <2>1, <2>3, <2>5 DEF ValidatorsInv, ValidatorsTypeOK
  <2>7. RatiosAreOfTheirEpoch'
    BY <2>1, <2>4, <2>5 DEF ValidatorsInv, RatiosAreOfTheirEpoch, StakeEpochAt
  <2>8. ConfirmationOrder'
    BY <2>3, NoWatchTyped DEF ConfirmationOrder
  <2>9. ASSUME NEW e \in StakeEpoch PROVE ratioRows'[e] >= ratioRows[e]
    <3>1. ratioRows[e] \in Nat /\ w.height \in Nat /\ ratioRows[e] <= w.height
      BY <1>1, <2>4
    <3>2. ratioRows'[e] \in {ratioRows[e], w.height}
      BY <2>5
    <3> QED BY <3>1, <3>2
  <2> QED BY <2>1, <2>3, <2>6, <2>7, <2>8, <2>9 DEF ValidatorsInv
<1>6. CASE WatchHealth
  <2> DEFINE w == watch["health"]
  <2>1. /\ healthRows' = w.height
        /\ watch' = [watch EXCEPT !["health"] = NoWatch]
        /\ UNCHANGED <<stakeTip, jailRows, ratioRows, merge, stakeFaults>>
    BY <1>6 DEF WatchHealth, StoreHealth, Stored
  <2>2. "health" \in Watcher /\ "confirmation" \in Watcher /\ "health" # "confirmation"
    BY DEF Watcher
  <2>3. /\ watch' \in [Watcher -> Watch] /\ watch'["confirmation"] = watch["confirmation"]
        /\ \A u \in Watcher : watch'[u].height <= stakeTip'
    BY <1>3, <2>1, <2>2
  <2>4. healthRows' \in RowAge /\ healthRows' <= stakeTip
    BY <1>1, <1>2, <2>1, <2>2
  <2>5. ValidatorsTypeOK' /\ RatiosAreOfTheirEpoch'
    BY <2>1, <2>3, <2>4 DEF ValidatorsInv, ValidatorsTypeOK, RatiosAreOfTheirEpoch, StakeEpochAt
  <2>6. ConfirmationOrder'
    BY <2>1, <2>3 DEF ValidatorsInv, ConfirmationOrder, StakeEpochNow, StakeEpochAt
  <2> QED BY <1>1, <2>1, <2>3, <2>4, <2>5, <2>6, RatiosStay DEF ValidatorsInv
<1> QED BY <1>4, <1>5, <1>6

\* What a page does: it leaves the confirmation data and its poller alone.
LEMMA MergeKeeps ==
    ASSUME ValidatorsInv, merge' \in Merge, merge'.height <= stakeTip,
           jailRows' \in [StakeEpoch -> RowAge],
           \A e \in StakeEpoch : jailRows'[e] <= stakeTip,
           healthRows' \in RowAge, healthRows' <= stakeTip,
           stakeFaults' \in 0..MaxStakeFaults, UNCHANGED <<stakeTip, ratioRows, watch>>
    PROVE  ValidatorsInv'
<1>1. ValidatorsTypeOK' /\ RatiosAreOfTheirEpoch'
  BY DEF ValidatorsInv, ValidatorsTypeOK, RatiosAreOfTheirEpoch, StakeEpochAt
<1>2. ConfirmationOrder'
  BY DEF ValidatorsInv, ConfirmationOrder, StakeEpochNow, StakeEpochAt
<1> QED BY <1>1, <1>2 DEF ValidatorsInv

LEMMA MergeInv ==
    ASSUME ValidatorsInv,
           MergeStep \/ \E e \in StakeEpoch, h \in StakeHeight : StartMerge(e, h)
    PROVE  ValidatorsInv' /\ ratioRows' = ratioRows
<1>1. /\ stakeTip \in StakeHeight /\ merge \in Merge /\ merge.height <= stakeTip
      /\ merge.epoch \in StakeEpoch /\ merge.height \in RowAge
      /\ jailRows \in [StakeEpoch -> RowAge] /\ \A e \in StakeEpoch : jailRows[e] <= stakeTip
      /\ healthRows \in RowAge /\ healthRows <= stakeTip
      /\ stakeFaults \in 0..MaxStakeFaults
  BY DEF ValidatorsInv, ValidatorsTypeOK, RatiosAreOfTheirEpoch, Merge
<1>2. NoRow <= stakeTip /\ stakeTip <= stakeTip /\ stakeTip \in RowAge
  BY <1>1, StakeEpochs DEF NoRow, RowAge
<1>3. ASSUME NEW e \in StakeEpoch, NEW h \in StakeHeight, StartMerge(e, h)
      PROVE  ValidatorsInv' /\ ratioRows' = ratioRows
  <2>1. /\ merge' \in {[NoWatch EXCEPT !.pc = "health"], [pc |-> "jail", epoch |-> e, height |-> h]}
        /\ h <= stakeTip
        /\ UNCHANGED <<stakeTip, jailRows, ratioRows, healthRows, watch, stakeFaults>>
    BY <1>3 DEF StartMerge, validatorTables
  <2>2. merge' \in Merge /\ merge'.height <= stakeTip
    BY <1>2, <2>1, StakeEpochs DEF Merge, NoWatch, RowAge, NoRow
  <2> QED BY <1>1, <2>1, <2>2, MergeKeeps
<1>4. CASE MergeJail
  <2>1. /\ merge' = [NoWatch EXCEPT !.pc = "health"]
        /\ jailRows' \in {jailRows, [jailRows EXCEPT ![merge.epoch] = merge.height]}
        /\ stakeFaults' = stakeFaults \/ StakeFault
        /\ UNCHANGED <<stakeTip, ratioRows, healthRows, watch>>
    BY <1>4 DEF MergeJail, StoreJail, Stored
  <2>2. merge' \in Merge /\ merge'.height <= stakeTip
    BY <1>2, <2>1, StakeEpochs DEF Merge, NoWatch, RowAge, NoRow
  <2>3. /\ jailRows' \in [StakeEpoch -> RowAge]
        /\ \A e \in StakeEpoch : jailRows'[e] <= stakeTip
    BY <1>1, <2>1
  <2>4. stakeFaults' \in 0..MaxStakeFaults
    BY <1>1, <2>1, StakeFaultCounts
  <2> QED BY <1>1, <2>1, <2>2, <2>3, <2>4, MergeKeeps
<1>5. CASE LookAtHealth
  <2> DEFINE m == [pc |-> "checks", epoch |-> 1, height |-> stakeTip]
  <2>1. /\ merge' = m \/ merge' = NoWatch
        /\ UNCHANGED <<stakeTip, jailRows, ratioRows, healthRows, watch, stakeFaults>>
    BY <1>5 DEF LookAtHealth, validatorTables, NoWatch
  <2>2. m \in Merge /\ m.height = stakeTip
    BY <1>2, StakeEpochs DEF Merge
  <2> HIDE DEF m
  <2>3. merge' \in Merge /\ merge'.height <= stakeTip
    BY <1>2, <2>1, <2>2, NoWatchTyped
  <2> QED BY <1>1, <2>1, <2>3, MergeKeeps
<1>6. CASE MergeHealth
  <2>1. /\ merge' = NoWatch /\ healthRows' = merge.height
        /\ UNCHANGED <<stakeTip, jailRows, ratioRows, watch, stakeFaults>>
    BY <1>6 DEF MergeHealth, StoreHealth, Stored
  <2>2. merge' \in Merge /\ merge'.height <= stakeTip
    BY <1>2, <2>1, NoWatchTyped
  <2>3. healthRows' \in RowAge /\ healthRows' <= stakeTip
    BY <1>1, <2>1
  <2> QED BY <1>1, <2>1, <2>2, <2>3, MergeKeeps
<1> QED BY <1>3, <1>4, <1>5, <1>6 DEF MergeStep

LEMMA StakeRestartInv ==
    ASSUME ValidatorsInv, ValidatorsRestart
    PROVE  ValidatorsInv' /\ ratioRows' = ratioRows
<1>1. /\ StakeFault /\ watch' = [w \in Watcher |-> NoWatch] /\ merge' = NoWatch
      /\ UNCHANGED <<stakeTip, jailRows, ratioRows, healthRows>>
  BY DEF ValidatorsRestart, validatorTables
<1>2. NoRow <= stakeTip
  BY StakeEpochs DEF ValidatorsInv, ValidatorsTypeOK, NoRow
<1>3. stakeFaults' \in 0..MaxStakeFaults
  BY <1>1, StakeFaultCounts
<1>4. /\ watch' \in [Watcher -> Watch] /\ merge' \in Merge /\ merge'.height <= stakeTip'
      /\ \A w \in Watcher : watch'[w].height <= stakeTip' /\ watch'[w].pc = "idle"
  BY <1>1, <1>2, NoWatchTyped
<1>5. ConfirmationOrder'
  BY <1>4 DEF ConfirmationOrder, Watcher
<1>6. ValidatorsTypeOK' /\ RatiosAreOfTheirEpoch'
  BY <1>1, <1>3, <1>4 DEF ValidatorsInv, ValidatorsTypeOK, RatiosAreOfTheirEpoch, StakeEpochAt
<1> QED BY <1>1, <1>4, <1>5, <1>6 DEF ValidatorsInv

LEMMA ValidatorsStep ==
    ValidatorsInv /\ [ValidatorsNext]_validatorVars =>
        ValidatorsInv' /\ \A e \in StakeEpoch : ratioRows'[e] >= ratioRows[e]
<1> SUFFICES ASSUME ValidatorsInv, [ValidatorsNext]_validatorVars
             PROVE  ValidatorsInv' /\ \A e \in StakeEpoch : ratioRows'[e] >= ratioRows[e]
  OBVIOUS
<1>1. ratioRows' = ratioRows => \A e \in StakeEpoch : ratioRows'[e] >= ratioRows[e]
  BY RatiosStay
<1>2. CASE StakeChainGrows
  BY <1>1, <1>2, StakeGrowsInv
<1>3. ASSUME NEW w \in Watcher, ReadStakeMembers(w) \/ WatchStep(w) \/ WatchFails(w)
      PROVE  ValidatorsInv' /\ \A e \in StakeEpoch : ratioRows'[e] >= ratioRows[e]
  BY <1>1, <1>3, WatchReadsInv, WatchStoresInv DEF WatchStep
<1>4. CASE MergeStep \/ \E e \in StakeEpoch, h \in StakeHeight : StartMerge(e, h)
  BY <1>1, <1>4, MergeInv
<1>5. CASE ValidatorsRestart
  BY <1>1, <1>5, StakeRestartInv
<1>6. CASE UNCHANGED validatorVars
  BY <1>1, <1>6 DEF validatorVars, ValidatorsInv, ValidatorsTypeOK, RatiosAreOfTheirEpoch,
                    ConfirmationOrder, StakeEpochNow, StakeEpochAt
<1>7. {"jail", "health"} \subseteq Watcher /\ {"confirmation"} \subseteq Watcher
  BY DEF Watcher
<1> QED
  BY <1>2, <1>3, <1>4, <1>5, <1>6, <1>7
     DEF ValidatorsNext, JailAndHealthNext, ConfirmationNext

THEOREM ValidatorsInvariant == ValidatorsSpec => []ValidatorsInv
BY ValidatorsInitInv, ValidatorsStep, PTL DEF ValidatorsSpec

\* merge_jail_and_health_data and the three pollers store nothing from a height
\* to come, and poll_confirmation_data nothing from before its epoch.
THEOREM RatiosKeepTheirEpoch == ValidatorsSpec => []RatiosAreOfTheirEpoch
<1>1. ValidatorsInv => RatiosAreOfTheirEpoch
  BY DEF ValidatorsInv
<1> QED BY <1>1, ValidatorsInvariant, PTL

\* save_confirmation_data_batch never puts older data over newer.
THEOREM RatiosNeverGoBack == ValidatorsSpec => RatiosOnlyAdvance
<1>1. ValidatorsInv /\ [ValidatorsNext]_validatorVars =>
         [\A e \in StakeEpoch : ratioRows'[e] >= ratioRows[e]]_validatorVars
  BY ValidatorsStep
<1> QED BY <1>1, ValidatorsInvariant, PTL DEF ValidatorsSpec, RatiosOnlyAdvance

-----------------------------------------------------------------------------
(***************************************************************************)
(* The models page                                                         *)
(***************************************************************************)

\* Nobody works for an epoch to come, and whoever holds participants holds
\* those of the epoch it works for or of a later one.
TaskOK(t) ==
    /\ t.epoch <= EpochNow
    /\ t.from # Nothing => t.from >= t.epoch
    /\ t.pc = "members" => t.from = Nothing
    /\ t.pc = "weights" => t.from # Nothing

ModelsInv ==
    /\ ModelsTypeOK
    /\ WeightsComeNoEarlier
    /\ knownEpoch <= EpochNow
    /\ \A c \in Reader : TaskOK(task[c])
    /\ \A c \in Reader \ {"poll"} : task[c].pc = "height" => task[c].from # Nothing
    /\ task["visit"].pc # "members"

LEMMA ModelConstants ==
    /\ ModelEpochLength \in Nat \ {0} /\ MaxModelTip \in Nat \ {0}
    /\ ModelEpochOffset \in Nat /\ ModelEpochOffset <= ModelEpochLength
    /\ VisitedHeights \subseteq NameableHeight /\ MaxModelEvents \in Nat
    /\ ModelHeight \subseteq NameableHeight /\ NameableHeight \subseteq Nat \ {0}
    /\ 1 \in ModelHeight /\ MaxModelTip \in ModelHeight
    /\ ModelHeight \subseteq Nat \ {0}
BY ModelsAssumption DEF NameableHeight, ModelHeight

\* Later heights lie in later epochs, and every height in one.
LEMMA ModelEpochs ==
    /\ ModelEpoch \subseteq Nat \ {0} /\ 1 \in ModelEpoch
    /\ \A h \in ModelHeight : EpochAtHeight(h) \in ModelEpoch
    /\ \A h, k \in ModelHeight : h <= k => EpochAtHeight(h) <= EpochAtHeight(k)
<1>1. \A h \in ModelHeight : (h - 1) \div ModelEpochLength \in Nat
  <2> SUFFICES ASSUME NEW h \in ModelHeight PROVE (h - 1) \div ModelEpochLength \in Nat
    OBVIOUS
  <2>1. h - 1 \in Nat
    BY ModelConstants
  <2> QED BY <2>1, ModelConstants, Division
<1>2. ASSUME NEW h \in ModelHeight, NEW k \in ModelHeight, h <= k
      PROVE  EpochAtHeight(h) <= EpochAtHeight(k)
  <2>1. h - 1 \in Nat /\ k - 1 \in Nat /\ h - 1 <= k - 1
    BY <1>2, ModelConstants
  <2>2. (h - 1) \div ModelEpochLength <= (k - 1) \div ModelEpochLength
    BY <2>1, ModelConstants, QuotientRises
  <2> QED BY <1>1, <2>2 DEF EpochAtHeight
<1>3. \A h \in ModelHeight : EpochAtHeight(h) \in Nat \ {0} /\ h <= MaxModelTip
  BY <1>1, ModelConstants DEF EpochAtHeight, ModelHeight
<1> QED BY <1>2, <1>3, ModelConstants DEF ModelEpoch

\* The height a visitor reads at is one that can be named.
LEMMA VisitedHeightTyped ==
    ASSUME ModelsTypeOK, NEW e \in ModelEpoch, NEW asked \in NameableHeight \cup {Unnamed}
    PROVE  VisitedHeight(e, asked) \in NameableHeight
<1>1. modelTip \in Nat \ {0} /\ modelTip \in NameableHeight
  BY ModelConstants DEF ModelsTypeOK
<1>2. \A a, b \in Nat \ {0} :
         Min({a, b}) \in {a, b} /\ Min({a, b}) <= a /\ Min({a, b}) <= b
  <2> SUFFICES ASSUME NEW a \in Nat \ {0}, NEW b \in Nat \ {0}
               PROVE  Min({a, b}) \in {a, b} /\ Min({a, b}) <= a /\ Min({a, b}) <= b
    OBVIOUS
  <2>1. \E x \in {a, b} : \A y \in {a, b} : x =< y
    OBVIOUS
  <2> QED BY <2>1 DEF Min
<1> DEFINE last == EpochStart(e + 1) - ModelEpochOffset
           canonical == Min({modelTip, last})
<1>3. last \in Nat \ {0}
  <2>1. e \in Nat \ {0}
    BY ModelEpochs
  <2>2. e * ModelEpochLength \in Nat /\ e * ModelEpochLength >= ModelEpochLength
    BY <2>1, ModelConstants
  <2>3. EpochStart(e + 1) = e * ModelEpochLength + 1
    BY <2>1, ModelConstants DEF EpochStart
  <2> QED BY <2>2, <2>3, ModelConstants
<1> HIDE DEF last
<1>4. canonical \in Nat \ {0} /\ canonical <= modelTip
  BY <1>1, <1>2, <1>3
<1>5. canonical \in NameableHeight
  BY <1>1, <1>4, ModelConstants DEF NameableHeight
<1>6. PastHeight(e, asked) = IF asked = Unnamed THEN canonical ELSE Min({asked, canonical})
  BY DEF PastHeight, last
<1> HIDE DEF canonical
<1>7. asked # Unnamed => Min({asked, canonical}) \in NameableHeight
  BY <1>2, <1>4, <1>5, ModelConstants
<1> QED BY <1>1, <1>5, <1>6, <1>7 DEF VisitedHeight

LEMMA NoTaskOK ==
    ASSUME ModelsTypeOK PROVE NoTask \in ModelTask /\ TaskOK(NoTask) /\ NoTask.pc = "idle"
<1>1. EpochNow \in Nat \ {0}
  BY ModelEpochs DEF EpochNow, ModelsTypeOK
<1> QED BY <1>1, ModelEpochs DEF NoTask, ModelTask, TaskOK, Nothing

LEMMA ModelEventCounts ==
    ASSUME ModelsInv, ModelEvent PROVE modelEvents' \in 0..MaxModelEvents
BY ModelConstants DEF ModelEvent, ModelsInv, ModelsTypeOK

LEMMA ModelsInitInv == ModelsInit => ModelsInv
<1> SUFFICES ASSUME ModelsInit PROVE ModelsInv
  OBVIOUS
<1>1. /\ modelTip \in ModelHeight /\ modelEvents \in 0..MaxModelEvents
      /\ knownEpoch = Nothing
  BY ModelConstants DEF ModelsInit
<1>2. Nothing <= EpochNow
  <2>1. EpochNow \in Nat \ {0}
    BY <1>1, ModelEpochs DEF EpochNow
  <2> QED BY <2>1 DEF Nothing
<1>3. NoTask \in ModelTask
  BY ModelEpochs DEF NoTask, ModelTask
<1>4. ModelsTypeOK
  BY <1>1, <1>3 DEF ModelsInit, ModelsTypeOK
<1>5. /\ \A c \in Reader : task[c] = NoTask
      /\ \A e \in ModelEpoch : modelWeights[e] = Nothing
  BY DEF ModelsInit
<1> QED BY <1>1, <1>2, <1>4, <1>5, NoTaskOK DEF ModelsInv, WeightsComeNoEarlier, Reader

\* The epoch in memory, asked for if there is none.
LEMMA KnownTyped ==
    ASSUME ModelsInv PROVE KnownOrLatest \in ModelEpoch /\ KnownOrLatest <= EpochNow
<1>1. EpochNow \in ModelEpoch
  BY ModelEpochs DEF EpochNow, ModelsInv, ModelsTypeOK
<1>2. EpochNow <= EpochNow
  BY <1>1, ModelEpochs
<1> QED BY <1>1, <1>2 DEF KnownOrLatest, ModelsInv, ModelsTypeOK

\* A reader moves: the tables and the chain are as they were.
LEMMA TaskMoves ==
    ASSUME ModelsInv, NEW c \in Reader, NEW t \in ModelTask, TaskOK(t),
           c # "poll" /\ t.pc = "height" => t.from # Nothing,
           c = "visit" => t.pc # "members",
           task' = [task EXCEPT ![c] = t], UNCHANGED <<modelTip, modelTables>>,
           knownEpoch' \in ModelEpoch \cup {Nothing}, knownEpoch' <= EpochNow,
           modelEvents' \in 0..MaxModelEvents
    PROVE  ModelsInv'
<1>1. UNCHANGED <<modelTip, modelWeights, modelAnswers>>
  BY DEF modelTables
<1>2. /\ task' \in [Reader -> ModelTask] /\ task'[c] = t
      /\ \A d \in Reader : d # c => task'[d] = task[d]
  BY DEF ModelsInv, ModelsTypeOK
<1>3. ModelsTypeOK' /\ WeightsComeNoEarlier' /\ knownEpoch' <= EpochNow'
  BY <1>1, <1>2 DEF ModelsInv, ModelsTypeOK, WeightsComeNoEarlier, EpochNow, EpochAtHeight
<1>4. \A d \in Reader : TaskOK(task[d])'
  BY <1>1, <1>2 DEF ModelsInv, TaskOK, EpochNow, EpochAtHeight
<1>5. /\ \A d \in Reader \ {"poll"} : task'[d].pc = "height" => task'[d].from # Nothing
      /\ task'["visit"].pc # "members"
  BY <1>2 DEF ModelsInv, Reader
<1> QED BY <1>3, <1>4, <1>5 DEF ModelsInv

LEMMA ModelChainInv ==
    ASSUME ModelsInv, ModelChainGrows \/ RememberEpoch PROVE ModelsInv'
<1>1. modelTip \in ModelHeight /\ EpochNow \in ModelEpoch /\ EpochNow \in Nat
  BY ModelEpochs DEF ModelsInv, ModelsTypeOK, EpochNow
<1>2. CASE ModelChainGrows
  <2>1. /\ modelTip < MaxModelTip /\ modelTip' = modelTip + 1
        /\ UNCHANGED <<knownEpoch, modelWeights, modelAnswers, task, modelEvents>>
    BY <1>2 DEF ModelChainGrows, modelTables
  <2>2. modelTip' \in ModelHeight /\ modelTip <= modelTip'
    BY <1>1, <2>1, ModelConstants DEF ModelHeight
  <2>3. EpochNow' \in Nat /\ EpochNow <= EpochNow'
    BY <1>1, <2>2, ModelEpochs DEF EpochNow, EpochAtHeight
  <2>4. \A e \in ModelEpoch \cup {Nothing} : e <= EpochNow => e <= EpochNow'
    BY <1>1, <2>3, ModelEpochs DEF Nothing
  <2>5. knownEpoch \in ModelEpoch \cup {Nothing} /\ \A c \in Reader : task[c].epoch \in ModelEpoch
    BY DEF ModelsInv, ModelsTypeOK, ModelTask
  <2> QED
    BY <2>1, <2>2, <2>4, <2>5 DEF ModelsInv, ModelsTypeOK, WeightsComeNoEarlier, TaskOK
<1>3. CASE RememberEpoch
  <2>1. /\ knownEpoch' = EpochNow
        /\ UNCHANGED <<modelTip, modelWeights, modelAnswers, task, modelEvents>>
    BY <1>3 DEF RememberEpoch, modelTables
  <2>2. EpochNow' = EpochNow /\ knownEpoch' <= EpochNow
    BY <1>1, <2>1 DEF EpochNow, EpochAtHeight
  <2> QED
    BY <1>1, <2>1, <2>2 DEF ModelsInv, ModelsTypeOK, WeightsComeNoEarlier, TaskOK
<1> QED BY <1>2, <1>3

\* Whoever starts has read the epoch from memory or from the chain.
LEMMA ModelStartsInv ==
    ASSUME ModelsInv,
           OpenModels \/ PollModels
              \/ \E e \in ModelEpoch, h \in VisitedHeights \cup {Unnamed} : VisitModels(e, h)
    PROVE  ModelsInv'
<1>1. /\ EpochNow \in Nat \ {0} /\ modelEvents \in 0..MaxModelEvents
      /\ knownEpoch \in ModelEpoch \cup {Nothing} /\ knownEpoch <= EpochNow
      /\ ModelEpoch \subseteq Nat \ {0} /\ 1 \in ModelEpoch /\ NoTask \in ModelTask
  BY ModelEpochs, NoTaskOK DEF ModelsInv, ModelsTypeOK, EpochNow
<1>2. CASE OpenModels
  <2> DEFINE t == [NoTask EXCEPT !.pc = "members", !.epoch = KnownOrLatest]
  <2>1. /\ task' = task \/ task' = [task EXCEPT !["page"] = t]
        /\ knownEpoch' = KnownOrLatest /\ UNCHANGED <<modelTip, modelTables, modelEvents>>
    BY <1>2 DEF OpenModels
  <2>2. /\ t \in ModelTask /\ t.epoch = KnownOrLatest /\ t.from = Nothing /\ t.pc = "members"
    BY <1>1, KnownTyped DEF NoTask, ModelTask
  <2>3. TaskOK(t)
    BY <2>2, KnownTyped DEF TaskOK
  <2> HIDE DEF t
  <2>4. CASE task' = task
    BY <2>1, <2>4, KnownTyped DEF ModelsInv, ModelsTypeOK, WeightsComeNoEarlier, TaskOK, EpochNow,
                                  EpochAtHeight, modelTables
  <2>5. CASE task' = [task EXCEPT !["page"] = t]
    <3>1. "page" \in Reader
      BY DEF Reader
    <3> QED BY <1>1, <2>1, <2>2, <2>3, <2>5, <3>1, KnownTyped, TaskMoves
  <2> QED BY <2>1, <2>4, <2>5
<1>3. ASSUME NEW e \in ModelEpoch, NEW h \in VisitedHeights \cup {Unnamed}, VisitModels(e, h)
      PROVE  ModelsInv'
  <2> DEFINE t == [NoTask EXCEPT !.pc = "height", !.epoch = e, !.from = e, !.height = h]
  <2>1. /\ e <= EpochNow /\ ModelEvent /\ task' = [task EXCEPT !["visit"] = t]
        /\ UNCHANGED <<modelTip, knownEpoch, modelTables>>
    BY <1>3 DEF VisitModels
  <2>2. h \in NameableHeight \cup {Unnamed} /\ e \in Nat \ {0}
    BY <1>1, ModelConstants
  <2>3. t \in ModelTask /\ t.epoch = e /\ t.from = e /\ t.pc = "height"
    BY <2>2 DEF NoTask, ModelTask
  <2>4. TaskOK(t) /\ t.from # Nothing
    BY <2>1, <2>2, <2>3 DEF TaskOK, Nothing
  <2> HIDE DEF t
  <2>5. "visit" \in Reader
    BY DEF Reader
  <2> QED BY <1>1, <2>1, <2>3, <2>4, <2>5, ModelEventCounts, TaskMoves
<1>4. CASE PollModels
  <2> DEFINE t == [NoTask EXCEPT !.pc = "members"]
  <2>1. /\ task' = [task EXCEPT !["poll"] = t]
        /\ UNCHANGED <<modelTip, knownEpoch, modelTables, modelEvents>>
    BY <1>4 DEF PollModels
  <2>2. t \in ModelTask /\ t.epoch = 1 /\ t.from = Nothing /\ t.pc = "members"
    BY <1>1 DEF NoTask, ModelTask
  <2>3. TaskOK(t)
    BY <1>1, <2>2 DEF TaskOK
  <2> HIDE DEF t
  <2>4. "poll" \in Reader
    BY DEF Reader
  <2> QED BY <1>1, <2>1, <2>2, <2>3, <2>4, TaskMoves
<1> QED BY <1>2, <1>3, <1>4

LEMMA MembersReadInv ==
    ASSUME ModelsInv, NEW c \in Reader, ReadModelMembers(c) PROVE ModelsInv'
<1> DEFINE t == [task[c] EXCEPT !.pc = "height",
                                !.from = IF c = "page" THEN EpochNow ELSE @,
                                !.epoch = IF c = "poll" THEN EpochNow ELSE @]
<1>1. /\ task[c] \in ModelTask /\ TaskOK(task[c]) /\ task[c].pc = "members"
      /\ EpochNow \in ModelEpoch /\ EpochNow \in Nat \ {0}
      /\ task[c].epoch \in ModelEpoch /\ task[c].epoch \in Nat
      /\ task[c].from \in ModelEpoch \cup {Nothing}
  BY ModelEpochs DEF ModelsInv, ModelsTypeOK, EpochNow, ModelTask, ReadModelMembers
<1>2. /\ task' = [task EXCEPT ![c] = t]
      /\ UNCHANGED <<modelTip, knownEpoch, modelTables, modelEvents>>
  BY <1>1 DEF ReadModelMembers, ModelsInv, ModelsTypeOK, ModelTask
<1>3. t \in ModelTask
  BY <1>1 DEF ModelTask
<1>4. /\ t.pc = "height"
      /\ t.from = IF c = "page" THEN EpochNow ELSE task[c].from
      /\ t.epoch = IF c = "poll" THEN EpochNow ELSE task[c].epoch
  BY <1>1 DEF ModelTask
<1> HIDE DEF t
<1>5. c \in {"page", "poll"} /\ task[c].from = Nothing
  BY <1>1 DEF ModelsInv, Reader, TaskOK
<1>6. TaskOK(t)
  BY <1>1, <1>4, <1>5 DEF TaskOK, Nothing
<1>7. c # "poll" => t.from # Nothing
  BY <1>1, <1>4, <1>5 DEF Nothing
<1> QED BY <1>1, <1>2, <1>3, <1>4, <1>5, <1>6, <1>7, TaskMoves DEF ModelsInv, ModelsTypeOK

LEMMA HeightReadInv ==
    ASSUME ModelsInv, NEW c \in Reader, ReadModelHeight(c) PROVE ModelsInv'
<1> DEFINE h == IF c = "visit" THEN VisitedHeight(task[c].epoch, task[c].height) ELSE modelTip
           next == AfterHeight(c, task[c].epoch, h)
           t == [task[c] EXCEPT !.pc = next, !.height = h,
                                !.from = IF next = "weights" THEN @ ELSE Nothing]
<1>1. /\ task[c] \in ModelTask /\ TaskOK(task[c]) /\ task[c].pc = "height"
      /\ task[c].epoch \in ModelEpoch /\ task[c].from \in ModelEpoch \cup {Nothing}
      /\ task[c].height \in NameableHeight \cup {Unnamed}
  BY DEF ModelsInv, ModelsTypeOK, ModelTask, ReadModelHeight
<1>2. /\ knownEpoch' \in {KnownOrLatest, knownEpoch}
      /\ task' = [task EXCEPT ![c] = IF next = "idle" THEN NoTask ELSE t]
      /\ UNCHANGED <<modelTip, modelTables, modelEvents>>
  BY <1>1 DEF ReadModelHeight, ModelsInv, ModelsTypeOK, ModelTask
<1>3. h \in NameableHeight
  BY <1>1, VisitedHeightTyped, ModelConstants DEF ModelsInv, ModelsTypeOK
<1> HIDE DEF h
<1>4. /\ next \in {"weights", "answer", "idle"}
      /\ next = "weights" => c # "poll"
  BY DEF AfterHeight
<1> HIDE DEF next
<1>5. t \in ModelTask
  BY <1>1, <1>3, <1>4 DEF ModelTask
<1>6. /\ t.pc = next /\ t.epoch = task[c].epoch
      /\ t.from = IF next = "weights" THEN task[c].from ELSE Nothing
  BY <1>1 DEF ModelTask
<1> HIDE DEF t
<1>7. c # "poll" => task[c].from # Nothing
  BY <1>1 DEF ModelsInv
<1>8. TaskOK(t)
  BY <1>1, <1>4, <1>6, <1>7 DEF TaskOK
<1>9. /\ knownEpoch' \in ModelEpoch \cup {Nothing} /\ knownEpoch' <= EpochNow
      /\ modelEvents' \in 0..MaxModelEvents
  BY <1>2, KnownTyped DEF ModelsInv, ModelsTypeOK
<1>10. CASE next = "idle"
  BY <1>2, <1>9, <1>10, NoTaskOK, TaskMoves DEF ModelsInv
<1>11. CASE next # "idle"
  BY <1>2, <1>4, <1>5, <1>6, <1>8, <1>9, <1>11, TaskMoves
<1> QED BY <1>10, <1>11

LEMMA WeightsSavedInv ==
    ASSUME ModelsInv, NEW c \in Reader, SaveWeights(c) PROVE ModelsInv'
<1> DEFINE t == [task[c] EXCEPT !.pc = "answer", !.from = Nothing]
<1>1. /\ task[c] \in ModelTask /\ TaskOK(task[c]) /\ task[c].pc = "weights"
      /\ task[c].epoch \in ModelEpoch /\ task[c].from \in ModelEpoch \cup {Nothing}
  BY DEF ModelsInv, ModelsTypeOK, ModelTask, SaveWeights
<1>2. /\ modelWeights' = [modelWeights EXCEPT ![task[c].epoch] = task[c].from]
      /\ task' = [task EXCEPT ![c] = t] \/ task' = [task EXCEPT ![c] = NoTask]
      /\ UNCHANGED <<modelTip, knownEpoch, modelAnswers, modelEvents>>
  BY <1>1 DEF SaveWeights, ModelsInv, ModelsTypeOK, ModelTask
<1>3. task[c].from # Nothing /\ task[c].from >= task[c].epoch
  BY <1>1 DEF TaskOK
<1>4. /\ modelWeights' \in [ModelEpoch -> ModelEpoch \cup {Nothing}]
      /\ WeightsComeNoEarlier'
  BY <1>1, <1>2, <1>3 DEF ModelsInv, ModelsTypeOK, WeightsComeNoEarlier
<1>5. t \in ModelTask /\ TaskOK(t) /\ t.pc = "answer"
  BY <1>1 DEF ModelTask, TaskOK
<1> HIDE DEF t
<1>6. PICK s : task' = [task EXCEPT ![c] = s] /\ s \in ModelTask /\ TaskOK(s) /\ s.pc \in {"answer", "idle"}
  BY <1>2, <1>5, NoTaskOK DEF ModelsInv
<1>7. /\ task' \in [Reader -> ModelTask] /\ task'[c] = s
      /\ \A d \in Reader : d # c => task'[d] = task[d]
  BY <1>6 DEF ModelsInv, ModelsTypeOK
<1>8. /\ \A d \in Reader : TaskOK(task[d])'
      /\ \A d \in Reader \ {"poll"} : task'[d].pc = "height" => task'[d].from # Nothing
      /\ task'["visit"].pc # "members"
  BY <1>2, <1>6, <1>7 DEF ModelsInv, TaskOK, EpochNow, EpochAtHeight, Reader
<1> QED
  BY <1>2, <1>4, <1>7, <1>8 DEF ModelsInv, ModelsTypeOK, EpochNow, EpochAtHeight

LEMMA AnswerStoredInv ==
    ASSUME ModelsInv, NEW c \in Reader, StoreAnswer(c) PROVE ModelsInv'
<1>1. /\ modelAnswers' = [modelAnswers EXCEPT ![task[c].epoch][task[c].height] = modelTip]
      /\ task' = [task EXCEPT ![c] = NoTask]
      /\ UNCHANGED <<modelTip, knownEpoch, modelWeights, modelEvents>>
  BY DEF StoreAnswer
<1>2. modelAnswers' \in [ModelEpoch -> [NameableHeight -> ModelHeight \cup {Nothing}]]
  BY <1>1 DEF ModelsInv, ModelsTypeOK
<1>3. NoTask \in ModelTask /\ TaskOK(NoTask) /\ NoTask.pc = "idle"
  BY NoTaskOK DEF ModelsInv
<1>4. /\ task' \in [Reader -> ModelTask] /\ task'[c] = NoTask
      /\ \A d \in Reader : d # c => task'[d] = task[d]
  BY <1>1, <1>3 DEF ModelsInv, ModelsTypeOK
<1>5. /\ \A d \in Reader : TaskOK(task[d])'
      /\ \A d \in Reader \ {"poll"} : task'[d].pc = "height" => task'[d].from # Nothing
      /\ task'["visit"].pc # "members"
  BY <1>1, <1>3, <1>4 DEF ModelsInv, TaskOK, EpochNow, EpochAtHeight, Reader
<1> QED
  BY <1>1, <1>2, <1>4, <1>5
     DEF ModelsInv, ModelsTypeOK, WeightsComeNoEarlier, EpochNow, EpochAtHeight

\* A request that is refused or fails, and a restart.
LEMMA ModelEndsInv ==
    ASSUME ModelsInv, RefuseHeight \/ ModelsRestart \/ \E c \in Reader : ModelRequestFails(c)
    PROVE  ModelsInv'
<1>1. /\ NoTask \in ModelTask /\ TaskOK(NoTask) /\ NoTask.pc = "idle"
      /\ "visit" \in Reader /\ modelEvents \in 0..MaxModelEvents
      /\ knownEpoch \in ModelEpoch \cup {Nothing} /\ knownEpoch <= EpochNow
  BY NoTaskOK DEF ModelsInv, ModelsTypeOK, Reader
<1>2. CASE RefuseHeight
  <2>1. /\ task' = [task EXCEPT !["visit"] = NoTask] /\ knownEpoch' = KnownOrLatest
        /\ UNCHANGED <<modelTip, modelTables, modelEvents>>
    BY <1>2 DEF RefuseHeight
  <2> QED BY <1>1, <2>1, KnownTyped, TaskMoves
<1>3. ASSUME NEW c \in Reader, ModelRequestFails(c) PROVE ModelsInv'
  <2>1. /\ task' = [task EXCEPT ![c] = NoTask] /\ ModelEvent
        /\ UNCHANGED <<modelTip, knownEpoch, modelTables>>
    BY <1>3 DEF ModelRequestFails
  <2> QED BY <1>1, <2>1, ModelEventCounts, TaskMoves
<1>4. CASE ModelsRestart
  <2>1. /\ ModelEvent /\ knownEpoch' = Nothing /\ task' = [c \in Reader |-> NoTask]
        /\ UNCHANGED <<modelTip, modelWeights, modelAnswers>>
    BY <1>4 DEF ModelsRestart, modelTables
  <2>2. EpochNow' = EpochNow /\ Nothing <= EpochNow
    <3>1. EpochNow \in Nat
      BY ModelEpochs DEF ModelsInv, ModelsTypeOK, EpochNow
    <3> QED BY <2>1, <3>1 DEF EpochNow, EpochAtHeight, Nothing
  <2>3. /\ task' \in [Reader -> ModelTask]
        /\ \A d \in Reader : task'[d] = NoTask
    BY <1>1, <2>1
  <2>4. modelEvents' \in 0..MaxModelEvents
    BY <2>1, ModelEventCounts
  <2> QED
    BY <1>1, <2>1, <2>2, <2>3, <2>4 DEF ModelsInv, ModelsTypeOK, WeightsComeNoEarlier, TaskOK
<1> QED BY <1>2, <1>3, <1>4

LEMMA ModelsStep == ModelsInv /\ [ModelsNext]_modelVars => ModelsInv'
<1> SUFFICES ASSUME ModelsInv, [ModelsNext]_modelVars PROVE ModelsInv'
  OBVIOUS
<1>1. CASE ModelsNext
  BY <1>1, ModelChainInv, ModelStartsInv, MembersReadInv, HeightReadInv, WeightsSavedInv,
     AnswerStoredInv, ModelEndsInv DEF ModelsNext, ModelStep
<1>2. CASE UNCHANGED modelVars
  BY <1>2 DEF modelVars, modelTables, ModelsInv, ModelsTypeOK, WeightsComeNoEarlier, TaskOK, EpochNow,
              EpochAtHeight
<1> QED BY <1>1, <1>2

THEOREM ModelsInvariant == ModelsSpec => []ModelsInv
BY ModelsInitInv, ModelsStep, PTL DEF ModelsSpec

\* save_models_batch keeps under an epoch the sums over its participants or
\* over those of a later epoch (which it does: ModelsOfTheirEpoch is violated),
\* but whatever is stale in memory never over those of an earlier one.
THEOREM WeightsAreNeverOfThePast == ModelsSpec => []WeightsComeNoEarlier
<1>1. ModelsInv => WeightsComeNoEarlier
  BY DEF ModelsInv
<1> QED BY <1>1, ModelsInvariant, PTL

-----------------------------------------------------------------------------
(***************************************************************************)
(* The inferences of the participants                                      *)
(***************************************************************************)

\* What is stored of worker p under epoch e is as RowsAreTrue says.
RowTrue(e, p, rows) ==
    \A s \in Ended :
        LET kept == {i \in Inference : <<i, s>> \in rows} IN
        /\ \A i \in kept : AssignedTo[i] = p /\ WasOnce(i, s) /\ FiledRight(e, i, s)
        /\ Cardinality(kept) <= TopLimit

\* An inference has started when the chain has reached its start, and what a
\* round was told of one was once true.
InferencesInv ==
    /\ InferencesTypeOK
    /\ RowsAreTrue
    /\ \A i \in Inference : workStatus[i] = "absent" <=> InferenceStart[i] > workTip
    /\ \A i \in Inference, s \in Ended : round.got[i] = s => WasOnce(i, s)

LEMMA WorkConstants ==
    /\ InferenceEpochLength \in Nat \ {0} /\ TopLimit \in Nat \ {0}
    /\ MaxInferenceTip \in Nat \ {0} /\ MaxInferenceFaults \in Nat
    /\ IsFiniteSet(Inference) /\ Inference \subseteq Nat \ {0}
    /\ \A i \in Inference : InferenceStart[i] \in Nat \ {0} /\ AssignedTo[i] \in Workers
    /\ \A e \in 1..LastEpochOfWork : WorkersOf[e] \subseteq Workers
<1>1. /\ InferenceStart \in Seq(Nat \ {0})
      /\ AssignedTo \in [Inference -> Workers]
  BY InferencesAssumption DEF Inference
<1>2. /\ Len(InferenceStart) \in Nat /\ Inference = 1..Len(InferenceStart)
      /\ \A i \in Inference : InferenceStart[i] \in Nat \ {0}
  BY <1>1 DEF Inference
<1>3. IsFiniteSet(Inference)
  BY <1>2, FS_Interval
<1>4. \A e \in 1..LastEpochOfWork : WorkersOf[e] \subseteq Workers
  BY InferencesAssumption DEF LastEpochOfWork, InferenceEpochAt
<1> QED BY <1>1, <1>2, <1>3, <1>4, InferencesAssumption

\* Later heights lie in later epochs, and every height in one.
LEMMA WorkEpochs ==
    /\ LastEpochOfWork \in Nat \ {0}
    /\ \A h \in Nat \ {0} : InferenceEpochAt(h) \in Nat \ {0}
    /\ \A h \in 1..MaxInferenceTip : InferenceEpochAt(h) \in 1..LastEpochOfWork
<1>1. \A h \in Nat \ {0} : InferenceEpochAt(h) \in Nat \ {0}
  <2> SUFFICES ASSUME NEW h \in Nat \ {0} PROVE InferenceEpochAt(h) \in Nat \ {0}
    OBVIOUS
  <2>1. (h - 1) \div InferenceEpochLength \in Nat
    BY WorkConstants, Division
  <2> QED BY <2>1 DEF InferenceEpochAt
<1>2. ASSUME NEW h \in 1..MaxInferenceTip PROVE InferenceEpochAt(h) <= LastEpochOfWork
  <2>1. h - 1 \in Nat /\ MaxInferenceTip - 1 \in Nat /\ h - 1 <= MaxInferenceTip - 1
    BY WorkConstants
  <2>2. /\ (h - 1) \div InferenceEpochLength <= (MaxInferenceTip - 1) \div InferenceEpochLength
        /\ (h - 1) \div InferenceEpochLength \in Nat
        /\ (MaxInferenceTip - 1) \div InferenceEpochLength \in Nat
    BY <2>1, WorkConstants, QuotientRises, Division
  <2> QED BY <2>2 DEF InferenceEpochAt, LastEpochOfWork
<1>3. LastEpochOfWork \in Nat \ {0}
  BY <1>1, WorkConstants DEF LastEpochOfWork
<1>4. 1..MaxInferenceTip \subseteq Nat \ {0}
  BY WorkConstants
<1>5. ASSUME NEW h \in 1..MaxInferenceTip PROVE InferenceEpochAt(h) \in 1..LastEpochOfWork
  <2>1. InferenceEpochAt(h) \in Nat \ {0} /\ InferenceEpochAt(h) <= LastEpochOfWork
    BY <1>1, <1>2, <1>4
  <2> QED BY <1>3, <2>1
<1> QED BY <1>1, <1>3, <1>5

\* Rounded up, the way back from the epoch at hand leads to the epoch an
\* inference started in, however many epochs ago that was.
LEMMA WayBack ==
    ASSUME NEW now \in Nat \ {0}, NEW start \in Nat \ {0}, start < EffectiveHeight(now)
    PROVE  now - EpochsBack(EffectiveHeight(now) - start) = InferenceEpochAt(start)
<1> DEFINE L == InferenceEpochLength
           q == (start - 1) \div L
           k == now - 1 - q
           a == EffectiveHeight(now) - start + L - 1
<1>1. L \in Nat \ {0} /\ start - 1 \in Nat /\ q \in Nat
  BY WorkConstants, Division
<1>2. L * q <= start - 1 /\ start - 1 < L * (q + 1)
  <2>1. L * q <= start - 1 /\ ~ (L * (q + 1) <= start - 1)
    <3>1. q <= q /\ ~ (q + 1 <= q) /\ q + 1 \in Nat
      BY <1>1
    <3> QED BY <1>1, <3>1, QuotientFits
  <2>2. L * (q + 1) \in Nat
    BY <1>1
  <2> QED BY <1>1, <2>1, <2>2
<1>3. start - 1 < (now - 1) * L
  BY <1>1 DEF EffectiveHeight
<1> HIDE DEF q
<1>4. k \in Nat
  <2>1. q < now - 1
    <3> SUFFICES ASSUME now - 1 <= q PROVE FALSE
      BY <1>1
    <3>1. (now - 1) * L <= L * q
      BY <1>1
    <3>2. (now - 1) * L \in Nat /\ L * q \in Nat
      BY <1>1
    <3> QED BY <1>1, <1>2, <1>3, <3>1, <3>2
  <2> QED BY <1>1, <2>1
<1>5. /\ L * k = (now - 1) * L - L * q
      /\ L * (k + 1) = (now - 1) * L - L * q + L
      /\ L * (q + 1) = L * q + L
      /\ L * q \in Nat /\ (now - 1) * L \in Nat
  BY <1>1
<1>6. /\ a = (now - 1) * L - start + L
  BY <1>1 DEF EffectiveHeight
<1> HIDE DEF k, a, L
<1>7. a \in Nat /\ L * k <= a /\ ~ (L * (k + 1) <= a)
  BY <1>1, <1>2, <1>3, <1>5, <1>6
<1>8. a \div L \in Nat /\ k <= a \div L /\ ~ (k + 1 <= a \div L)
  BY <1>1, <1>4, <1>7, QuotientFits, Division
<1>9. a \div L = k
  BY <1>4, <1>8
<1>10. EpochsBack(EffectiveHeight(now) - start) = k
  BY <1>9 DEF EpochsBack, a, L
<1> QED BY <1>1, <1>10 DEF k, InferenceEpochAt, q, L

\* What the poller files under epoch e did start in it, or expired in a round
\* that began in e, and then it started no earlier.
LEMMA FiledAsTold ==
    ASSUME NEW i \in Inference, NEW s \in Ended, NEW now \in Nat \ {0},
           NEW e, EpochOf(i, s, now) = e
    PROVE  FiledRight(e, i, s)
<1>1. InferenceStart[i] \in Nat \ {0} /\ InferenceEpochAt(InferenceStart[i]) \in Nat \ {0}
  BY WorkConstants, WorkEpochs
<1>2. CASE s # "expired"
  BY <1>2 DEF EpochOf, FiledRight
<1>3. CASE s = "expired" /\ InferenceStart[i] < EffectiveHeight(now)
  <2>1. EffectiveHeight(now) \in Nat
    BY WorkConstants DEF EffectiveHeight
  <2>2. e = now - EpochsBack(EffectiveHeight(now) - InferenceStart[i])
    BY <1>1, <1>3, <2>1 DEF EpochOf
  <2> QED BY <1>1, <1>3, <2>2, WayBack DEF FiledRight
<1>4. CASE s = "expired" /\ InferenceStart[i] >= EffectiveHeight(now)
  <2> DEFINE L == InferenceEpochLength
  <2>1. e = now
    BY <1>4 DEF EpochOf
  <2>2. L \in Nat \ {0} /\ InferenceStart[i] - 1 \in Nat /\ now - 1 \in Nat
    BY <1>1, WorkConstants
  <2>3. L * (now - 1) <= InferenceStart[i] - 1
    BY <1>1, <1>4, <2>2 DEF EffectiveHeight
  <2>4. now - 1 <= (InferenceStart[i] - 1) \div L
    BY <2>2, <2>3, QuotientFits
  <2>5. (InferenceStart[i] - 1) \div L \in Nat
    BY <2>2, Division
  <2>6. InferenceEpochAt(InferenceStart[i]) >= now
    BY <2>4, <2>5 DEF InferenceEpochAt
  <2> QED BY <1>1, <1>4, <2>1, <2>6 DEF FiledRight
<1>5. EffectiveHeight(now) \in Nat
  BY WorkConstants DEF EffectiveHeight
<1> QED BY <1>1, <1>2, <1>3, <1>4, <1>5

\* Of some inferences, one is the oldest: the others come before it.
LEMMA OldestOf ==
    ASSUME NEW N \in SUBSET Inference, N # {}
    PROVE  \E i \in N : \A j \in N : j # i => Newer(j, i)
<1>1. PICK n \in Nat : Inference = 1..n
  BY InferencesAssumption DEF Inference
<1>2. \A i \in N : InferenceStart[i] \in Nat /\ i \in 1..n
  BY <1>1, WorkConstants
<1> DEFINE T == {InferenceStart[i] : i \in N}
<1>3. PICK least \in T : \A h \in T : least <= h
  <2>1. T \subseteq Nat /\ T # {}
    BY <1>2
  <2> HIDE DEF T
  <2> QED BY <2>1, LeastOf
<1>4. /\ \E i \in N : InferenceStart[i] = least
      /\ \A i \in N : least <= InferenceStart[i]
  BY <1>3
<1> HIDE DEF T
<1> DEFINE First == {i \in N : InferenceStart[i] = least}
           D == {n - i : i \in First}
<1>5. PICK d \in D : \A x \in D : d <= x
  <2>1. D \subseteq Nat
    BY <1>2
  <2>2. D # {}
    BY <1>4
  <2> HIDE DEF D
  <2> QED BY <2>1, <2>2, LeastOf
<1>6. PICK i \in First : d = n - i
  BY <1>5
<1>7. \A j \in First : n - i <= n - j
  BY <1>5, <1>6
<1>8. ASSUME NEW j \in N, j # i PROVE Newer(j, i)
  <2>1. /\ InferenceStart[i] \in Nat /\ InferenceStart[j] \in Nat /\ i \in 1..n /\ j \in 1..n
        /\ InferenceStart[i] <= InferenceStart[j] /\ InferenceStart[i] = least
    BY <1>2, <1>4, <1>6
  <2>2. InferenceStart[j] = least => j < i
    BY <1>7, <1>8, <2>1
  <2> QED BY <2>1, <2>2 DEF Newer
<1> QED BY <1>6, <1>8

\* The newest are at most TopLimit.
LEMMA NewestAreFew ==
    ASSUME NEW S \in SUBSET Inference
    PROVE  Cardinality(Newest(S)) <= TopLimit
<1> DEFINE N == Newest(S)
<1>1. N \subseteq S /\ IsFiniteSet(S) /\ IsFiniteSet(N) /\ Cardinality(N) \in Nat
  <2>1. N \subseteq S
    BY DEF Newest
  <2>2. IsFiniteSet(S)
    BY WorkConstants, FS_Subset
  <2> QED BY <2>1, <2>2, FS_Subset, FS_CardinalityType
<1>2. CASE N = {}
  BY <1>2, FS_EmptySet, WorkConstants
<1>3. CASE N # {}
  <2>3. PICK i \in N : \A j \in N : j # i => Newer(j, i)
    <3>1. N \in SUBSET Inference
      BY <1>1
    <3> HIDE DEF N
    <3> QED BY <1>3, <3>1, OldestOf
  <2> DEFINE Later == {j \in S : Newer(j, i)}
  <2>4. N \ {i} \subseteq Later
    BY <1>1, <2>3
  <2>5. Cardinality(Later) < TopLimit /\ IsFiniteSet(Later) /\ Cardinality(Later) \in Nat
    <3>1. Cardinality(Later) < TopLimit
      BY <2>3 DEF Newest
    <3>2. IsFiniteSet(Later)
      BY <1>1, FS_Subset
    <3> QED BY <3>1, <3>2, FS_CardinalityType
  <2>6. Cardinality(N \ {i}) <= Cardinality(Later)
    BY <2>4, <2>5, FS_Subset
  <2>7. Cardinality(N \ {i}) = Cardinality(N) - 1
    BY <1>1, <2>3, FS_RemoveElement
  <2> QED BY <1>1, <2>5, <2>6, <2>7, WorkConstants
<1> QED BY <1>2, <1>3

LEMMA NoRoundTyped == NoRound \in Round
BY WorkEpochs DEF NoRound, NothingGot, Round, Status

LEMMA WorkFaultCounts ==
    ASSUME InferencesInv, WorkFault PROVE workFaults' \in 0..MaxInferenceFaults
BY WorkConstants DEF WorkFault, InferencesInv, InferencesTypeOK

LEMMA InferencesInitInv == InferencesInit => InferencesInv
<1> SUFFICES ASSUME InferencesInit PROVE InferencesInv
  OBVIOUS
<1>1. workTip \in 1..MaxInferenceTip /\ workTip = 1 /\ workFaults \in 0..MaxInferenceFaults
  BY WorkConstants DEF InferencesInit
<1>2. /\ workStatus \in [Inference -> Status]
      /\ \A i \in Inference : workStatus[i] = "absent" <=> InferenceStart[i] > workTip
  BY <1>1, WorkConstants DEF InferencesInit, Status
<1>3. /\ inferenceRows \in [0..LastEpochOfWork -> [Workers -> Rows]]
      /\ \A e \in 0..LastEpochOfWork, p \in Workers : inferenceRows[e][p].rows = {}
  BY DEF InferencesInit, Unsaved, Rows
<1>4. RowsAreTrue
  <2> SUFFICES ASSUME NEW e \in 0..LastEpochOfWork, NEW p \in Workers, NEW s \in Ended
               PROVE  LET kept == {i \in Inference : <<i, s>> \in Summary(e, p)} IN
                      kept = {} /\ Cardinality(kept) <= TopLimit
    BY DEF RowsAreTrue
  <2> DEFINE kept == {i \in Inference : <<i, s>> \in Summary(e, p)}
  <2>1. kept = {}
    BY <1>3 DEF Summary
  <2>2. Cardinality({}) <= TopLimit
    BY FS_EmptySet, WorkConstants
  <2> HIDE DEF kept
  <2>3. kept = {} /\ Cardinality(kept) <= TopLimit
    BY <2>1, <2>2
  <2> QED BY <2>3 DEF kept
<1>5. round \in Round /\ \A i \in Inference : round.got[i] = "absent"
  BY NoRoundTyped DEF InferencesInit, NoRound, NothingGot
<1>6. "absent" \notin Ended
  BY DEF Ended
<1> QED BY <1>1, <1>2, <1>3, <1>4, <1>5, <1>6 DEF InferencesInv, InferencesTypeOK

\* The chain moves on: what ended some way did end that way.
LEMMA WorkMovesInv ==
    ASSUME InferencesInv, workTip' \in 1..MaxInferenceTip, workStatus' \in [Inference -> Status],
           \A i \in Inference : workStatus'[i] = "absent" <=> InferenceStart[i] > workTip',
           \A i \in Inference, s \in Ended : WasOnce(i, s) => WasOnce(i, s)',
           UNCHANGED <<inferenceRows, round, workFaults>>
    PROVE  InferencesInv'
<1>1. RowsAreTrue'
  BY DEF InferencesInv, RowsAreTrue, Summary, FiledRight
<1> QED BY <1>1 DEF InferencesInv, InferencesTypeOK

LEMMA WorkChainInv ==
    ASSUME InferencesInv,
           WorkGrows \/ \E i \in Inference, ending \in Ended : InferenceEnds(i, ending)
    PROVE  InferencesInv'
<1>1. /\ workTip \in 1..MaxInferenceTip /\ workStatus \in [Inference -> Status]
      /\ \A i \in Inference : workStatus[i] = "absent" <=> InferenceStart[i] > workTip
  BY DEF InferencesInv, InferencesTypeOK
<1>2. CASE WorkGrows
  <2>1. /\ workTip < MaxInferenceTip /\ workTip' = workTip + 1
        /\ workStatus' = [i \in Inference |->
              IF InferenceStart[i] = workTip' THEN "started" ELSE workStatus[i]]
        /\ UNCHANGED <<inferenceRows, round, workFaults>>
    BY <1>2 DEF WorkGrows
  <2>2. workTip' \in 1..MaxInferenceTip /\ workStatus' \in [Inference -> Status]
    BY <1>1, <2>1, WorkConstants DEF Status
  <2>3. ASSUME NEW i \in Inference
        PROVE  /\ workStatus'[i] = "absent" <=> InferenceStart[i] > workTip'
               /\ \A s \in Ended : WasOnce(i, s) => WasOnce(i, s)'
    <3>1. CASE InferenceStart[i] = workTip'
      <4>1. InferenceStart[i] > workTip /\ ~ (InferenceStart[i] > workTip')
        BY <1>1, <2>1, <3>1, WorkConstants
      <4>2. workStatus[i] = "absent" /\ workStatus'[i] = "started"
        BY <1>1, <2>1, <3>1, <4>1
      <4>3. \A s \in Ended : ~ WasOnce(i, s)
        BY <4>2 DEF WasOnce, Ended
      <4> QED BY <4>1, <4>2, <4>3
    <3>2. CASE InferenceStart[i] # workTip'
      <4>1. workStatus'[i] = workStatus[i]
        BY <2>1, <3>2
      <4>2. InferenceStart[i] > workTip <=> InferenceStart[i] > workTip'
        BY <1>1, <2>1, <3>2, WorkConstants
      <4> QED BY <1>1, <4>1, <4>2 DEF WasOnce
    <3> QED BY <3>1, <3>2
  <2> QED BY <2>1, <2>2, <2>3, WorkMovesInv
<1>3. ASSUME NEW i \in Inference, NEW ending \in Ended, InferenceEnds(i, ending)
      PROVE  InferencesInv'
  <2>1. /\ \/ workStatus[i] = "started" /\ ending \in {"successful", "expired"}
           \/ workStatus[i] = "successful" /\ ending = "invalidated"
        /\ workStatus' = [workStatus EXCEPT ![i] = ending]
        /\ UNCHANGED <<workTip, inferenceRows, round, workFaults>>
    BY <1>3 DEF InferenceEnds
  <2>2. workStatus' \in [Inference -> Status] /\ workStatus[i] # "absent" /\ ending # "absent"
    BY <1>1, <2>1 DEF Status, Ended
  <2>3. \A j \in Inference, s \in Ended : WasOnce(j, s) => WasOnce(j, s)'
    BY <1>1, <2>1 DEF WasOnce, Ended
  <2>4. \A j \in Inference : workStatus'[j] = "absent" <=> InferenceStart[j] > workTip'
    BY <1>1, <2>1, <2>2
  <2> QED BY <1>1, <2>1, <2>2, <2>3, <2>4, WorkMovesInv
<1> QED BY <1>2, <1>3

\* The poller moves; the rows and the chain are as they were.
LEMMA RoundMovesInv ==
    ASSUME InferencesInv, round' \in Round, workFaults' \in 0..MaxInferenceFaults,
           \A i \in Inference, s \in Ended : round'.got[i] = s => WasOnce(i, s),
           UNCHANGED <<workTip, workStatus, inferenceRows>>
    PROVE  InferencesInv'
<1>1. RowsAreTrue' /\ \A i \in Inference, s \in Ended : WasOnce(i, s) => WasOnce(i, s)'
  BY DEF InferencesInv, RowsAreTrue, Summary, FiledRight, WasOnce
<1> QED BY <1>1 DEF InferencesInv, InferencesTypeOK

LEMMA RoundBeginsInv == ASSUME InferencesInv, PollInferences PROVE InferencesInv'
<1>1. /\ round' = [NoRound EXCEPT !.pc = "pages", !.now = WorkEpoch]
      /\ UNCHANGED <<workTip, workStatus, inferenceRows, workFaults>>
  BY DEF PollInferences
<1>2. WorkEpoch \in 1..LastEpochOfWork
  BY WorkEpochs DEF InferencesInv, InferencesTypeOK, WorkEpoch
<1>3. round' \in Round /\ round'.got = NothingGot
  BY <1>1, <1>2 DEF Round, NoRound, NothingGot, Status
<1>4. \A i \in Inference, s \in Ended : round'.got[i] # s
  BY <1>3 DEF NothingGot, Ended
<1>5. workFaults' \in 0..MaxInferenceFaults
  BY <1>1 DEF InferencesInv, InferencesTypeOK
<1> QED BY <1>1, <1>3, <1>4, <1>5, RoundMovesInv

LEMMA PageReadInv == ASSUME InferencesInv, ReadPage PROVE InferencesInv'
<1> DEFINE got == [i \in Inference |-> IF OnPage(i) THEN workStatus[i] ELSE round.got[i]]
           pc == IF BeyondPage = {} THEN "saving" ELSE "pages"
           key == IF BeyondPage = {} THEN 1 ELSE Min(BeyondPage)
           todo == IF BeyondPage = {} THEN WorkersSeen(got, round.now) \X {0, 1} ELSE {}
<1>1. /\ round' = [round EXCEPT !.got = got, !.pc = pc, !.key = key, !.todo = todo]
      /\ UNCHANGED <<workTip, workStatus, inferenceRows, workFaults>>
  BY DEF ReadPage
<1>2. round \in Round /\ workStatus \in [Inference -> Status] /\ round.got \in [Inference -> Status]
      /\ round.now \in 1..LastEpochOfWork /\ workFaults \in 0..MaxInferenceFaults
  BY DEF InferencesInv, InferencesTypeOK, Round
<1>3. got \in [Inference -> Status]
  BY <1>2
<1>4. \A i \in Inference, s \in Ended : got[i] = s => WasOnce(i, s)
  BY DEF InferencesInv, WasOnce
<1> HIDE DEF got
<1>5. key \in Inference \cup {1}
  <2>1. CASE BeyondPage # {}
    <3>1. BeyondPage \subseteq Inference /\ BeyondPage \subseteq Nat
      BY WorkConstants DEF BeyondPage, Existing
    <3>2. \E x \in BeyondPage : \A y \in BeyondPage : x =< y
      BY <2>1, <3>1, LeastOf
    <3>3. Min(BeyondPage) \in BeyondPage
      BY <3>2 DEF Min
    <3> QED BY <2>1, <3>1, <3>3
  <2> QED BY <2>1
<1>6. todo \in SUBSET (Workers \X {0, 1})
  <2>1. WorkersSeen(got, round.now) \subseteq Workers
    BY <1>2, WorkConstants DEF WorkersSeen, Targeted
  <2> QED BY <2>1
<1>7. pc \in {"idle", "pages", "saving"}
  OBVIOUS
<1> HIDE DEF pc, key, todo
<1>8. round' \in Round /\ round'.got = got
  BY <1>1, <1>2, <1>3, <1>5, <1>6, <1>7 DEF Round
<1> QED BY <1>1, <1>2, <1>4, <1>8, RoundMovesInv

LEMMA NextRoundTyped ==
    ASSUME InferencesInv, NEW todo \in SUBSET (Workers \X {0, 1})
    PROVE  /\ NextRound(todo) \in Round
           /\ \A i \in Inference, s \in Ended : NextRound(todo).got[i] = s => WasOnce(i, s)
<1>1. round \in Round
  BY DEF InferencesInv, InferencesTypeOK
<1>2. CASE todo = {}
  <2>1. NextRound(todo) = NoRound /\ NoRound.got = NothingGot
    BY <1>2 DEF NextRound, NoRound
  <2>2. \A i \in Inference, s \in Ended : NothingGot[i] # s
    BY DEF NothingGot, Ended
  <2> QED BY <2>1, <2>2, NoRoundTyped
<1>3. CASE todo # {}
  <2>1. NextRound(todo) = [round EXCEPT !.todo = todo]
    BY <1>3 DEF NextRound
  <2>2. NextRound(todo) \in Round /\ NextRound(todo).got = round.got
    BY <1>1, <2>1 DEF Round
  <2> QED BY <2>2 DEF InferencesInv
<1> QED BY <1>2, <1>3

\* What a round saves of a worker is true.
LEMMA SavedIsTrue ==
    ASSUME InferencesInv, NEW p \in Workers, NEW e
    PROVE  RowTrue(e, p, ToSave(p, e, round.got, round.now))
<1> DEFINE now == round.now
           got == round.got
           rows == ToSave(p, e, got, now)
           Own(s) == {i \in Inference : got[i] = s /\ AssignedTo[i] = p /\ EpochOf(i, s, now) = e}
<1>1. now \in Nat \ {0}
  BY WorkEpochs DEF InferencesInv, InferencesTypeOK, Round
<1>2. ASSUME NEW s \in Ended
      PROVE  {i \in Inference : <<i, s>> \in rows} = Newest(Own(s))
  <2> DEFINE N(u) == Newest(Own(u))
  <2>1. rows = UNION {{<<i, u>> : i \in N(u)} : u \in Ended}
    BY DEF ToSave
  <2>2. N(s) \subseteq Inference
    BY DEF Newest
  <2> HIDE DEF N, rows
  <2>3. \A i \in Inference : <<i, s>> \in rows <=> i \in N(s)
    BY <2>1
  <2>4. {i \in Inference : <<i, s>> \in rows} = N(s)
    BY <2>2, <2>3
  <2> QED BY <2>4 DEF N, rows
<1>3. ASSUME NEW s \in Ended
      PROVE  LET kept == {i \in Inference : <<i, s>> \in rows} IN
             /\ \A i \in kept : AssignedTo[i] = p /\ WasOnce(i, s) /\ FiledRight(e, i, s)
             /\ Cardinality(kept) <= TopLimit
  <2>1. \A i \in Own(s) : AssignedTo[i] = p /\ WasOnce(i, s) /\ FiledRight(e, i, s)
    BY <1>1, FiledAsTold DEF InferencesInv
  <2>2. Newest(Own(s)) \subseteq Own(s) /\ Own(s) \in SUBSET Inference
    BY DEF Newest
  <2> HIDE DEF Own, rows
  <2>3. Cardinality(Newest(Own(s))) <= TopLimit
    BY <2>2, NewestAreFew
  <2> QED BY <1>2, <2>1, <2>2, <2>3
<1> QED BY <1>3 DEF RowTrue

LEMMA SaveInferencesInv ==
    ASSUME InferencesInv, NEW p \in Workers, NEW back \in {0, 1}, SaveInferences(p, back)
    PROVE  InferencesInv'
<1> DEFINE e == round.now - back
           row == [saved |-> TRUE, rows |-> ToSave(p, e, round.got, round.now)]
<1>1. /\ inferenceRows' = [inferenceRows EXCEPT ![e][p] = row]
      /\ round' = NextRound(round.todo \ {<<p, back>>})
      /\ UNCHANGED <<workTip, workStatus, workFaults>>
  BY DEF SaveInferences
<1>2. /\ inferenceRows \in [0..LastEpochOfWork -> [Workers -> Rows]]
      /\ round.todo \in SUBSET (Workers \X {0, 1}) /\ round.now \in 1..LastEpochOfWork
  BY DEF InferencesInv, InferencesTypeOK, Round
<1>3. e \in 0..LastEpochOfWork
  BY <1>2, WorkEpochs
<1>4. RowTrue(e, p, row.rows)
  BY SavedIsTrue
<1>5. row \in Rows
  <2> DEFINE N(s) == Newest({i \in Inference :
                 round.got[i] = s /\ AssignedTo[i] = p /\ EpochOf(i, s, round.now) = e})
             rows == ToSave(p, e, round.got, round.now)
  <2>1. rows = UNION {{<<i, s>> : i \in N(s)} : s \in Ended}
    BY DEF ToSave
  <2>2. \A s \in Ended : N(s) \subseteq Inference
    BY DEF Newest
  <2> HIDE DEF N, rows
  <2>3. rows \subseteq Inference \X Ended
    BY <2>1, <2>2
  <2> QED BY <2>3 DEF Rows, rows
<1> HIDE DEF e, row
<1>6. /\ inferenceRows' \in [0..LastEpochOfWork -> [Workers -> Rows]]
      /\ inferenceRows'[e][p] = row
      /\ \A f \in 0..LastEpochOfWork, w \in Workers :
            f # e \/ w # p => inferenceRows'[f][w] = inferenceRows[f][w]
  BY <1>1, <1>2, <1>3, <1>5
<1>7. /\ round' \in Round
      /\ \A i \in Inference, s \in Ended : round'.got[i] = s => WasOnce(i, s)
  <2>1. round.todo \ {<<p, back>>} \in SUBSET (Workers \X {0, 1})
    BY <1>2
  <2> QED BY <1>1, <2>1, NextRoundTyped
<1>8. \A i \in Inference, s \in Ended : WasOnce(i, s) <=> WasOnce(i, s)'
  BY <1>1 DEF WasOnce
<1>9. \A f \in 0..LastEpochOfWork, w \in Workers : RowTrue(f, w, inferenceRows'[f][w].rows)
  <2> SUFFICES ASSUME NEW f \in 0..LastEpochOfWork, NEW w \in Workers
               PROVE  RowTrue(f, w, inferenceRows'[f][w].rows)
    OBVIOUS
  <2>1. CASE f = e /\ w = p
    BY <1>4, <1>6, <2>1
  <2>2. CASE f # e \/ w # p
    <3>1. RowTrue(f, w, inferenceRows[f][w].rows)
      BY DEF InferencesInv, RowsAreTrue, RowTrue, Summary
    <3> QED BY <1>6, <2>2, <3>1
  <2> QED BY <2>1, <2>2
<1>10. RowsAreTrue'
  BY <1>8, <1>9 DEF RowsAreTrue, RowTrue, Summary, FiledRight
<1> QED BY <1>1, <1>6, <1>7, <1>8, <1>10 DEF InferencesInv, InferencesTypeOK

LEMMA RoundFailsInv ==
    ASSUME InferencesInv, RoundLost \/ \E p \in Workers : SaveInferencesFails(p)
    PROVE  InferencesInv'
<1>1. CASE RoundLost
  <2>1. /\ WorkFault /\ round' = NoRound /\ UNCHANGED <<workTip, workStatus, inferenceRows>>
    BY <1>1 DEF RoundLost
  <2>2. \A i \in Inference, s \in Ended : NoRound.got[i] # s
    BY DEF NoRound, NothingGot, Ended
  <2> QED BY <2>1, <2>2, NoRoundTyped, WorkFaultCounts, RoundMovesInv
<1>2. ASSUME NEW p \in Workers, SaveInferencesFails(p) PROVE InferencesInv'
  <2>1. /\ WorkFault /\ round' = NextRound(round.todo \ ({p} \X {0, 1}))
        /\ UNCHANGED <<workTip, workStatus, inferenceRows>>
    BY <1>2 DEF SaveInferencesFails
  <2>2. round.todo \ ({p} \X {0, 1}) \in SUBSET (Workers \X {0, 1})
    BY DEF InferencesInv, InferencesTypeOK, Round
  <2> QED BY <2>1, <2>2, NextRoundTyped, WorkFaultCounts, RoundMovesInv
<1> QED BY <1>1, <1>2

LEMMA InferencesStepInv == InferencesInv /\ [InferencesNext]_inferenceVars => InferencesInv'
<1> SUFFICES ASSUME InferencesInv, [InferencesNext]_inferenceVars PROVE InferencesInv'
  OBVIOUS
<1>1. CASE InferencesNext
  BY <1>1, WorkChainInv, RoundBeginsInv, PageReadInv, SaveInferencesInv, RoundFailsInv
     DEF InferencesNext, InferencesStep
<1>2. CASE UNCHANGED inferenceVars
  <2>1. UNCHANGED <<workTip, workStatus, inferenceRows, round, workFaults>>
    BY <1>2 DEF inferenceVars
  <2> QED BY <2>1, RoundMovesInv DEF InferencesInv, InferencesTypeOK
<1> QED BY <1>1, <1>2

THEOREM InferencesInvariant == InferencesSpec => []InferencesInv
BY InferencesInitInv, InferencesStepInv, PTL DEF InferencesSpec

\* save_participant_inferences_batch is given no inference of another worker,
\* none that did not end that way, and none under an epoch later than its own,
\* however often the epoch changes while pages are read.
THEOREM RowsStayTrue == InferencesSpec => []RowsAreTrue
<1>1. InferencesInv => RowsAreTrue
  BY DEF InferencesInv
<1> QED BY <1>1, InferencesInvariant, PTL

-----------------------------------------------------------------------------
(***************************************************************************)
(* The six pages side by side                                              *)
(***************************************************************************)


\* The step of one page leaves the others alone.
LEMMA PageSteps ==
    [PagesNext]_pageVars =>
        /\ [ModelsNext]_modelVars /\ [ValidatorsNext]_validatorVars /\ [RatesNext]_rateVars
        /\ [TimelineNext]_timelineVars /\ [InferencesNext]_inferenceVars /\ [MarketsNext]_marketVars
<1> SUFFICES ASSUME [PagesNext]_pageVars
             PROVE  /\ [ModelsNext]_modelVars /\ [ValidatorsNext]_validatorVars
                    /\ [RatesNext]_rateVars /\ [TimelineNext]_timelineVars
                    /\ [InferencesNext]_inferenceVars /\ [MarketsNext]_marketVars
  OBVIOUS
<1>1. CASE UNCHANGED pageVars
  BY <1>1 DEF pageVars
<1>2. CASE PagesNext
  BY <1>2 DEF PagesNext, Asleep, ValidatorsNext
<1> QED BY <1>1, <1>2

\* Side by side, the six pages do what each does alone: what is proved of one
\* holds of the product that the runs explore.
THEOREM PagesAreApart ==
    PagesSpec => /\ ModelsSpec /\ ValidatorsSpec /\ RatesSpec
                 /\ TimelineSpec /\ InferencesSpec /\ MarketsSpec
<1>1. PagesInit => /\ ModelsInit /\ ValidatorsInit /\ RatesInit
                   /\ TimelineInit /\ InferencesInit /\ MarketsInit
  BY DEF PagesInit
<1> QED
  BY <1>1, PageSteps, PTL DEF PagesSpec, ModelsSpec, ValidatorsSpec, RatesSpec,
     TimelineSpec, InferencesSpec, MarketsSpec

\* The tables, the caches in memory and the locals of every coroutine behind
\* the six pages are well typed.
THEOREM PagesTypes == PagesSpec => []PagesTypeOK
<1>1. /\ ModelsInv => ModelsTypeOK
      /\ ValidatorsInv => ValidatorsTypeOK
      /\ RatesInv => RatesTypeOK
      /\ FreshInv => TimelineTypeOK
      /\ InferencesInv => InferencesTypeOK
      /\ MarketsInv => MarketsTypeOK
  BY DEF ModelsInv, ValidatorsInv, RatesInv, FreshInv, InferencesInv, MarketsInv
<1>2. ModelsTypeOK /\ ValidatorsTypeOK /\ RatesTypeOK
         /\ TimelineTypeOK /\ InferencesTypeOK /\ MarketsTypeOK => PagesTypeOK
  BY DEF PagesTypeOK
<1>3. MarketsSpec => []MarketsInv
  BY MarketsInitInv, MarketsStep, PTL DEF MarketsSpec
<1> QED
  BY <1>1, <1>2, <1>3, PagesAreApart, ModelsInvariant, ValidatorsInvariant, RatesInvariant,
     FreshInvariant, InferencesInvariant, PTL

=============================================================================
