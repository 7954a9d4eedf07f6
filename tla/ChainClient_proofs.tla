-------------------------- MODULE ChainClient_proofs --------------------------
(***************************************************************************)
(* For every number of nodes, callers and participants, and every bound of *)
(* ChainClient: its types, the soundness of what the pool believes of the  *)
(* history the nodes keep, and when a request gives up, turns to the       *)
(* participants or stops at a real answer.                                 *)
(***************************************************************************)
EXTENDS ChainClient, FiniteLemmas, SequenceTheorems

-----------------------------------------------------------------------------
(***************************************************************************)
(* The operations: types, and what they do to the two floors.              *)
(***************************************************************************)

\* BASE_COOLDOWN_SECONDS * 2**k, capped, is a cooldown.
LEMMA CooldownTyped ==
    ASSUME PoolAssumption, NEW f \in Nat, f >= FailuresBeforeCooldown,
           f < OverflowCount
    PROVE  CooldownAfter(f) \in 0..MaxCooldown
<1> DEFINE k == f - FailuresBeforeCooldown
<1>1. k \in 0..MaxExponent
  BY DEF PoolAssumption, OverflowCount
<1>2. 2^k \in Nat
  BY <1>1 DEF PoolAssumption
<1>3. BaseCooldown * 2^k \in Nat
  <2> DEFINE p == 2^k
  <2> HIDE DEF k, p
  <2>1. p \in Nat
    BY <1>2 DEF p
  <2>2. BaseCooldown * p \in Nat
    BY <2>1 DEF PoolAssumption
  <2> QED BY <2>2 DEF p
<1> QED
  BY <1>3 DEF CooldownAfter, Smaller, PoolAssumption

LEMMA SuccessTyped ==
    ASSUME PoolAssumption, NEW s \in NodeState
    PROVE  /\ SuccessRecorded(s) \in NodeState
           /\ SuccessRecorded(s).earliest = s.earliest
           /\ SuccessRecorded(s).stateFloor = s.stateFloor
<1>1. 0 \in 0..OverflowCount /\ 0 \in 0..MaxCooldown
  BY DEF OverflowCount, PoolAssumption
<1> QED BY <1>1 DEF SuccessRecorded, NodeState

LEMMA FailureTyped ==
    ASSUME PoolAssumption, NEW s \in NodeState
    PROVE  /\ FailureRecorded(s) \in NodeState
           /\ FailureRecorded(s).earliest = s.earliest
           /\ FailureRecorded(s).stateFloor = s.stateFloor
<1> DEFINE f == Smaller(s.fails + 1, OverflowCount)
           c == IF f < FailuresBeforeCooldown \/ FailureRaises(s)
                THEN s.cooldown ELSE CooldownAfter(f)
<1>1. s.fails \in 0..OverflowCount /\ s.cooldown \in 0..MaxCooldown /\ OverflowCount \in Nat
  BY DEF NodeState, OverflowCount, PoolAssumption
<1>2. f \in 0..OverflowCount
  BY <1>1 DEF Smaller
<1>3. ~FailureRaises(s) => f < OverflowCount
  BY <1>1 DEF FailureRaises, Smaller
<1>4. c \in 0..MaxCooldown
  BY <1>1, <1>2, <1>3, CooldownTyped DEF PoolAssumption
<1>5. FailureRecorded(s) = [s EXCEPT !.fails = f, !.cooldown = c]
  BY DEF FailureRecorded
<1> QED
  <2> HIDE DEF f, c
  <2> QED BY <1>2, <1>4, <1>5 DEF NodeState

LEMMA UnavailableTyped ==
    ASSUME PoolAssumption, NEW s \in NodeState, NEW lowest \in MaybeHeight,
           NEW pruned \in BOOLEAN, NEW h \in MaybeHeight
    PROVE  /\ UnavailableRecorded(s, lowest, pruned, h) \in NodeState
           /\ UnavailableRecorded(s, lowest, pruned, h).earliest = Larger(s.earliest, lowest)
           /\ \/ UnavailableRecorded(s, lowest, pruned, h).stateFloor = s.stateFloor
              \/ /\ pruned /\ h # None
                 /\ \/ UnavailableRecorded(s, lowest, pruned, h).stateFloor = h + 1
                    \/ UnavailableRecorded(s, lowest, pruned, h).stateFloor = s.stateFloor
<1> DEFINE known == IF s.floorAge >= StateFloorTTL THEN 0 ELSE s.stateFloor
           floor == IF pruned /\ h # None THEN Larger(known, h + 1) ELSE s.stateFloor
           age == IF pruned /\ h # None THEN 0 ELSE s.floorAge
<1>1. /\ Larger(s.earliest, lowest) \in MaybeHeight
      /\ s.stateFloor \in 0..(MaxHeight + 1) /\ h \in 0..MaxHeight
      /\ s.floorAge \in 0..StateFloorTTL
  BY DEF NodeState, MaybeHeight, Height, None, Larger, PoolAssumption
<1>2. floor \in 0..(MaxHeight + 1) /\ age \in 0..StateFloorTTL
  BY <1>1 DEF Larger, PoolAssumption
<1>3. floor = s.stateFloor \/ (pruned /\ h # None /\ floor = h + 1)
  BY <1>1 DEF Larger
<1>4. UnavailableRecorded(s, lowest, pruned, h) =
         [s EXCEPT !.earliest = Larger(@, lowest), !.stateFloor = floor, !.floorAge = age]
  BY DEF UnavailableRecorded
<1> QED
  <2> HIDE DEF floor, age
  <2> QED BY <1>1, <1>2, <1>3, <1>4 DEF NodeState

LEMMA ProbeTyped ==
    ASSUME PoolAssumption, NEW s \in NodeState, NEW measured \in 1..MaxLatency,
           NEW latency \in Smoothed(s.latency, measured), NEW latest \in Height,
           NEW earliest \in Height, NEW catchingUp \in BOOLEAN
    PROVE  /\ ProbeRecorded(s, latency, latest, earliest, catchingUp) \in NodeState
           /\ ProbeRecorded(s, latency, latest, earliest, catchingUp).earliest
                = Larger(s.earliest, earliest)
           /\ ProbeRecorded(s, latency, latest, earliest, catchingUp).stateFloor
                = s.stateFloor
<1>1. latency \in 1..Unmeasured
  BY DEF Smoothed, Smaller, Larger, Unmeasured, NodeState, PoolAssumption
<1>2. Larger(s.earliest, earliest) \in MaybeHeight /\ latest \in MaybeHeight
  BY DEF NodeState, MaybeHeight, Height, None, Larger, PoolAssumption
<1> DEFINE t == [s EXCEPT !.latency = latency, !.latest = latest,
                          !.earliest = Larger(@, earliest), !.catchingUp = catchingUp]
<1>3. t \in NodeState /\ t.earliest = Larger(s.earliest, earliest) /\ t.stateFloor = s.stateFloor
  BY <1>1, <1>2 DEF NodeState
<1> HIDE DEF t
<1>4. SuccessRecorded(t) \in NodeState /\ SuccessRecorded(t).earliest = t.earliest
      /\ SuccessRecorded(t).stateFloor = t.stateFloor
  BY <1>3, SuccessTyped
<1> QED
  BY <1>3, <1>4 DEF ProbeRecorded, t

LEMMA AgedTyped ==
    ASSUME PoolAssumption, NEW s \in NodeState
    PROVE  /\ Aged(s) \in NodeState
           /\ Aged(s).earliest = s.earliest /\ Aged(s).stateFloor = s.stateFloor
<1>1. Less1(s.cooldown) \in 0..MaxCooldown /\ Less1(s.demoted) \in 0..DemoteTicks
  BY DEF Less1, NodeState, PoolAssumption
<1>2. Smaller(s.floorAge + 1, StateFloorTTL) \in 0..StateFloorTTL
  BY DEF Smaller, NodeState, PoolAssumption
<1> QED BY <1>1, <1>2 DEF Aged, NodeState

-----------------------------------------------------------------------------
(***************************************************************************)
(* What an operation does to one node.                                     *)
(***************************************************************************)

\* A node is avoided only for repeated failures.
CoolsForCause(s) == s.cooldown > 0 => s.fails >= FailuresBeforeCooldown

\* t may follow s: it is a node state, cools for a cause if s did, and its
\* block floor is no lower.
Follows(s, t) ==
    /\ t \in NodeState
    /\ CoolsForCause(s) => CoolsForCause(t)
    /\ t.earliest >= s.earliest

LEMMA SuccessFollows ==
    ASSUME PoolAssumption, NEW s \in NodeState PROVE Follows(s, SuccessRecorded(s))
<1>1. SuccessRecorded(s).cooldown = 0
  BY DEF SuccessRecorded, NodeState
<1>2. s.earliest \in Nat
  BY DEF NodeState, MaybeHeight, Height, None, PoolAssumption
<1> QED BY <1>1, <1>2, SuccessTyped DEF Follows, CoolsForCause

LEMMA FailureFollows ==
    ASSUME PoolAssumption, NEW s \in NodeState PROVE Follows(s, FailureRecorded(s))
<1> DEFINE f == Smaller(s.fails + 1, OverflowCount)
           c == IF f < FailuresBeforeCooldown \/ FailureRaises(s)
                THEN s.cooldown ELSE CooldownAfter(f)
<1>1. /\ s.fails \in 0..OverflowCount /\ s.cooldown \in 0..MaxCooldown
      /\ OverflowCount \in Nat /\ OverflowCount > FailuresBeforeCooldown
      /\ FailuresBeforeCooldown \in Nat /\ MaxCooldown \in Nat
  BY DEF NodeState, OverflowCount, PoolAssumption
<1>2. f \in Nat /\ f >= s.fails /\ (f < FailuresBeforeCooldown => f >= s.fails)
  BY <1>1 DEF Smaller
<1>3. FailureRaises(s) => f >= FailuresBeforeCooldown
  BY <1>1 DEF FailureRaises, Smaller
<1>4. FailureRecorded(s) = [s EXCEPT !.fails = f, !.cooldown = c]
  BY DEF FailureRecorded
<1>5. FailureRecorded(s).fails = f /\ FailureRecorded(s).cooldown = c
  <2> HIDE DEF f, c
  <2> QED BY <1>4 DEF NodeState
<1>6. CoolsForCause(s) => CoolsForCause(FailureRecorded(s))
  <2>1. CASE f < FailuresBeforeCooldown
    <3>1. c = s.cooldown
      BY <2>1
    <3> HIDE DEF f, c
    <3> QED BY <1>1, <1>2, <1>5, <2>1, <3>1 DEF CoolsForCause
  <2>2. CASE ~(f < FailuresBeforeCooldown)
    <3> HIDE DEF f, c
    <3> QED BY <1>1, <1>2, <1>5, <2>2 DEF CoolsForCause
  <2> QED BY <2>1, <2>2
<1>7. s.earliest \in Nat
  BY DEF NodeState, MaybeHeight, Height, None, PoolAssumption
<1> QED BY <1>6, <1>7, FailureTyped DEF Follows

LEMMA UnavailableFollows ==
    ASSUME PoolAssumption, NEW s \in NodeState, NEW lowest \in MaybeHeight,
           NEW pruned \in BOOLEAN, NEW h \in MaybeHeight
    PROVE  /\ Follows(s, UnavailableRecorded(s, lowest, pruned, h))
           /\ UnavailableRecorded(s, lowest, pruned, h).fails = s.fails
<1> DEFINE t == UnavailableRecorded(s, lowest, pruned, h)
<1>1. t.fails = s.fails /\ t.cooldown = s.cooldown
  BY DEF UnavailableRecorded, NodeState
<1>2. t \in NodeState /\ t.earliest = Larger(s.earliest, lowest)
  BY UnavailableTyped
<1>3. s.earliest \in Nat /\ lowest \in Nat
  BY DEF NodeState, MaybeHeight, Height, None, PoolAssumption
<1> HIDE DEF t
<1>4. Follows(s, t)
  BY <1>1, <1>2, <1>3 DEF Follows, CoolsForCause, Larger
<1> QED BY <1>1, <1>4 DEF t

LEMMA ProbeFollows ==
    ASSUME PoolAssumption, NEW s \in NodeState, NEW measured \in 1..MaxLatency,
           NEW latency \in Smoothed(s.latency, measured), NEW latest \in Height,
           NEW earliest \in Height, NEW catchingUp \in BOOLEAN
    PROVE  /\ Follows(s, ProbeRecorded(s, latency, latest, earliest, catchingUp))
           /\ ProbeRecorded(s, latency, latest, earliest, catchingUp).fails = 0
<1> DEFINE t == ProbeRecorded(s, latency, latest, earliest, catchingUp)
<1>1. t.cooldown = 0 /\ t.fails = 0
  BY DEF ProbeRecorded, SuccessRecorded, NodeState
<1>2. t \in NodeState /\ t.earliest = Larger(s.earliest, earliest)
  BY ProbeTyped
<1>3. s.earliest \in Nat /\ earliest \in Nat
  BY DEF NodeState, MaybeHeight, Height, None, PoolAssumption
<1> HIDE DEF t
<1>4. Follows(s, t)
  BY <1>1, <1>2, <1>3 DEF Follows, CoolsForCause, Larger
<1> QED BY <1>1, <1>4 DEF t

LEMMA DemotedFollows ==
    ASSUME PoolAssumption, NEW s \in NodeState
    PROVE  /\ Follows(s, [s EXCEPT !.demoted = DemoteTicks])
           /\ [s EXCEPT !.demoted = DemoteTicks].fails = s.fails
<1>1. DemoteTicks \in 0..DemoteTicks
  BY DEF PoolAssumption
<1>2. s.earliest \in Nat
  BY DEF NodeState, MaybeHeight, Height, None, PoolAssumption
<1> QED BY <1>1, <1>2 DEF Follows, CoolsForCause, NodeState

LEMMA AgedFollows ==
    ASSUME PoolAssumption, NEW s \in NodeState
    PROVE  Follows(s, Aged(s)) /\ Aged(s).fails = s.fails
<1>1. Aged(s).fails = s.fails /\ Aged(s).cooldown = Less1(s.cooldown)
  BY DEF Aged, NodeState
<1>2. Less1(s.cooldown) > 0 => s.cooldown > 0
  BY DEF Less1, NodeState, PoolAssumption
<1>3. s.earliest \in Nat
  BY DEF NodeState, MaybeHeight, Height, None, PoolAssumption
<1> QED BY <1>1, <1>2, <1>3, AgedTyped DEF Follows, CoolsForCause

-----------------------------------------------------------------------------
(***************************************************************************)
(* The pool.                                                               *)
(***************************************************************************)

LEMMA NodeReplaced ==
    ASSUME PoolTypeOK, NEW n \in Node, NEW t, Follows(pool[n], t),
           pool' = [pool EXCEPT ![n] = t], PoolAssumption
    PROVE  \A m \in Node : pool' \in [Node -> NodeState] /\ Follows(pool[m], pool'[m])
<1>1. \A m \in Node : pool[m] \in NodeState /\ pool[m].earliest \in Nat
  BY DEF PoolTypeOK, NodeState, MaybeHeight, Height, None, PoolAssumption
<1>2. t \in NodeState
  BY DEF Follows
<1>3. pool' \in [Node -> NodeState] /\ \A m \in Node : pool'[m] = IF m = n THEN t ELSE pool[m]
  BY <1>2 DEF PoolTypeOK
<1> QED BY <1>1, <1>3 DEF Follows, CoolsForCause

\* Whatever is reported, every node is followed by one that may follow it.
LEMMA EveryNodeFollows ==
    ASSUME PoolAssumption, PoolTypeOK, PoolNext
    PROVE  PoolTypeOK' /\ \A m \in Node : Follows(pool[m], pool'[m])
<1>0. \A n \in Node : pool[n] \in NodeState
  BY DEF PoolTypeOK
<1>n. Node # {}
  <2>1. 1 \in Node
    BY DEF Node, PoolAssumption
  <2> QED BY <2>1
<1> SUFFICES \A m \in Node : pool' \in [Node -> NodeState] /\ Follows(pool[m], pool'[m])
  BY <1>n DEF PoolTypeOK
<1>1. ASSUME NEW n \in Node, RecordSuccess(n)
      PROVE  \A m \in Node : pool' \in [Node -> NodeState] /\ Follows(pool[m], pool'[m])
  BY <1>0, <1>1, SuccessFollows, NodeReplaced DEF RecordSuccess
<1>2. ASSUME NEW n \in Node, RecordFailure(n)
      PROVE  \A m \in Node : pool' \in [Node -> NodeState] /\ Follows(pool[m], pool'[m])
  BY <1>0, <1>2, FailureFollows, NodeReplaced DEF RecordFailure
<1>3. ASSUME NEW n \in Node, NEW lowest \in MaybeHeight, NEW h \in MaybeHeight,
             NEW pruned \in BOOLEAN, RecordDataUnavailable(n, lowest, pruned, h)
      PROVE  \A m \in Node : pool' \in [Node -> NodeState] /\ Follows(pool[m], pool'[m])
  BY <1>0, <1>3, UnavailableFollows, NodeReplaced DEF RecordDataUnavailable
<1>4. ASSUME NEW n \in Node, NEW l \in 1..MaxLatency, NEW latest \in Height,
             NEW earliest \in Height, NEW c \in CatchingUp,
             RecordProbe(n, l, latest, earliest, c)
      PROVE  \A m \in Node : pool' \in [Node -> NodeState] /\ Follows(pool[m], pool'[m])
  <2>1. PICK latency \in Smoothed(pool[n].latency, l) :
           pool' = [pool EXCEPT ![n] = ProbeRecorded(pool[n], latency, latest, earliest, c)]
    BY <1>4 DEF RecordProbe, PoolTypeOK
  <2>2. c \in BOOLEAN
    BY DEF PoolAssumption
  <2>3. Follows(pool[n], ProbeRecorded(pool[n], latency, latest, earliest, c))
    BY <1>0, <2>2, ProbeFollows
  <2> QED BY <2>1, <2>3, NodeReplaced
<1>5. ASSUME NEW n \in Node, Demote(n)
      PROVE  \A m \in Node : pool' \in [Node -> NodeState] /\ Follows(pool[m], pool'[m])
  <2>1. pool' = [pool EXCEPT ![n] = [pool[n] EXCEPT !.demoted = DemoteTicks]]
    BY <1>5 DEF Demote, PoolTypeOK
  <2> QED BY <1>0, <2>1, DemotedFollows, NodeReplaced
<1>6. CASE PoolElapse
  <2>1. \A n \in Node : Aged(pool[n]) \in NodeState /\ Follows(pool[n], Aged(pool[n]))
    BY <1>0, AgedFollows DEF Follows
  <2> QED BY <1>6, <2>1 DEF PoolElapse
<1> QED BY <1>1, <1>2, <1>3, <1>4, <1>5, <1>6 DEF PoolNext

LEMMA FreshPool ==
    ASSUME PoolAssumption, PoolInit PROVE PoolTypeOK /\ CoolingMeansRepeatedFailures
<1>1. FreshNode \in NodeState
  BY DEF FreshNode, NodeState, Unmeasured, MaybeHeight, None, OverflowCount, PoolAssumption
<1> QED BY <1>1 DEF PoolInit, PoolTypeOK, CoolingMeansRepeatedFailures, FreshNode

\* Every reachable state of node_pool.py is well typed, whoever calls it.
THEOREM PoolTypes == PoolSpec => []PoolTypeOK
<1>1. PoolInit => PoolTypeOK
  BY PoolAssumption, FreshPool
<1>2. PoolTypeOK /\ [PoolNext]_pool => PoolTypeOK'
  BY PoolAssumption, EveryNodeFollows DEF PoolTypeOK
<1> QED BY <1>1, <1>2, PTL DEF PoolSpec

\* A node is avoided for its failures only while it has failed
\* FAILURES_BEFORE_COOLDOWN times in a row: a cooldown implies the failures
\* because what resets the counter resets the deadline with it.
THEOREM CooldownsHaveACause == PoolSpec => []CoolingMeansRepeatedFailures
<1>1. PoolInit => CoolingMeansRepeatedFailures
  BY PoolAssumption, FreshPool
<1>2. PoolTypeOK /\ CoolingMeansRepeatedFailures /\ [PoolNext]_pool
        => CoolingMeansRepeatedFailures'
  <2> SUFFICES ASSUME PoolTypeOK, CoolingMeansRepeatedFailures, [PoolNext]_pool
               PROVE  CoolingMeansRepeatedFailures'
    OBVIOUS
  <2>1. CASE PoolNext
    <3>1. \A n \in Node : CoolsForCause(pool[n])
      BY DEF CoolingMeansRepeatedFailures, CoolsForCause
    <3>2. \A n \in Node : CoolsForCause(pool'[n])
      BY <2>1, <3>1, PoolAssumption, EveryNodeFollows DEF Follows
    <3> QED BY <3>2 DEF CoolingMeansRepeatedFailures, CoolsForCause
  <2>2. CASE UNCHANGED pool
    BY <2>2 DEF CoolingMeansRepeatedFailures
  <2> QED BY <2>1, <2>2
<1> QED BY <1>1, <1>2, PoolTypes, PTL DEF PoolSpec

\* "Pruning only moves the floor up": no report and no probe ever lowers the
\* block floor known of a node.
THEOREM FloorsOnlyRise == PoolSpec => BlockFloorNeverDrops
<1>1. PoolTypeOK /\ [PoolNext]_pool
        => [\A n \in Node : pool'[n].earliest >= pool[n].earliest]_pool
  BY PoolAssumption, EveryNodeFollows DEF Follows
<1> QED BY <1>1, PoolTypes, PTL DEF PoolSpec, BlockFloorNeverDrops

-----------------------------------------------------------------------------
(***************************************************************************)
(* Orders that must stay.                                                  *)
(***************************************************************************)

\* Two pools that agree on what the ranking looks at are ordered alike.
LEMMA SameKeysSameOrders ==
    ASSUME NEW p, NEW q, NEW sh, NEW bh,
           \A n \in Node : SortKey(p, n, sh, bh) = SortKey(q, n, sh, bh)
    PROVE  Orders(p, sh, bh) = Orders(q, sh, bh)
BY DEF Orders

LEMMA SameHeightsSameTip ==
    ASSUME NEW p, NEW q, \A n \in Node : p[n].latest = q[n].latest
    PROVE  TipHeight(p) = TipHeight(q)
<1>1. {p[n].latest : n \in Node} = {q[n].latest : n \in Node}
  OBVIOUS
<1> QED BY <1>1 DEF TipHeight

\* "a single blip does not demote the fastest node": the first failure of a
\* node only moves its counter, which the ranking does not look at.
THEOREM ABlipKeepsTheOrder == PoolSpec => BlipKeepsOrder
<1> DEFINE Blip(n) == /\ pool[n].fails = 0 /\ pool'[n].fails = 1
                      /\ FailuresBeforeCooldown > 1
           Same == \A sh, bh \in MaybeHeight : Orders(pool', sh, bh) = Orders(pool, sh, bh)
<1>1. ASSUME PoolTypeOK, PoolNext, NEW n \in Node, Blip(n) PROVE Same
  <2>0. \A m \in Node : pool[m] \in NodeState
    BY <1>1 DEF PoolTypeOK
  <2>1. \A t : \A m \in Node : pool' = [pool EXCEPT ![m] = t] =>
           \/ m = n /\ t.fails = 1
           \/ m # n
    BY <1>1 DEF PoolTypeOK
  <2>2. \A t : \A m \in Node : m # n => pool' # [pool EXCEPT ![m] = t]
    <3> SUFFICES ASSUME NEW m \in Node, NEW t, m # n, pool' = [pool EXCEPT ![m] = t]
                 PROVE  FALSE
      OBVIOUS
    <3>1. pool'[n] = pool[n]
      BY <1>1 DEF PoolTypeOK
    <3> QED BY <1>1, <3>1
  <2>3. \A t : \A m \in Node : pool' = [pool EXCEPT ![m] = t] => m = n /\ t.fails = 1
    BY <2>1, <2>2
  <2>4. \A m \in Node : ~ RecordSuccess(m)
    <3>1. \A m \in Node : SuccessRecorded(pool[m]).fails = 0
      BY <2>0 DEF SuccessRecorded, NodeState
    <3> QED BY <2>3, <3>1 DEF RecordSuccess
  <2>5. \A m \in Node, lowest, h \in MaybeHeight, pruned \in BOOLEAN :
           ~ RecordDataUnavailable(m, lowest, pruned, h)
    <3>1. \A lowest, h \in MaybeHeight, pruned \in BOOLEAN :
             UnavailableRecorded(pool[n], lowest, pruned, h).fails = 0
      BY <1>1, <2>0, PoolAssumption, UnavailableFollows
    <3> QED BY <2>3, <3>1 DEF RecordDataUnavailable
  <2>6. \A m \in Node, l \in 1..MaxLatency, latest, earliest \in Height, c \in CatchingUp :
           ~ RecordProbe(m, l, latest, earliest, c)
    <3> SUFFICES ASSUME NEW m \in Node, NEW l \in 1..MaxLatency, NEW latest \in Height,
                        NEW earliest \in Height, NEW c \in CatchingUp,
                        RecordProbe(m, l, latest, earliest, c)
                 PROVE  FALSE
      OBVIOUS
    <3>1. PICK latency \in Smoothed(pool[m].latency, l) :
             pool' = [pool EXCEPT ![m] = ProbeRecorded(pool[m], latency, latest, earliest, c)]
      BY <1>1 DEF RecordProbe, PoolTypeOK
    <3>2. ProbeRecorded(pool[m], latency, latest, earliest, c).fails = 0
      BY <2>0, PoolAssumption, ProbeFollows
    <3>3. m = n /\ ProbeRecorded(pool[m], latency, latest, earliest, c).fails = 1
      <4> DEFINE t == ProbeRecorded(pool[m], latency, latest, earliest, c)
      <4>1. pool' = [pool EXCEPT ![m] = t]
        BY <3>1
      <4> HIDE DEF t
      <4>2. m = n /\ t.fails = 1
        BY <2>3, <4>1
      <4> QED BY <4>2 DEF t
    <3> QED BY <3>2, <3>3
  <2>7. \A m \in Node : ~ Demote(m)
    <3> SUFFICES ASSUME NEW m \in Node, Demote(m) PROVE FALSE
      OBVIOUS
    <3>1. pool' = [pool EXCEPT ![m] = [pool[m] EXCEPT !.demoted = DemoteTicks]]
      BY <1>1 DEF Demote, PoolTypeOK
    <3>2. m = n /\ [pool[m] EXCEPT !.demoted = DemoteTicks].fails = 1
      BY <2>3, <3>1
    <3>3. [pool[m] EXCEPT !.demoted = DemoteTicks].fails = pool[m].fails
      BY <2>0, PoolAssumption, DemotedFollows
    <3> QED BY <1>1, <3>2, <3>3
  <2>8. ~ PoolElapse
    <3>1. Aged(pool[n]).fails = 0
      BY <1>1, <2>0, PoolAssumption, AgedFollows
    <3> QED BY <1>1, <3>1 DEF PoolElapse
  <2>9. PICK m \in Node : RecordFailure(m)
    BY <1>1, <2>4, <2>5, <2>6, <2>7, <2>8 DEF PoolNext
  <2>10. pool' = [pool EXCEPT ![m] = FailureRecorded(pool[m])] /\ m = n
    BY <2>3, <2>9 DEF RecordFailure
  <2>11. FailureRecorded(pool[n]) = [pool[n] EXCEPT !.fails = 1]
    <3>1. Smaller(pool[n].fails + 1, OverflowCount) = 1
      BY <1>1, PoolAssumption DEF Smaller, OverflowCount, PoolAssumption
    <3>2. FailureRecorded(pool[n]) =
             [pool[n] EXCEPT !.fails = 1, !.cooldown = pool[n].cooldown]
      BY <1>1, <3>1 DEF FailureRecorded
    <3> QED BY <2>0, <3>2 DEF NodeState
  <2>12. \A k \in Node :
            /\ pool'[k].latest = pool[k].latest /\ pool'[k].earliest = pool[k].earliest
            /\ pool'[k].catchingUp = pool[k].catchingUp /\ pool'[k].latency = pool[k].latency
            /\ pool'[k].cooldown = pool[k].cooldown /\ pool'[k].demoted = pool[k].demoted
            /\ pool'[k].stateFloor = pool[k].stateFloor /\ pool'[k].floorAge = pool[k].floorAge
    <3>1. \A k \in Node : pool'[k] = IF k = n THEN [pool[n] EXCEPT !.fails = 1] ELSE pool[k]
      BY <1>1, <2>10, <2>11 DEF PoolTypeOK
    <3> QED BY <2>0, <3>1 DEF NodeState
  <2>13. TipHeight(pool') = TipHeight(pool)
    BY <2>12, SameHeightsSameTip
  <2>14. \A k \in Node, sh, bh \in MaybeHeight :
            SortKey(pool', k, sh, bh) = SortKey(pool, k, sh, bh)
    BY <2>12, <2>13 DEF SortKey, LacksData, IsLagging
  <2> QED BY <2>14, SameKeysSameOrders
<1>2. PoolTypeOK /\ [PoolNext]_pool
        => [\A n \in Node :
               pool[n].fails = 0 /\ pool'[n].fails = 1 /\ FailuresBeforeCooldown > 1
                 => \A sh, bh \in MaybeHeight :
                       Orders(pool', sh, bh) = Orders(pool, sh, bh)]_pool
  BY <1>1
<1> QED BY <1>2, PoolTypes, PTL DEF PoolSpec, BlipKeepsOrder

\* Missing history is not ill health: what an answer "pruned" changes is
\* looked at only by requests that name a height.
THEOREM APrunedAnswerKeepsTheRealtimeOrder == PoolSpec => PrunedAnswerKeepsRealtimeOrder
<1> DEFINE Same == Orders(pool', None, None) = Orders(pool, None, None)
<1>1. ASSUME PoolTypeOK, NEW n \in Node, NEW lowest \in MaybeHeight, NEW h \in MaybeHeight,
             NEW pruned \in BOOLEAN, RecordDataUnavailable(n, lowest, pruned, h)
      PROVE  Same
  <2>0. \A m \in Node : pool[m] \in NodeState
    BY <1>1 DEF PoolTypeOK
  <2>1. \A k \in Node : pool'[k] = IF k = n THEN UnavailableRecorded(pool[n], lowest, pruned, h)
                                   ELSE pool[k]
    BY <1>1 DEF PoolTypeOK, RecordDataUnavailable
  <2>2. \A k \in Node :
            /\ pool'[k].latest = pool[k].latest
            /\ pool'[k].catchingUp = pool[k].catchingUp /\ pool'[k].latency = pool[k].latency
            /\ pool'[k].cooldown = pool[k].cooldown /\ pool'[k].demoted = pool[k].demoted
    <3> DEFINE t == UnavailableRecorded(pool[n], lowest, pruned, h)
    <3>1. /\ t.latest = pool[n].latest
          /\ t.catchingUp = pool[n].catchingUp /\ t.latency = pool[n].latency
          /\ t.cooldown = pool[n].cooldown /\ t.demoted = pool[n].demoted
      BY <2>0 DEF UnavailableRecorded, NodeState
    <3>2. \A k \in Node : pool'[k] = IF k = n THEN t ELSE pool[k]
      BY <2>1
    <3> HIDE DEF t
    <3> QED BY <3>1, <3>2
  <2>3. TipHeight(pool') = TipHeight(pool)
    BY <2>2, SameHeightsSameTip
  <2>4. \A k \in Node : /\ ~ LacksData(pool'[k], None, None)
                        /\ ~ LacksData(pool[k], None, None)
    BY DEF LacksData
  <2>5. \A k \in Node : SortKey(pool', k, None, None) = SortKey(pool, k, None, None)
    BY <2>2, <2>3, <2>4 DEF SortKey, IsLagging, Flag
  <2> QED BY <2>5, SameKeysSameOrders
<1>2. PoolTypeOK /\ [PoolNext]_pool
        => [(\E n \in Node, lowest, h \in MaybeHeight, pruned \in BOOLEAN :
                RecordDataUnavailable(n, lowest, pruned, h))
             => Orders(pool', None, None) = Orders(pool, None, None)]_pool
  BY <1>1
<1> QED BY <1>2, PoolTypes, PTL DEF PoolSpec, PrunedAnswerKeepsRealtimeOrder

-----------------------------------------------------------------------------
(***************************************************************************)
(* The order of the candidates                                             *)
(***************************************************************************)

Key(sh, bh, n) == SortKey(pool, n, sh, bh)

\* The first key that differs decides.
LEMMA LexUnfolds ==
    ASSUME NEW u, NEW v
    PROVE  LexLess(u, v) <=>
             \/ u[1] < v[1]
             \/ u[1] = v[1] /\ u[2] < v[2]
             \/ u[1] = v[1] /\ u[2] = v[2] /\ u[3] < v[3]
             \/ u[1] = v[1] /\ u[2] = v[2] /\ u[3] = v[3] /\ u[4] < v[4]
             \/ u[1] = v[1] /\ u[2] = v[2] /\ u[3] = v[3] /\ u[4] = v[4] /\ u[5] < v[5]
             \/ u[1] = v[1] /\ u[2] = v[2] /\ u[3] = v[3] /\ u[4] = v[4] /\ u[5] = v[5]
                  /\ u[6] < v[6]
<1>1. \A i : i \in 1..6 <=> i \in {1, 2, 3, 4, 5, 6}
  OBVIOUS
<1>2. 1..0 = {} /\ 1..1 = {1} /\ 1..2 = {1, 2} /\ 1..3 = {1, 2, 3} /\ 1..4 = {1, 2, 3, 4}
      /\ 1..5 = {1, 2, 3, 4, 5}
  OBVIOUS
<1>3. LexLess(u, v) <=>
        \/ u[1] < v[1] /\ \A j \in 1..0 : u[j] = v[j]
        \/ u[2] < v[2] /\ \A j \in 1..1 : u[j] = v[j]
        \/ u[3] < v[3] /\ \A j \in 1..2 : u[j] = v[j]
        \/ u[4] < v[4] /\ \A j \in 1..3 : u[j] = v[j]
        \/ u[5] < v[5] /\ \A j \in 1..4 : u[j] = v[j]
        \/ u[6] < v[6] /\ \A j \in 1..5 : u[j] = v[j]
  BY <1>1 DEF LexLess
<1> QED BY <1>2, <1>3

LEMMA KeyTyped ==
    ASSUME PoolAssumption, PoolTypeOK, NEW sh, NEW bh, NEW n \in Node
    PROVE  /\ \A i \in 1..6 : Key(sh, bh, n)[i] \in Int
           /\ Key(sh, bh, n)[1] = Flag(LacksData(pool[n], sh, bh))
           /\ Key(sh, bh, n)[2] = Flag(pool[n].cooldown > 0)
           /\ Key(sh, bh, n)[3] = Flag(pool[n].demoted > 0)
           /\ Key(sh, bh, n)[4] = Flag(IsLagging(pool[n], TipHeight(pool)))
           /\ Key(sh, bh, n)[6] = n
<1> DEFINE k == Key(sh, bh, n)
<1>1. /\ k[1] = Flag(LacksData(pool[n], sh, bh)) /\ k[2] = Flag(pool[n].cooldown > 0)
      /\ k[3] = Flag(pool[n].demoted > 0)
      /\ k[4] = Flag(IsLagging(pool[n], TipHeight(pool)))
      /\ k[5] = pool[n].latency /\ k[6] = n
  BY DEF Key, SortKey
<1>2. pool[n].latency \in Int
  BY DEF PoolTypeOK, NodeState, PoolAssumption, Unmeasured
<1>3. n \in Int
  BY DEF Node, PoolAssumption
<1>4. \A b : Flag(b) \in Int
  BY DEF Flag
<1> HIDE DEF k
<1>5. \A i \in 1..6 : k[i] \in Int
  BY <1>1, <1>2, <1>3, <1>4
<1> QED BY <1>1, <1>5 DEF k

\* Some listing of the nodes is in the order of their keys.
LEMMA OrderExists ==
    ASSUME PoolAssumption, PoolTypeOK, NEW sh, NEW bh
    PROVE  \E s \in [Node -> Node] :
              /\ \A n \in Node : \E i \in Node : s[i] = n
              /\ \A i, j \in Node : i < j => LexLess(Key(sh, bh, s[i]), Key(sh, bh, s[j]))
<1> DEFINE R == {q \in Node \X Node : LexLess(Key(sh, bh, q[1]), Key(sh, bh, q[2]))}
           k(n) == Key(sh, bh, n)
<1>1. \A n \in Node : /\ k(n)[1] \in Int /\ k(n)[2] \in Int /\ k(n)[3] \in Int
                      /\ k(n)[4] \in Int /\ k(n)[5] \in Int /\ k(n)[6] \in Int
                      /\ k(n)[6] = n
  BY KeyTyped
<1>2. \A a, b \in Node : <<a, b>> \in R <=> LexLess(k(a), k(b))
  OBVIOUS
<1> HIDE DEF R, k
<1>3. \A a \in Node : ~ LexLess(k(a), k(a))
  BY <1>1, LexUnfolds
<1>4. \A a, b, c \in Node : LexLess(k(a), k(b)) /\ LexLess(k(b), k(c)) => LexLess(k(a), k(c))
  BY <1>1, LexUnfolds, SMTT(60)
<1>5. \A a, b \in Node : a = b \/ LexLess(k(a), k(b)) \/ LexLess(k(b), k(a))
  BY <1>1, LexUnfolds, SMTT(60)
<1>6. NumNodes \in Nat
  BY DEF PoolAssumption
<1>7. \E s \in [1..NumNodes -> 1..NumNodes] :
         /\ \A n \in 1..NumNodes : \E i \in 1..NumNodes : s[i] = n
         /\ \A i, j \in 1..NumNodes : i < j => <<s[i], s[j]>> \in R
  <2>1. /\ \A a \in 1..NumNodes : <<a, a>> \notin R
        /\ \A a, b, c \in 1..NumNodes : <<a, b>> \in R /\ <<b, c>> \in R => <<a, c>> \in R
        /\ \A a, b \in 1..NumNodes : a = b \/ <<a, b>> \in R \/ <<b, a>> \in R
    BY <1>2, <1>3, <1>4, <1>5 DEF Node
  <2> QED BY <1>6, <2>1, OrderedListing
<1>8. PICK s \in [Node -> Node] :
         /\ \A n \in Node : \E i \in Node : s[i] = n
         /\ \A i, j \in Node : i < j => <<s[i], s[j]>> \in R
  BY <1>7 DEF Node
<1>9. \A i, j \in Node : i < j => LexLess(Key(sh, bh, s[i]), Key(sh, bh, s[j]))
  BY <1>2, <1>8 DEF k
<1> QED BY <1>8, <1>9

\* What the order of two keys says of their nodes.
LEMMA EarlierIsBetter ==
    ASSUME PoolAssumption, PoolTypeOK, NEW sh, NEW bh, NEW m \in Node, NEW n \in Node,
           LexLess(Key(sh, bh, m), Key(sh, bh, n))
    PROVE  /\ LacksData(pool[m], sh, bh) => LacksData(pool[n], sh, bh)
           /\ ~ LacksData(pool[n], sh, bh) /\ Troubled(pool[m]) => Troubled(pool[n])
<1> DEFINE u == Key(sh, bh, m)
           v == Key(sh, bh, n)
<1>1. /\ u[1] = Flag(LacksData(pool[m], sh, bh)) /\ v[1] = Flag(LacksData(pool[n], sh, bh))
      /\ u[2] = Flag(pool[m].cooldown > 0) /\ v[2] = Flag(pool[n].cooldown > 0)
      /\ u[3] = Flag(pool[m].demoted > 0) /\ v[3] = Flag(pool[n].demoted > 0)
      /\ u[4] = Flag(IsLagging(pool[m], TipHeight(pool)))
      /\ v[4] = Flag(IsLagging(pool[n], TipHeight(pool)))
  BY KeyTyped
<1>2. /\ u[1] <= v[1]
      /\ u[1] = v[1] => \/ u[2] < v[2]
                        \/ u[2] = v[2] /\ u[3] < v[3]
                        \/ u[2] = v[2] /\ u[3] = v[3] /\ u[4] <= v[4]
  <2>1. \A i \in 1..6 : u[i] \in Int /\ v[i] \in Int
    BY KeyTyped
  <2>2. u[1] \in Int /\ v[1] \in Int /\ u[4] \in Int /\ v[4] \in Int
    BY <2>1
  <2> HIDE DEF u, v
  <2> QED BY <2>2, LexUnfolds DEF u, v
<1> HIDE DEF u, v
<1>3. \A b : b => Flag(b) = 1
  BY DEF Flag
<1>4. \A b : ~ b => Flag(b) = 0
  BY DEF Flag
<1>5. CASE LacksData(pool[m], sh, bh)
  <2>1. u[1] = 1
    BY <1>1, <1>5 DEF Flag
  <2>2. v[1] # 0
    BY <1>2, <2>1
  <2>3. LacksData(pool[n], sh, bh)
    BY <1>1, <2>2 DEF Flag
  <2> QED BY <1>5, <2>3
<1>6. CASE ~ LacksData(pool[m], sh, bh)
  <2> SUFFICES ASSUME ~ LacksData(pool[n], sh, bh), Troubled(pool[m]), ~ Troubled(pool[n])
               PROVE  FALSE
    BY <1>6
  <2>1. u[1] = 0 /\ v[1] = 0
    BY <1>1, <1>6 DEF Flag
  <2>2. v[2] = 0 /\ v[3] = 0 /\ v[4] = 0
    BY <1>1 DEF Flag, Troubled
  <2>3. u[2] = 1 \/ u[3] = 1 \/ u[4] = 1
    BY <1>1 DEF Flag, Troubled
  <2>4. u[2] \in {0, 1} /\ u[3] \in {0, 1} /\ u[4] \in {0, 1}
    BY <1>1 DEF Flag
  <2> QED BY <1>2, <2>1, <2>2, <2>3, <2>4
<1> QED BY <1>5, <1>6

\* There always is an order of the nodes to ask, and in it a node that holds
\* the height comes before each that lacks it, however unhealthy it is, and
\* of those that hold it the untroubled come first.
THEOREM HistoryOutranksHealth == PoolSpec => []HistoryBeforeHealth
<1>1. PoolTypeOK => HistoryBeforeHealth
  <2> SUFFICES ASSUME PoolTypeOK, NEW sh \in MaybeHeight, NEW bh \in MaybeHeight
               PROVE  \E s \in Orders(pool, sh, bh) :
                        \A i, j \in Node : i < j =>
                          /\ LacksData(pool[s[i]], sh, bh) => LacksData(pool[s[j]], sh, bh)
                          /\ ~ LacksData(pool[s[j]], sh, bh) /\ Troubled(pool[s[i]])
                               => Troubled(pool[s[j]])
    BY DEF HistoryBeforeHealth
  <2>1. PICK s \in [Node -> Node] :
           /\ \A n \in Node : \E i \in Node : s[i] = n
           /\ \A i, j \in Node : i < j => LexLess(Key(sh, bh, s[i]), Key(sh, bh, s[j]))
    BY PoolAssumption, OrderExists
  <2>2. s \in Orders(pool, sh, bh)
    <3> DEFINE key == [n \in Node |-> SortKey(pool, n, sh, bh)]
    <3>1. \A n \in Node : key[n] = Key(sh, bh, n)
      BY DEF Key
    <3> HIDE DEF key
    <3>2. \A i, j \in Node : i < j => LexLess(key[s[i]], key[s[j]])
      BY <2>1, <3>1
    <3> QED BY <2>1, <3>2 DEF Orders, key
  <2>3. \A i, j \in Node : i < j =>
           /\ LacksData(pool[s[i]], sh, bh) => LacksData(pool[s[j]], sh, bh)
           /\ ~ LacksData(pool[s[j]], sh, bh) /\ Troubled(pool[s[i]])
                => Troubled(pool[s[j]])
    BY <2>1, PoolAssumption, EarlierIsBetter
  <2> QED BY <2>2, <2>3
<1> QED BY <1>1, PoolTypes, PTL

-----------------------------------------------------------------------------
(***************************************************************************)
(* The requests over the pool                                              *)
(***************************************************************************)
\* A request that is still asking has a node to ask; one that has turned to
\* the participants has a participant to ask.
AskingOK ==
    \A r \in Caller :
        /\ req[r].pc = "asking" => req[r].next \in Node
        /\ req[r].pc = "fallback" => req[r].urls # <<>>

IInv == TypeOK /\ AskingOK /\ HintsSound

-----------------------------------------------------------------------------
\* The pool after an operation on node n keeps its type; the floors of the
\* other nodes are as they were.
LEMMA PoolUpdate ==
    ASSUME PoolTypeOK, NEW n \in Node, NEW s \in NodeState, pool' = [pool EXCEPT ![n] = s]
    PROVE  /\ PoolTypeOK'
           /\ pool'[n] = s
           /\ \A m \in Node : m # n => pool'[m] = pool[m]
BY DEF PoolTypeOK

\* A step of the pool that raises no floor, with the nodes as they are or
\* further pruned, keeps the beliefs sound.
LEMMA FloorsKept ==
    ASSUME ClientAssumption, PoolAssumption, PoolTypeOK, HintsSound,
           chain \in [Node -> Truth], chain' = chain,
           NEW n \in Node, NEW s \in NodeState, pool' = [pool EXCEPT ![n] = s],
           s.earliest <= chain[n].lowest, s.stateFloor <= chain[n].pruned
    PROVE  PoolTypeOK' /\ HintsSound'
<1>1. PoolTypeOK' /\ pool'[n] = s /\ \A m \in Node : m # n => pool'[m] = pool[m]
  BY PoolUpdate
<1> QED BY <1>1 DEF HintsSound

LEMMA SuccessKeeps ==
    ASSUME ClientAssumption, PoolAssumption, PoolTypeOK, HintsSound,
           chain \in [Node -> Truth], chain' = chain, NEW n \in Node, RecordSuccess(n)
    PROVE  PoolTypeOK' /\ HintsSound'
<1>1. pool[n] \in NodeState /\ pool' = [pool EXCEPT ![n] = SuccessRecorded(pool[n])]
  BY DEF PoolTypeOK, RecordSuccess
<1>2. pool[n].earliest <= chain[n].lowest /\ pool[n].stateFloor <= chain[n].pruned
  BY DEF HintsSound
<1> QED BY <1>1, <1>2, SuccessTyped, FloorsKept

LEMMA FailureKeeps ==
    ASSUME ClientAssumption, PoolAssumption, PoolTypeOK, HintsSound,
           chain \in [Node -> Truth], chain' = chain, NEW n \in Node, RecordFailure(n)
    PROVE  PoolTypeOK' /\ HintsSound'
<1>1. pool[n] \in NodeState /\ pool' = [pool EXCEPT ![n] = FailureRecorded(pool[n])]
  BY DEF PoolTypeOK, RecordFailure
<1>2. pool[n].earliest <= chain[n].lowest /\ pool[n].stateFloor <= chain[n].pruned
  BY DEF HintsSound
<1> QED BY <1>1, <1>2, FailureTyped, FloorsKept

\* An answer "unavailable" teaches a floor that the node really has: it names
\* its lowest block, or it has pruned the state of the height asked for.
LEMMA UnavailableKeeps ==
    ASSUME ClientAssumption, PoolAssumption, PoolTypeOK, HintsSound,
           chain \in [Node -> Truth], chain' = chain, NEW n \in Node,
           NEW lowest \in MaybeHeight, NEW pruned \in BOOLEAN, NEW h \in MaybeHeight,
           RecordDataUnavailable(n, lowest, pruned, h),
           lowest <= chain[n].lowest,
           pruned /\ h # None => h + 1 <= chain[n].pruned
    PROVE  PoolTypeOK' /\ HintsSound'
<1> DEFINE s == UnavailableRecorded(pool[n], lowest, pruned, h)
<1>1. pool[n] \in NodeState /\ pool' = [pool EXCEPT ![n] = s]
  BY DEF PoolTypeOK, RecordDataUnavailable
<1>2. pool[n].earliest <= chain[n].lowest /\ pool[n].stateFloor <= chain[n].pruned
  BY DEF HintsSound
<1>3. /\ s \in NodeState /\ s.earliest = Larger(pool[n].earliest, lowest)
      /\ \/ s.stateFloor = pool[n].stateFloor
         \/ pruned /\ h # None /\ (s.stateFloor = h + 1 \/ s.stateFloor = pool[n].stateFloor)
  BY <1>1, UnavailableTyped
<1> HIDE DEF s
<1>4. s.earliest <= chain[n].lowest /\ s.stateFloor <= chain[n].pruned
  BY <1>2, <1>3 DEF Larger
<1> QED BY <1>1, <1>3, <1>4, FloorsKept

\* A probe names an earliest block no later than the one the node really has.
LEMMA ProbeKeeps ==
    ASSUME ClientAssumption, PoolAssumption, PoolTypeOK, HintsSound,
           chain \in [Node -> Truth], chain' = chain, NEW n \in Node,
           NEW l \in 1..MaxLatency, NEW latest \in Height, NEW e \in Height,
           NEW c \in CatchingUp, RecordProbe(n, l, latest, e, c),
           e <= chain[n].lowest
    PROVE  PoolTypeOK' /\ HintsSound'
<1>1. PICK latency \in Smoothed(pool[n].latency, l) :
         pool' = [pool EXCEPT ![n] = ProbeRecorded(pool[n], latency, latest, e, c)]
  BY DEF RecordProbe, PoolTypeOK
<1>2. pool[n] \in NodeState /\ c \in BOOLEAN
  BY DEF PoolTypeOK, PoolAssumption
<1>3. pool[n].earliest <= chain[n].lowest /\ pool[n].stateFloor <= chain[n].pruned
  BY DEF HintsSound
<1> DEFINE s == ProbeRecorded(pool[n], latency, latest, e, c)
<1>4. s \in NodeState /\ s.earliest = Larger(pool[n].earliest, e)
      /\ s.stateFloor = pool[n].stateFloor
  BY <1>2, ProbeTyped
<1> HIDE DEF s
<1>5. s.earliest <= chain[n].lowest /\ s.stateFloor <= chain[n].pruned
  BY <1>3, <1>4 DEF Larger
<1> QED BY <1>1, <1>4, <1>5, FloorsKept DEF s

-----------------------------------------------------------------------------
(***************************************************************************)
(* Requests.                                                               *)
(***************************************************************************)

RefreshState == [phase  : {"idle", "probing", "discovering"},
                 probes : SUBSET Node,
                 age    : 0..ProbeInterval]

FallbackState == [urls : Seq(Participants), age : 0..FallbackRefresh]

\* One request, and all of them, with AskingOK folded in.
RequestOK(q) ==
    /\ q \in Request
    /\ q.pc = "asking" => q.next \in Node
    /\ q.pc = "fallback" => q.urls # <<>>

RequestsOK == req \in [Caller -> Request] /\ AskingOK

LEMMA RequestUpdate ==
    ASSUME RequestsOK, NEW r \in Caller, NEW q, RequestOK(q), req' = [req EXCEPT ![r] = q]
    PROVE  RequestsOK'
BY DEF RequestsOK, AskingOK, RequestOK

\* The request r after an answer of node n that ends it.
LEMMA HeardUpdate ==
    ASSUME RequestsOK, NEW r \in Caller, NEW n \in Node,
           NEW pc \in {"served", "raised"},
           NEW answer \in {"answer", "failure"},
           req' = [req EXCEPT ![r].pc = pc, ![r].heard[n] = answer]
    PROVE  RequestsOK'
<1> DEFINE heard == [req[r].heard EXCEPT ![n] = answer]
           q == [req[r] EXCEPT !.pc = pc, !.heard = heard]
<1>1. req[r] \in Request
  BY DEF RequestsOK
<1>2. heard \in [Node -> {"nothing", "failure", "unavailable", "app", "answer"}]
  BY <1>1 DEF Request
<1>3. req' = [req EXCEPT ![r] = q]
  BY <1>1 DEF Request
<1> HIDE DEF heard
<1>4. RequestOK(q)
  BY <1>1, <1>2 DEF RequestOK, Request
<1> HIDE DEF q
<1> QED BY <1>3, <1>4, RequestUpdate

LEMMA IdleTyped ==
    ASSUME PoolAssumption PROVE RequestOK(IdleRequest)
BY EmptySeq DEF RequestOK, IdleRequest, Request, Node, MaybeHeight, None, PoolAssumption

LEMMA BeginTyped ==
    ASSUME PoolAssumption, RequestsOK, NEW r \in Caller, NEW kind \in {"chain", "block"},
           NEW h \in MaybeHeight, Begin(r, kind, h)
    PROVE  RequestsOK'
<1>1. PICK s \in [Node -> Node] :
         req' = [req EXCEPT ![r] = [IdleRequest EXCEPT
                    !.pc = "asking", !.kind = kind, !.height = h, !.order = s]]
  BY DEF Begin, Orders
<1> DEFINE q == [IdleRequest EXCEPT !.pc = "asking", !.kind = kind, !.height = h, !.order = s]
<1>2. IdleRequest \in Request /\ IdleRequest.next = 1
  BY IdleTyped DEF RequestOK, IdleRequest
<1>3. q \in Request /\ q.pc = "asking" /\ q.next = 1
  BY <1>2 DEF Request
<1>4. 1 \in Node
  BY DEF Node, PoolAssumption
<1>5. RequestOK(q)
  BY <1>3, <1>4 DEF RequestOK
<1> HIDE DEF q
<1> QED BY <1>1, <1>5, RequestUpdate DEF q

LEMMA AfterLastNodeTyped ==
    ASSUME ClientAssumption, fallback \in FallbackState, NEW q \in Request
    PROVE  RequestOK(AfterLastNode(q))
<1> DEFINE k == Smaller(FallbackAttempts, Len(fallback.urls))
           urls == SubSeq(fallback.urls, 1, k)
<1>1. fallback.urls \in Seq(Participants)
  BY DEF FallbackState
<1>2. k \in 0..Len(fallback.urls)
  BY <1>1 DEF Smaller, ClientAssumption
<1>3. urls \in Seq(Participants)
  <2>1. \A i \in 1..k : fallback.urls[i] \in Participants
    BY <1>1, <1>2
  <2> QED BY <1>1, <1>2, <2>1, SubSeqProperties
<1> HIDE DEF urls, k
<1>4. CASE q.kind = "chain" /\ ParticipantFallback /\ q.down /\ urls # <<>>
  <2>1. AfterLastNode(q) = [q EXCEPT !.pc = "fallback", !.urls = urls]
    BY <1>4 DEF AfterLastNode, urls, k
  <2> QED BY <1>3, <1>4, <2>1 DEF RequestOK, Request
<1>5. CASE ~(q.kind = "chain" /\ ParticipantFallback /\ q.down /\ urls # <<>>)
  <2>1. AfterLastNode(q) = [q EXCEPT !.pc = "failed"]
    BY <1>5 DEF AfterLastNode, urls, k
  <2> QED BY <2>1 DEF RequestOK, Request
<1> QED BY <1>4, <1>5

LEMMA NextNodeTyped ==
    ASSUME ClientAssumption, PoolAssumption, RequestsOK, fallback \in FallbackState,
           NEW r \in Caller, Asking(r),
           NEW outcome \in {"failure", "unavailable", "app"}, NextNode(r, outcome)
    PROVE  RequestsOK'
<1> DEFINE n == Asked(r)
           q == [req[r] EXCEPT !.heard[n] = outcome, !.next = @ + 1,
                               !.down = @ /\ outcome = "failure"]
           stop == EndsRequest(q, outcome)
           t == IF stop \/ q.next > NumNodes THEN AfterLastNode(q) ELSE q
<1>1. req[r] \in Request /\ req[r].pc = "asking" /\ req[r].next \in Node
  BY DEF RequestsOK, AskingOK, Asking
<1>2. n \in Node
  BY <1>1 DEF Asked, Request
<1>3. q \in Request /\ q.pc = "asking" /\ q.next = req[r].next + 1
  <2> DEFINE heard == [req[r].heard EXCEPT ![n] = outcome]
             down == req[r].down /\ outcome = "failure"
             nxt == req[r].next + 1
  <2>1. heard \in [Node -> {"nothing", "failure", "unavailable", "app", "answer"}]
    BY <1>1 DEF Request
  <2>2. nxt \in 1..(NumNodes + 1)
    BY <1>1 DEF Node, PoolAssumption
  <2>3. down \in BOOLEAN
    OBVIOUS
  <2>4. q = [req[r] EXCEPT !.heard = heard, !.next = nxt, !.down = down]
    BY <1>1 DEF Request
  <2> HIDE DEF heard, down, nxt, q
  <2>5. q \in Request /\ q.pc = "asking" /\ q.next = nxt
    BY <1>1, <2>1, <2>2, <2>3, <2>4 DEF Request
  <2> QED BY <2>5 DEF nxt
<1>4. req' = [req EXCEPT ![r] = t]
  BY DEF NextNode, EndsRequest, OnlyNodeFailures
<1> HIDE DEF q, n
<1>5. RequestOK(t)
  <2>1. CASE stop \/ q.next > NumNodes
    BY <1>3, <2>1, AfterLastNodeTyped
  <2>2. CASE ~(stop \/ q.next > NumNodes)
    <3>1. q.next \in Node
      BY <1>1, <1>3, <2>2 DEF Node, PoolAssumption
    <3> QED BY <1>3, <2>2, <3>1 DEF RequestOK
  <2> QED BY <2>1, <2>2
<1> HIDE DEF t
<1> QED BY <1>4, <1>5, RequestUpdate

-----------------------------------------------------------------------------
(***************************************************************************)
(* The invariant, one lemma for each group of actions.                     *)
(***************************************************************************)

TypeParts ==
    /\ PoolTypeOK
    /\ chain \in [Node -> Truth]
    /\ up \in SUBSET (Node \cup Participants)
    /\ RequestsOK
    /\ refresh \in RefreshState
    /\ fallback \in FallbackState

LEMMA InvParts ==
    /\ IInv <=> TypeParts /\ HintsSound
    /\ IInv' <=> TypeParts' /\ HintsSound'
BY DEF IInv, TypeOK, TypeParts, RequestsOK, RefreshState, FallbackState

LEMMA InitInv ==
    ASSUME PoolAssumption, ClientAssumption, Init PROVE IInv
<1>1. FreshNode \in NodeState /\ FreshNode.earliest = 0 /\ FreshNode.stateFloor = 0
  BY DEF FreshNode, NodeState, Unmeasured, MaybeHeight, None, OverflowCount, PoolAssumption
<1>2. PoolTypeOK /\ \A n \in Node : pool[n] = FreshNode
  BY <1>1 DEF Init, PoolInit, PoolTypeOK
<1>3. chain \in [Node -> Truth]
  BY DEF Init
<1>4. \A n \in Node : chain[n].lowest \in Nat /\ chain[n].pruned \in Nat
  BY <1>3 DEF Truth, Height
<1>5. HintsSound
  BY <1>1, <1>2, <1>4 DEF HintsSound
<1>6. RequestsOK
  BY IdleTyped DEF Init, RequestsOK, AskingOK, RequestOK
<1>7. refresh \in RefreshState /\ fallback \in FallbackState
  BY EmptySeq DEF Init, RefreshState, FallbackState, ClientAssumption
<1>8. up \in SUBSET (Node \cup Participants)
  BY DEF Init
<1> QED BY <1>2, <1>3, <1>5, <1>6, <1>7, <1>8, InvParts DEF TypeParts

\* The nodes move: a node's floors only rise, so the beliefs stay sound.
LEMMA EnvironmentInv ==
    ASSUME PoolAssumption, ClientAssumption, IInv, Environment PROVE IInv'
<1> USE InvParts DEF TypeParts
<1>1. UNCHANGED <<pool, req, refresh, fallback>>
  BY DEF Environment, GoDown, ComeBack, Advance, Prune
<1>2. up' \in SUBSET (Node \cup Participants)
  BY DEF Environment, GoDown, ComeBack, Advance, Prune
<1>3. /\ chain' \in [Node -> Truth]
      /\ \A m \in Node : chain'[m].lowest >= chain[m].lowest /\ chain'[m].pruned >= chain[m].pruned
  <2>0. \A m \in Node : chain[m].lowest \in Nat /\ chain[m].pruned \in Nat
    BY DEF Truth, Height
  <2>1. CASE chain' = chain
    BY <2>0, <2>1
  <2>2. ASSUME NEW n \in Node, Advance(n) PROVE <1>3!1 /\ <1>3!2
    <3>1. chain[n].tip + 1 \in Height
      BY <2>2 DEF Advance, Truth, Height, PoolAssumption
    <3>2. chain' = [chain EXCEPT ![n] = [chain[n] EXCEPT !.tip = chain[n].tip + 1]]
      BY <2>2 DEF Advance
    <3>3. [chain[n] EXCEPT !.tip = chain[n].tip + 1] \in Truth
      BY <3>1 DEF Truth
    <3> QED BY <2>0, <3>2, <3>3 DEF Truth
  <2>3. ASSUME NEW n \in Node, chain[n].pruned < chain[n].tip,
               chain' = [chain EXCEPT ![n].pruned = @ + 1]
        PROVE <1>3!1 /\ <1>3!2
    <3>1. chain[n].pruned + 1 \in Height
      BY <2>3 DEF Truth, Height, PoolAssumption
    <3>2. [chain[n] EXCEPT !.pruned = chain[n].pruned + 1] \in Truth
      BY <3>1 DEF Truth
    <3>3. chain' = [chain EXCEPT ![n] = [chain[n] EXCEPT !.pruned = chain[n].pruned + 1]]
      BY <2>3
    <3> QED BY <2>0, <3>2, <3>3 DEF Truth
  <2>4. ASSUME NEW n \in Node, chain[n].lowest < chain[n].pruned,
               chain' = [chain EXCEPT ![n].lowest = @ + 1]
        PROVE <1>3!1 /\ <1>3!2
    <3>1. chain[n].lowest + 1 \in Height
      BY <2>4 DEF Truth, Height, PoolAssumption
    <3>2. [chain[n] EXCEPT !.lowest = chain[n].lowest + 1] \in Truth
      BY <3>1 DEF Truth
    <3>3. chain' = [chain EXCEPT ![n] = [chain[n] EXCEPT !.lowest = chain[n].lowest + 1]]
      BY <2>4
    <3> QED BY <2>0, <3>2, <3>3 DEF Truth
  <2> QED
    BY <2>1, <2>2, <2>3, <2>4 DEF Environment, GoDown, ComeBack, Prune
<1>4. HintsSound'
  <2> SUFFICES ASSUME NEW m \in Node
               PROVE  pool[m].earliest <= chain'[m].lowest /\ pool[m].stateFloor <= chain'[m].pruned
    BY <1>1 DEF HintsSound
  <2>1. pool[m].earliest <= chain[m].lowest /\ pool[m].stateFloor <= chain[m].pruned
    BY DEF HintsSound
  <2>2. /\ pool[m].earliest \in Nat /\ pool[m].stateFloor \in Nat
        /\ chain[m].lowest \in Nat /\ chain[m].pruned \in Nat
        /\ chain'[m].lowest \in Nat /\ chain'[m].pruned \in Nat
    BY <1>3 DEF PoolTypeOK, NodeState, MaybeHeight, None, Truth, Height
  <2> QED BY <1>3, <2>1, <2>2
<1>5. RequestsOK' /\ PoolTypeOK' /\ (refresh \in RefreshState)' /\ (fallback \in FallbackState)'
  BY <1>1 DEF RequestsOK, AskingOK, PoolTypeOK, RefreshState, FallbackState
<1> QED BY <1>2, <1>3, <1>4, <1>5

LEMMA RequestInv ==
    ASSUME PoolAssumption, ClientAssumption, IInv, NEW r \in Caller,
           \/ Answer(r) \/ Return(r)
           \/ \E kind \in {"chain", "block"}, h \in MaybeHeight : StartRequest(r, kind, h)
    PROVE  IInv'
<1> USE InvParts DEF TypeParts
<1>1. req[r] \in Request
  BY DEF RequestsOK
<1>2. ASSUME Asking(r) PROVE Asked(r) \in Node
  BY <1>1, <1>2 DEF Asking, Asked, Request, RequestsOK, AskingOK
<1>3. CASE AnswerServed(r)
  <2>1. /\ Asking(r) /\ RecordSuccess(Asked(r)) /\ UNCHANGED <<chain, up, refresh, fallback>>
        /\ req' = [req EXCEPT ![r].pc = "served", ![r].heard[Asked(r)] = "answer"]
    BY <1>3 DEF AnswerServed
  <2>2. PoolTypeOK' /\ HintsSound'
    BY <2>1, <1>2, SuccessKeeps
  <2>3. RequestsOK'
    BY <2>1, <1>2, HeardUpdate
  <2> QED BY <2>1, <2>2, <2>3
<1>4. CASE AnswerAppError(r)
  <2>1. Asking(r) /\ NextNode(r, "app") /\ UNCHANGED <<pool, chain, up, refresh, fallback>>
    BY <1>4 DEF AnswerAppError
  <2>2. RequestsOK'
    BY <2>1, NextNodeTyped
  <2>3. PoolTypeOK' /\ HintsSound'
    BY <2>1 DEF PoolTypeOK, HintsSound
  <2> QED BY <2>1, <2>2, <2>3
<1>5. CASE AnswerUnavailable(r)
  <2> DEFINE n == Asked(r)
             h == req[r].height
             future == h > chain[n].tip
  <2>1. /\ Asking(r) /\ NextNode(r, "unavailable") /\ UNCHANGED <<chain, up, refresh, fallback>>
        /\ ~Holds(n, req[r].kind, h)
        /\ IF req[r].kind = "chain" THEN RecordDataUnavailable(n, None, ~future, h)
           ELSE RecordDataUnavailable(n, IF future THEN None ELSE chain[n].lowest, FALSE, None)
    BY <1>5 DEF AnswerUnavailable
  <2>2. RequestsOK'
    BY <2>1, NextNodeTyped
  <2>3. n \in Node /\ h \in MaybeHeight /\ chain[n] \in Truth
    BY <2>1, <1>1, <1>2 DEF Request
  <2>4. h # None /\ None \in MaybeHeight
    BY <2>1 DEF Holds, MaybeHeight
  <2>5. None <= chain[n].lowest /\ chain[n].lowest \in MaybeHeight /\ chain[n].lowest <= chain[n].lowest
    BY <2>3 DEF Truth, None, MaybeHeight, Height
  <2>6. PoolTypeOK' /\ HintsSound'
    <3> HIDE DEF n, h
    <3>1. CASE req[r].kind = "chain"
      <4>1. RecordDataUnavailable(n, None, ~future, h)
        BY <2>1, <3>1
      <4>2. ~future => h < chain[n].pruned
        BY <2>1, <2>3, <2>4, <3>1 DEF Holds, Truth, Height, MaybeHeight, None
      <4>3. ~future /\ h # None => h + 1 <= chain[n].pruned
        BY <4>2, <2>3, <2>4 DEF MaybeHeight, Height, None, Truth
      <4>4. (~future) \in BOOLEAN
        OBVIOUS
      <4> HIDE DEF future
      <4> QED BY <2>1, <2>3, <2>4, <2>5, <4>1, <4>3, <4>4, UnavailableKeeps
    <3>2. CASE req[r].kind # "chain"
      <4> DEFINE lowest == IF future THEN None ELSE chain[n].lowest
      <4>1. RecordDataUnavailable(n, lowest, FALSE, None)
        BY <2>1, <3>2
      <4>2. lowest \in MaybeHeight /\ lowest <= chain[n].lowest
        BY <2>4, <2>5
      <4> HIDE DEF future, lowest
      <4> QED BY <2>1, <2>3, <2>4, <4>1, <4>2, UnavailableKeeps
    <3> QED BY <3>1, <3>2
  <2> QED BY <2>1, <2>2, <2>6
<1>6. CASE AnswerFailure(r)
  <2>1. Asking(r) /\ RecordFailure(Asked(r)) /\ UNCHANGED <<chain, up, refresh, fallback>>
    BY <1>6 DEF AnswerFailure
  <2>2. PoolTypeOK' /\ HintsSound'
    BY <2>1, <1>2, FailureKeeps
  <2>3. CASE NextNode(r, "failure")
    BY <2>1, <2>2, <2>3, NextNodeTyped
  <2>4. CASE req' = [req EXCEPT ![r].pc = "raised", ![r].heard[Asked(r)] = "failure"]
    <3>1. RequestsOK'
      BY <2>1, <2>4, <1>2, HeardUpdate
    <3> QED BY <2>1, <2>2, <3>1
  <2> QED BY <1>6, <2>3, <2>4 DEF AnswerFailure
<1>7. CASE AnswerFallback(r)
  <2>1. req[r].pc = "fallback" /\ UNCHANGED <<pool, chain, up, refresh, fallback>>
    BY <1>7 DEF AnswerFallback
  <2>2. req[r].urls \in Seq(Participants) /\ req[r].urls # <<>>
    BY <1>1, <2>1 DEF Request, RequestsOK, AskingOK
  <2>3. /\ Tail(req[r].urls) \in Seq(Participants)
        /\ Len(req[r].urls) > 1 => Tail(req[r].urls) # <<>>
    <3> DEFINE long == Len(req[r].urls)
               short == Len(Tail(req[r].urls))
    <3>1. Tail(req[r].urls) \in Seq(Participants) /\ short = long - 1
      BY <2>2, HeadTailProperties
    <3>2. long \in Nat
      BY <2>2, LenProperties
    <3>3. Tail(req[r].urls) = <<>> => short = 0
      BY EmptySeq
    <3> HIDE DEF long, short
    <3>4. long > 1 => short # 0
      BY <3>1, <3>2
    <3> QED BY <3>1, <3>3, <3>4, Zenon DEF long
  <2>4. PICK q : RequestOK(q) /\ req' = [req EXCEPT ![r] = q]
    <3> DEFINE served == [req[r] EXCEPT !.pc = "served"]
               rest == [req[r] EXCEPT !.urls = Tail(req[r].urls),
                            !.pc = IF Len(req[r].urls) > 1 THEN "fallback" ELSE "failed"]
    <3>1. RequestOK(served) /\ RequestOK(rest)
      BY <1>1, <2>3 DEF RequestOK, Request
    <3>2. ASSUME req' = [req EXCEPT ![r].pc = "served"]
          PROVE  req' = [req EXCEPT ![r] = served]
      BY <3>2
    <3>3. ASSUME req' = [req EXCEPT ![r] =
                    [@ EXCEPT !.urls = Tail(req[r].urls),
                              !.pc = IF Len(req[r].urls) > 1 THEN "fallback" ELSE "failed"]]
          PROVE  req' = [req EXCEPT ![r] = rest]
      BY <3>3
    <3> HIDE DEF served, rest
    <3> QED BY <1>7, <3>1, <3>2, <3>3 DEF AnswerFallback
  <2>5. RequestsOK'
    BY <2>4, RequestUpdate
  <2>6. PoolTypeOK' /\ HintsSound'
    BY <2>1 DEF PoolTypeOK, HintsSound
  <2> QED BY <2>1, <2>5, <2>6
<1>8. CASE Return(r)
  <2>1. req' = [req EXCEPT ![r] = IdleRequest] /\ UNCHANGED <<pool, chain, up, refresh, fallback>>
    BY <1>8 DEF Return
  <2>2. RequestsOK'
    BY <2>1, IdleTyped, RequestUpdate
  <2>3. PoolTypeOK' /\ HintsSound'
    BY <2>1 DEF PoolTypeOK, HintsSound
  <2> QED BY <2>1, <2>2, <2>3
<1>9. ASSUME NEW kind \in {"chain", "block"}, NEW h \in MaybeHeight, StartRequest(r, kind, h)
      PROVE  IInv'
  <2>1. Begin(r, kind, h) /\ ScheduleNodeRefresh /\ UNCHANGED <<pool, chain, up, fallback>>
    BY <1>9 DEF StartRequest
  <2>2. RequestsOK'
    BY <2>1, BeginTyped
  <2>3. refresh' \in RefreshState
    BY <2>1 DEF ScheduleNodeRefresh, RefreshState, ClientAssumption
  <2>4. PoolTypeOK' /\ HintsSound'
    BY <2>1 DEF PoolTypeOK, HintsSound
  <2> QED BY <2>1, <2>2, <2>3, <2>4
<1> QED
  BY <1>3, <1>4, <1>5, <1>6, <1>7, <1>8, <1>9 DEF Answer

\* The background refresh and the passing of time.
LEMMA RefreshInv ==
    ASSUME PoolAssumption, ClientAssumption, IInv,
           \/ Elapse \/ RotateUrl \/ ProbesDone \/ FallbackRefreshed
           \/ \E n \in Node : ProbeAnswers(n) \/ ProbeFails(n)
    PROVE  IInv'
<1> USE InvParts DEF TypeParts
<1>1. \A n \in Node : /\ pool[n].earliest <= chain[n].lowest
                      /\ pool[n].stateFloor <= chain[n].pruned
  BY DEF HintsSound
<1>2. CASE Elapse
  <2>1. /\ pool' = [n \in Node |-> Aged(pool[n])] /\ UNCHANGED <<chain, up, req>>
        /\ refresh' = [refresh EXCEPT !.age = Smaller(@ + 1, ProbeInterval)]
        /\ fallback' = [fallback EXCEPT !.age = Smaller(@ + 1, FallbackRefresh)]
    BY <1>2 DEF Elapse, PoolElapse
  <2>2. PoolTypeOK' /\ HintsSound'
    <3>1. \A n \in Node : pool[n] \in NodeState
      BY DEF PoolTypeOK
    <3>2. \A n \in Node : /\ Aged(pool[n]) \in NodeState
                          /\ Aged(pool[n]).earliest = pool[n].earliest
                          /\ Aged(pool[n]).stateFloor = pool[n].stateFloor
      BY <3>1, AgedTyped
    <3> QED BY <1>1, <2>1, <3>2 DEF PoolTypeOK, HintsSound
  <2>3. refresh' \in RefreshState /\ fallback' \in FallbackState
    <3>1. Smaller(refresh.age + 1, ProbeInterval) \in 0..ProbeInterval
      BY DEF RefreshState, Smaller, ClientAssumption
    <3>2. Smaller(fallback.age + 1, FallbackRefresh) \in 0..FallbackRefresh
      BY DEF FallbackState, Smaller, ClientAssumption
    <3> QED BY <2>1, <3>1, <3>2 DEF RefreshState, FallbackState
  <2>4. RequestsOK'
    BY <2>1 DEF RequestsOK, AskingOK
  <2> QED BY <2>1, <2>2, <2>3, <2>4
<1>3. CASE RotateUrl
  <2>1. PICK s \in [Node -> Node] : Demote(s[1]) /\ UNCHANGED <<chain, up, req, refresh, fallback>>
    BY <1>3 DEF RotateUrl, Orders
  <2>2. s[1] \in Node
    BY <2>1 DEF Node, PoolAssumption
  <2> DEFINE t == [pool[s[1]] EXCEPT !.demoted = DemoteTicks]
  <2>3. pool' = [pool EXCEPT ![s[1]] = t]
    BY <2>1 DEF Demote
  <2>4. t \in NodeState /\ t.earliest = pool[s[1]].earliest /\ t.stateFloor = pool[s[1]].stateFloor
    BY <2>2 DEF PoolTypeOK, NodeState, PoolAssumption
  <2> HIDE DEF t
  <2>5. PoolTypeOK' /\ HintsSound'
    BY <1>1, <2>1, <2>2, <2>3, <2>4, FloorsKept
  <2>6. RequestsOK'
    BY <2>1 DEF RequestsOK, AskingOK
  <2> QED BY <2>1, <2>5, <2>6
<1>4. ASSUME NEW n \in Node, ProbeAnswers(n) PROVE IInv'
  <2>1. /\ n \in refresh.probes /\ UNCHANGED <<chain, up, req, fallback>>
        /\ refresh' = [refresh EXCEPT !.probes = @ \ {n}]
    BY <1>4 DEF ProbeAnswers
  <2>2. PICK l \in 1..MaxLatency, e \in 1..chain[n].lowest, c \in CatchingUp :
          RecordProbe(n, l, chain[n].tip, e, c)
    BY <1>4 DEF ProbeAnswers
  <2>3. chain[n].tip \in Height /\ e \in Height /\ e <= chain[n].lowest
    BY DEF Truth, Height, PoolAssumption
  <2>4. PoolTypeOK' /\ HintsSound'
    BY <2>1, <2>2, <2>3, ProbeKeeps
  <2>5. refresh' \in RefreshState /\ RequestsOK'
    BY <2>1 DEF RefreshState, RequestsOK, AskingOK
  <2> QED BY <2>1, <2>4, <2>5
<1>5. ASSUME NEW n \in Node, ProbeFails(n) PROVE IInv'
  <2>1. /\ RecordFailure(n) /\ UNCHANGED <<chain, up, req, fallback>>
        /\ refresh' = [refresh EXCEPT !.probes = @ \ {n},
                           !.phase = IF FailureRaises(pool[n]) THEN "idle" ELSE @]
    BY <1>5 DEF ProbeFails
  <2>2. PoolTypeOK' /\ HintsSound'
    BY <2>1, FailureKeeps
  <2>3. refresh' \in RefreshState /\ RequestsOK'
    BY <2>1 DEF RefreshState, RequestsOK, AskingOK
  <2> QED BY <2>1, <2>2, <2>3
<1>6. CASE ProbesDone
  <2>1. UNCHANGED <<pool, chain, up, fallback>>
    BY <1>6 DEF ProbesDone
  <2>2. refresh' \in RefreshState
    BY <1>6 DEF ProbesDone, RefreshState
  <2>3. RequestsOK'
    <3>1. CASE UNCHANGED req
      BY <3>1 DEF RequestsOK, AskingOK
    <3>2. CASE Begin(Refresher, "chain", None)
      BY <3>2, BeginTyped DEF Caller, MaybeHeight
    <3> QED BY <1>6, <3>1, <3>2 DEF ProbesDone
  <2>4. PoolTypeOK' /\ HintsSound'
    BY <2>1 DEF PoolTypeOK, HintsSound
  <2> QED BY <2>1, <2>2, <2>3, <2>4
<1>7. CASE FallbackRefreshed
  <2>1. /\ UNCHANGED <<pool, chain, up>> /\ refresh' = [refresh EXCEPT !.phase = "idle"]
        /\ req' = [req EXCEPT ![Refresher] = IdleRequest]
    BY <1>7 DEF FallbackRefreshed
  <2>2. PICK urls \in Listing \cup {<<>>} : fallback' = [urls |-> urls, age |-> 0]
    BY <1>7 DEF FallbackRefreshed
  <2>3. urls \in Seq(Participants)
    <3>1. CASE urls = <<>>
      BY <3>1, EmptySeq
    <3>2. CASE urls \in Listing
      <4>1. PICK k \in 0..FallbackPoolSize : urls \in [1..k -> Participants]
        BY <3>2 DEF Listing
      <4>2. k \in Nat
        BY <4>1 DEF ClientAssumption
      <4> QED BY <4>1, <4>2
    <3> QED BY <3>1, <3>2
  <2>4. fallback' \in FallbackState
    BY <2>2, <2>3 DEF FallbackState, ClientAssumption
  <2>5. RequestsOK'
    BY <2>1, IdleTyped, RequestUpdate DEF Caller
  <2>6. refresh' \in RefreshState /\ PoolTypeOK' /\ HintsSound'
    BY <2>1 DEF RefreshState, PoolTypeOK, HintsSound
  <2> QED BY <2>1, <2>4, <2>5, <2>6
<1> QED BY <1>2, <1>3, <1>4, <1>5, <1>6, <1>7

LEMMA StepInv ==
    ASSUME PoolAssumption, ClientAssumption, IInv, [Next]_vars PROVE IInv'
<1>1. CASE Next
  BY <1>1, EnvironmentInv, RequestInv, RefreshInv DEF Next, Caller
<1>2. CASE UNCHANGED vars
  <2> USE InvParts DEF TypeParts
  <2>1. UNCHANGED <<pool, chain, up, req, refresh, fallback>>
    BY <1>2 DEF vars
  <2> QED BY <2>1 DEF PoolTypeOK, HintsSound, RequestsOK, AskingOK
<1> QED BY <1>1, <1>2

-----------------------------------------------------------------------------
\* The invariant holds in every reachable state of every instance.
THEOREM Invariant == Spec => []IInv
<1>1. Init => IInv
  BY InitInv, PoolAssumption, ClientAssumption
<1>2. IInv /\ [Next]_vars => IInv'
  BY StepInv, PoolAssumption, ClientAssumption
<1> QED BY <1>1, <1>2, PTL DEF Spec

\* The pool, the requests, the refresh and the fallback list keep their types,
\* in whatever order answers, probes and node failures arrive.
THEOREM TypeCorrect == Spec => []TypeOK
<1>1. IInv => TypeOK
  BY DEF IInv
<1> QED BY <1>1, Invariant, PTL

\* record_data_unavailable and record_probe never teach the pool a floor above
\* the real one: no height is routed away from a node that still holds it.
THEOREM HintsAreSound == Spec => []HintsSound
<1>1. IInv => HintsSound
  BY DEF IInv
<1> QED BY <1>1, Invariant, PTL

-----------------------------------------------------------------------------
(***************************************************************************)
(* What a request has heard.  Its place in the order of the nodes tells    *)
(* which of them have answered it and how.                                 *)
(***************************************************************************)

Refused == {"failure", "unavailable", "app"}

AllDown(q) ==
    /\ ParticipantFallback /\ q.kind = "chain"
    /\ \A n \in Node : q.heard[n] = "failure"

RealAnswer(q) == \E n \in Node : q.heard[n] \in {"app", "answer"}

HeardOK(q) ==
    /\ \A n \in Node : \E i \in Node : q.order[i] = n
    /\ q.pc = "asking" =>
          /\ \A i \in Node : i < q.next => q.heard[q.order[i]] \in Refused
          /\ q.down => \A i \in Node : i < q.next => q.heard[q.order[i]] = "failure"
          /\ q.kind = "chain" => ~RealAnswer(q)
    /\ q.pc = "fallback" => AllDown(q)
    /\ q.pc = "failed" =>
          \/ \A n \in Node : q.heard[n] \in Refused
          \/ q.kind = "chain" /\ \E n \in Node : q.heard[n] = "app"
    /\ q.pc = "served" => AllDown(q) \/ \E n \in Node : q.heard[n] = "answer"
    /\ q.pc = "idle" => ~RealAnswer(q)

\* The refresh uses its own request only while it looks for participants.
RefresherOK ==
    /\ refresh.phase = "discovering" => refresh.probes = {}
    /\ refresh.phase # "discovering" => req[Refresher].pc = "idle"

HeardInv == (\A r \in Caller : HeardOK(req[r])) /\ RefresherOK

\* A request that is over is only handed back.
HandedBack(r) == Over(r) => req'[r].heard = req[r].heard \/ req'[r] = IdleRequest

HeardStep == \A r \in Caller : HeardOK(req'[r]) /\ HandedBack(r)

LEMMA OneRequest ==
    ASSUME req \in [Caller -> Request], \A s \in Caller : HeardOK(req[s]),
           NEW r \in Caller, NEW q, req' = [req EXCEPT ![r] = q],
           HeardOK(q), Over(r) => q.heard = req[r].heard \/ q = IdleRequest
    PROVE  HeardStep /\ (r # Refresher => req'[Refresher] = req[Refresher])
<1>1. \A s \in Caller : req'[s] = IF s = r THEN q ELSE req[s]
  OBVIOUS
<1>2. Refresher \in Caller
  BY DEF Caller
<1> QED BY <1>1, <1>2 DEF HeardStep, HandedBack

LEMMA IdleHeard == HeardOK(IdleRequest)
BY DEF HeardOK, IdleRequest, RealAnswer

LEMMA BeginHeard ==
    ASSUME req \in [Caller -> Request], \A s \in Caller : HeardOK(req[s]), PoolAssumption,
           NEW r \in Caller, req[r].pc = "idle", NEW kind, NEW h, Begin(r, kind, h)
    PROVE  HeardStep /\ (r # Refresher => req'[Refresher] = req[Refresher])
<1>1. PICK s \in [Node -> Node] :
         /\ \A n \in Node : \E i \in Node : s[i] = n
         /\ req' = [req EXCEPT ![r] = [IdleRequest EXCEPT
                    !.pc = "asking", !.kind = kind, !.height = h, !.order = s]]
  BY DEF Begin, Orders
<1> DEFINE q == [IdleRequest EXCEPT !.pc = "asking", !.kind = kind, !.height = h, !.order = s]
<1>2. /\ q.pc = "asking" /\ q.next = 1 /\ q.order = s
      /\ \A n \in Node : q.heard[n] = "nothing"
  BY DEF IdleRequest
<1>3. \A i \in Node : ~(i < q.next)
  BY <1>2 DEF Node, PoolAssumption
<1>4. req' = [req EXCEPT ![r] = q]
  BY <1>1
<1> HIDE DEF q
<1>5. HeardOK(q)
  BY <1>1, <1>2, <1>3 DEF HeardOK, RealAnswer
<1> QED BY <1>4, <1>5, OneRequest DEF Over

\* The loop over the nodes ends with every one of them asked, or with a
\* node's real answer to a request that stops there.
LEMMA LoopEndHeard ==
    ASSUME NEW q \in Request,
           \A n \in Node : \E i \in Node : q.order[i] = n,
           \/ /\ \A n \in Node : q.heard[n] \in Refused
              /\ q.down => \A n \in Node : q.heard[n] = "failure"
           \/ ~q.down /\ q.kind = "chain" /\ \E n \in Node : q.heard[n] = "app"
    PROVE  HeardOK(AfterLastNode(q))
<1> DEFINE urls == SubSeq(fallback.urls, 1, Smaller(FallbackAttempts, Len(fallback.urls)))
<1>1. CASE q.kind = "chain" /\ ParticipantFallback /\ q.down /\ urls # <<>>
  <2>1. AfterLastNode(q) = [q EXCEPT !.pc = "fallback", !.urls = urls]
    BY <1>1 DEF AfterLastNode
  <2> HIDE DEF urls
  <2> DEFINE t == [q EXCEPT !.pc = "fallback", !.urls = urls]
  <2>2. t.pc = "fallback" /\ t.order = q.order /\ t.heard = q.heard /\ t.kind = q.kind
    BY DEF Request
  <2> HIDE DEF t
  <2>3. HeardOK(t)
    BY <1>1, <2>2 DEF HeardOK, AllDown
  <2> QED BY <2>1, <2>3 DEF t
<1>2. CASE ~(q.kind = "chain" /\ ParticipantFallback /\ q.down /\ urls # <<>>)
  <2>1. AfterLastNode(q) = [q EXCEPT !.pc = "failed"]
    BY <1>2 DEF AfterLastNode
  <2> DEFINE t == [q EXCEPT !.pc = "failed"]
  <2>2. t.pc = "failed" /\ t.order = q.order /\ t.heard = q.heard /\ t.kind = q.kind
    BY DEF Request
  <2> HIDE DEF t
  <2>3. HeardOK(t)
    BY <2>2 DEF HeardOK
  <2> QED BY <2>1, <2>3 DEF t
<1> QED BY <1>1, <1>2

LEMMA NextNodeHeard ==
    ASSUME ClientAssumption, PoolAssumption, RequestsOK, \A s \in Caller : HeardOK(req[s]),
           NEW r \in Caller, Asking(r), NEW outcome \in Refused, NextNode(r, outcome)
    PROVE  HeardStep /\ (r # Refresher => req'[Refresher] = req[Refresher])
<1> DEFINE n == Asked(r)
           heard == [req[r].heard EXCEPT ![n] = outcome]
           down == req[r].down /\ outcome = "failure"
           nxt == req[r].next + 1
           q == [req[r] EXCEPT !.heard = heard, !.next = nxt, !.down = down]
           stop == EndsRequest(q, outcome) \/ q.next > NumNodes
           t == IF stop THEN AfterLastNode(q) ELSE q
<1>1. req[r] \in Request /\ req[r].pc = "asking" /\ req[r].next \in Node
  BY DEF RequestsOK, AskingOK, Asking
<1>2. n = req[r].order[req[r].next] /\ n \in Node
  BY <1>1 DEF Asked, Request
<1>3. req' = [req EXCEPT ![r] = t]
  <2>1. q = [req[r] EXCEPT !.heard[n] = outcome, !.next = @ + 1,
                           !.down = OnlyNodeFailures(req[r], outcome)]
    BY <1>1 DEF Request, OnlyNodeFailures
  <2> HIDE DEF q
  <2> QED BY <2>1 DEF NextNode
<1>4. /\ heard \in [Node -> {"nothing", "failure", "unavailable", "app", "answer"}]
      /\ heard[n] = outcome
      /\ \A m \in Node : m # n => heard[m] = req[r].heard[m]
  BY <1>1, <1>2 DEF Request, Refused
<1>5. nxt \in 1..(NumNodes + 1) /\ down \in BOOLEAN
  BY <1>1 DEF Node, PoolAssumption
<1>6. /\ \A m \in Node : \E i \in Node : req[r].order[i] = m
      /\ \A i \in Node : i < req[r].next => req[r].heard[req[r].order[i]] \in Refused
      /\ req[r].down => \A i \in Node : i < req[r].next =>
                            req[r].heard[req[r].order[i]] = "failure"
      /\ req[r].kind = "chain" => ~RealAnswer(req[r])
  BY <1>1 DEF HeardOK
<1>7. \A i \in Node : req[r].order[i] \in Node
  BY <1>1 DEF Request
<1>8. \A i \in Node : i < nxt => i < req[r].next \/ i = req[r].next
  BY <1>1 DEF Node, PoolAssumption
<1>9. \A i \in Node : i < nxt => heard[req[r].order[i]] \in Refused
  BY <1>2, <1>4, <1>6, <1>7, <1>8
<1>10. down => \A i \in Node : i < nxt => heard[req[r].order[i]] = "failure"
  BY <1>2, <1>4, <1>6, <1>7, <1>8
<1> HIDE DEF heard, down, nxt, n
<1>11. /\ q \in Request /\ q.pc = "asking" /\ q.next = nxt /\ q.down = down
       /\ q.heard = heard /\ q.order = req[r].order /\ q.kind = req[r].kind
  BY <1>1, <1>4, <1>5 DEF Request
<1> HIDE DEF q
<1>12. HeardOK(t)
  <2>1. CASE q.next > NumNodes
    <3>1. \A i \in Node : i < nxt
      BY <2>1, <1>5, <1>11 DEF Node, PoolAssumption
    <3>2. /\ \A m \in Node : q.heard[m] \in Refused
          /\ q.down => \A m \in Node : q.heard[m] = "failure"
      BY <3>1, <1>6, <1>9, <1>10, <1>11
    <3>3. HeardOK(AfterLastNode(q))
      BY <3>2, <1>6, <1>11, LoopEndHeard
    <3> QED BY <2>1, <3>3
  <2>2. CASE EndsRequest(q, outcome)
    <3>1. outcome = "app" /\ q.kind = "chain"
      BY <2>2 DEF EndsRequest
    <3>2. ~down
      BY <3>1 DEF down
    <3>3. q.heard[n] = "app"
      BY <3>1, <1>4, <1>11
    <3>4. HeardOK(AfterLastNode(q))
      BY <3>1, <3>2, <3>3, <1>2, <1>6, <1>11, LoopEndHeard
    <3> QED BY <2>2, <3>4
  <2>3. CASE ~stop
    <3>1. q.kind = "chain" => ~RealAnswer(q)
      BY <2>3, <1>1, <1>2, <1>4, <1>6, <1>11 DEF EndsRequest, RealAnswer, Refused
    <3>2. HeardOK(q)
      BY <3>1, <1>6, <1>9, <1>10, <1>11 DEF HeardOK
    <3> QED BY <2>3, <3>2
  <2> QED BY <2>1, <2>2, <2>3
<1> HIDE DEF t
<1>13. req \in [Caller -> Request] /\ ~Over(r)
  BY <1>1 DEF RequestsOK, Over
<1> QED BY <1>3, <1>12, <1>13, OneRequest

LEMMA AnswerHeard ==
    ASSUME ClientAssumption, PoolAssumption, IInv, \A s \in Caller : HeardOK(req[s]),
           NEW r \in Caller, Answer(r)
    PROVE  HeardStep /\ (r # Refresher => req'[Refresher] = req[Refresher])
<1>1. RequestsOK /\ req \in [Caller -> Request] /\ req[r] \in Request /\ HeardOK(req[r])
  BY DEF IInv, TypeOK, RequestsOK
<1>2. Asking(r) => Asked(r) \in Node /\ ~Over(r)
  BY <1>1 DEF Asking, Asked, Request, RequestsOK, AskingOK, Over
<1>3. CASE AnswerServed(r)
  <2> DEFINE heard == [req[r].heard EXCEPT ![Asked(r)] = "answer"]
             q == [req[r] EXCEPT !.pc = "served", !.heard = heard]
  <2>1. Asking(r) /\ req' = [req EXCEPT ![r] = q]
    BY <1>1, <1>3 DEF AnswerServed, Request
  <2>2. heard[Asked(r)] = "answer"
    BY <1>1, <1>2, <2>1 DEF Request
  <2> HIDE DEF heard
  <2>3. q.pc = "served" /\ q.order = req[r].order /\ q.heard = heard
    BY <1>1 DEF Request
  <2> HIDE DEF q
  <2>4. HeardOK(q)
    BY <1>1, <1>2, <2>1, <2>2, <2>3 DEF HeardOK
  <2> QED BY <1>1, <1>2, <2>1, <2>4, OneRequest
<1>4. CASE AnswerAppError(r)
  BY <1>1, <1>4, NextNodeHeard DEF AnswerAppError, Refused
<1>5. CASE AnswerUnavailable(r)
  <2>1. Asking(r) /\ NextNode(r, "unavailable")
    BY <1>5 DEF AnswerUnavailable
  <2> QED BY <1>1, <2>1, NextNodeHeard DEF Refused
<1>6. CASE AnswerFailure(r)
  <2>1. Asking(r)
    BY <1>6 DEF AnswerFailure
  <2>2. CASE NextNode(r, "failure")
    BY <1>1, <2>1, <2>2, NextNodeHeard DEF Refused
  <2>3. CASE req' = [req EXCEPT ![r].pc = "raised", ![r].heard[Asked(r)] = "failure"]
    <3> DEFINE heard == [req[r].heard EXCEPT ![Asked(r)] = "failure"]
               q == [req[r] EXCEPT !.pc = "raised", !.heard = heard]
    <3>1. req' = [req EXCEPT ![r] = q]
      BY <1>1, <2>3 DEF Request
    <3> HIDE DEF heard
    <3>2. q.pc = "raised" /\ q.order = req[r].order
      BY <1>1 DEF Request
    <3> HIDE DEF q
    <3>3. HeardOK(q)
      BY <1>1, <3>2 DEF HeardOK
    <3> QED BY <1>1, <1>2, <2>1, <3>1, <3>3, OneRequest
  <2> QED BY <1>6, <2>2, <2>3 DEF AnswerFailure
<1>7. CASE AnswerFallback(r)
  <2>1. req[r].pc = "fallback" /\ ~Over(r) /\ AllDown(req[r])
    BY <1>1, <1>7 DEF AnswerFallback, Over, HeardOK
  <2>2. PICK q : /\ req' = [req EXCEPT ![r] = q]
                 /\ q.order = req[r].order /\ q.heard = req[r].heard /\ q.kind = req[r].kind
                 /\ q.pc \in {"served", "fallback", "failed"}
    <3> DEFINE served == [req[r] EXCEPT !.pc = "served"]
               rest == [req[r] EXCEPT !.urls = Tail(req[r].urls),
                            !.pc = IF Len(req[r].urls) > 1 THEN "fallback" ELSE "failed"]
    <3>1. /\ served.order = req[r].order /\ served.heard = req[r].heard
          /\ served.kind = req[r].kind /\ served.pc = "served"
      BY <1>1 DEF Request
    <3>2. /\ rest.order = req[r].order /\ rest.heard = req[r].heard
          /\ rest.kind = req[r].kind /\ rest.pc \in {"fallback", "failed"}
      BY <1>1 DEF Request
    <3>3. req' = [req EXCEPT ![r] = served] \/ req' = [req EXCEPT ![r] = rest]
      BY <1>7 DEF AnswerFallback
    <3> HIDE DEF served, rest
    <3> QED BY <3>1, <3>2, <3>3
  <2>3. HeardOK(q)
    <3>1. \A n \in Node : q.heard[n] \in Refused
      BY <2>1, <2>2 DEF AllDown, Refused
    <3>2. AllDown(q)
      BY <2>1, <2>2 DEF AllDown
    <3> QED BY <1>1, <2>2, <3>1, <3>2 DEF HeardOK
  <2> QED BY <1>1, <2>1, <2>2, <2>3, OneRequest
<1> QED BY <1>3, <1>4, <1>5, <1>6, <1>7 DEF Answer

LEMMA HeardKept ==
    ASSUME ClientAssumption, PoolAssumption, IInv, HeardInv, [Next]_vars
    PROVE  HeardInv' /\ HeardStep
<1>1. /\ req \in [Caller -> Request] /\ Refresher \in Caller
      /\ \A r \in Caller : HeardOK(req[r])
  BY DEF IInv, TypeOK, HeardInv, Caller
<1>2. ASSUME UNCHANGED req PROVE HeardStep /\ req'[Refresher] = req[Refresher]
  BY <1>1, <1>2 DEF HeardStep, HandedBack
<1>3. ASSUME HeardStep, RefresherOK' PROVE HeardInv' /\ HeardStep
  BY <1>3 DEF HeardInv, HeardStep
<1>4. CASE UNCHANGED <<req, refresh>>
  BY <1>2, <1>3, <1>4 DEF RefresherOK, HeardInv
<1>5. CASE Elapse
  <2>1. UNCHANGED req /\ refresh' = [refresh EXCEPT !.age = Smaller(@ + 1, ProbeInterval)]
    BY <1>5 DEF Elapse
  <2>2. refresh'.phase = refresh.phase /\ refresh'.probes = refresh.probes
    BY <2>1 DEF IInv, TypeOK
  <2> QED BY <1>2, <1>3, <2>1, <2>2 DEF RefresherOK, HeardInv
<1>6. ASSUME NEW r \in Requests, NEW kind, NEW h, StartRequest(r, kind, h)
      PROVE  HeardInv' /\ HeardStep
  <2>1. r \in Caller /\ r # Refresher /\ req[r].pc = "idle" /\ Begin(r, kind, h)
    BY <1>6 DEF StartRequest, Caller, ClientAssumption
  <2>2. HeardStep /\ req'[Refresher] = req[Refresher]
    BY <1>1, <2>1, BeginHeard
  <2>3. \/ UNCHANGED refresh
        \/ refresh.phase = "idle" /\ refresh' = [phase |-> "probing", probes |-> Node, age |-> 0]
    BY <1>6 DEF StartRequest, ScheduleNodeRefresh
  <2>4. RefresherOK'
    BY <2>2, <2>3 DEF RefresherOK, HeardInv
  <2> QED BY <1>3, <2>2, <2>4
<1>7. ASSUME NEW r \in Caller, Answer(r) PROVE HeardInv' /\ HeardStep
  <2>1. HeardStep /\ (r # Refresher => req'[Refresher] = req[Refresher])
    BY <1>1, <1>7, AnswerHeard
  <2>2. UNCHANGED refresh
    BY <1>7 DEF Answer, AnswerServed, AnswerAppError, AnswerUnavailable, AnswerFailure,
                AnswerFallback
  <2>3. req[r].pc # "idle"
    BY <1>7 DEF Answer, AnswerServed, AnswerAppError, AnswerUnavailable, AnswerFailure,
                AnswerFallback, Asking
  <2>4. RefresherOK'
    BY <2>1, <2>2, <2>3 DEF RefresherOK, HeardInv
  <2> QED BY <1>3, <2>1, <2>4
<1>8. ASSUME NEW r \in Caller, Return(r) PROVE HeardInv' /\ HeardStep
  <2>1. /\ r # Refresher /\ req' = [req EXCEPT ![r] = IdleRequest] /\ UNCHANGED refresh
    BY <1>8 DEF Return, ClientAssumption
  <2>2. HeardStep /\ req'[Refresher] = req[Refresher]
    BY <1>1, <2>1, IdleHeard, OneRequest
  <2> QED BY <1>3, <2>1, <2>2 DEF RefresherOK, HeardInv
<1>9. ASSUME NEW n \in Node, ProbeAnswers(n) \/ ProbeFails(n) PROVE HeardInv' /\ HeardStep
  <2>1. /\ UNCHANGED req /\ n \in refresh.probes
        /\ refresh'.phase \in {refresh.phase, "idle"}
    BY <1>9 DEF ProbeAnswers, ProbeFails, IInv, TypeOK
  <2>2. RefresherOK'
    BY <2>1 DEF RefresherOK, HeardInv, IInv, TypeOK
  <2> QED BY <1>2, <1>3, <2>1, <2>2
<1>10. CASE ProbesDone
  <2>1. refresh.phase = "probing" /\ refresh.probes = {} /\ refresh \in RefreshState
    BY <1>10 DEF ProbesDone, IInv, TypeOK, RefreshState
  <2>2. CASE refresh' = [refresh EXCEPT !.phase = "discovering"]
             /\ Begin(Refresher, "chain", None)
    <3>1. req[Refresher].pc = "idle"
      BY <2>1 DEF HeardInv, RefresherOK
    <3>2. HeardStep
      BY <1>1, <2>2, <3>1, BeginHeard
    <3>3. RefresherOK'
      BY <2>1, <2>2 DEF RefresherOK, RefreshState
    <3> QED BY <1>3, <3>2, <3>3
  <2>3. CASE refresh' = [refresh EXCEPT !.phase = "idle"] /\ UNCHANGED req
    <3>1. RefresherOK'
      BY <2>1, <2>3 DEF RefresherOK, HeardInv, RefreshState
    <3> QED BY <1>2, <1>3, <2>3, <3>1
  <2> QED BY <1>10, <2>2, <2>3 DEF ProbesDone
<1>11. CASE FallbackRefreshed
  <2>1. /\ req' = [req EXCEPT ![Refresher] = IdleRequest]
        /\ refresh' = [refresh EXCEPT !.phase = "idle"]
    BY <1>11 DEF FallbackRefreshed
  <2>2. HeardStep
    BY <1>1, <2>1, IdleHeard, OneRequest
  <2>3. RefresherOK'
    BY <1>1, <2>1 DEF RefresherOK, IdleRequest, IInv, TypeOK
  <2> QED BY <1>3, <2>2, <2>3
<1>12. CASE Environment \/ RotateUrl
  <2>1. UNCHANGED <<req, refresh>>
    BY <1>12 DEF Environment, RotateUrl, GoDown, ComeBack, Advance, Prune
  <2> QED BY <1>4, <2>1
<1>13. CASE UNCHANGED vars
  BY <1>4, <1>13 DEF vars
<1> QED
  BY <1>5, <1>6, <1>7, <1>8, <1>9, <1>10, <1>11, <1>12, <1>13 DEF Next

THEOREM HeardInvariant == Spec => []HeardInv
<1>1. Init => HeardInv
  <2> SUFFICES ASSUME Init PROVE HeardInv
    OBVIOUS
  <2>1. \A r \in Caller : req[r] = IdleRequest
    BY DEF Init
  <2>2. RefresherOK
    BY <2>1 DEF Init, RefresherOK, Caller, IdleRequest
  <2> QED BY <2>1, <2>2, IdleHeard DEF HeardInv
<1>2. IInv /\ HeardInv /\ [Next]_vars => HeardInv'
  BY HeardKept, PoolAssumption, ClientAssumption
<1> QED BY <1>1, <1>2, Invariant, PTL DEF Spec

\* A request that gives up has an answer from every node, or a real one.
THEOREM GivesUpExhausted == Spec => []GivesUpOnlyWhenExhausted
<1>1. HeardInv => GivesUpOnlyWhenExhausted
  BY DEF HeardInv, HeardOK, GivesUpOnlyWhenExhausted, Refused
<1> QED BY <1>1, HeardInvariant, PTL

\* Participants are asked only after every configured node failed the request.
THEOREM ParticipantsAreLast == Spec => []ParticipantsOnlyWhenAllDown
<1>1. HeardInv => ParticipantsOnlyWhenAllDown
  BY DEF HeardInv, HeardOK, ParticipantsOnlyWhenAllDown, AllDown
<1> QED BY <1>1, HeardInvariant, PTL

\* After a node's real answer a request asks no one else.
THEOREM ARealAnswerEnds == Spec => RealAnswerEndsRequest
<1>1. IInv /\ HeardInv /\ [Next]_vars =>
        [\A r \in Caller :
          /\ req[r].kind = "chain"
          /\ \E n \in Node : req[r].heard[n] \in {"app", "answer"}
          => req'[r].heard = req[r].heard \/ req'[r] = IdleRequest]_vars
  <2> SUFFICES ASSUME IInv, HeardInv, [Next]_vars, NEW r \in Caller,
                      req[r].kind = "chain", RealAnswer(req[r])
               PROVE  req'[r].heard = req[r].heard \/ req'[r] = IdleRequest
    BY DEF RealAnswer
  <2>1. HandedBack(r)
    BY HeardKept, PoolAssumption, ClientAssumption DEF HeardStep
  <2>2. HeardOK(req[r]) /\ req[r] \in Request
    BY DEF HeardInv, IInv, TypeOK
  <2>3. req[r].pc \notin {"idle", "asking", "fallback"}
    BY <2>2 DEF HeardOK, RealAnswer, AllDown
  <2>4. Over(r)
    BY <2>2, <2>3 DEF Over, Request
  <2> QED BY <2>1, <2>4 DEF HandedBack
<1> QED BY <1>1, Invariant, HeardInvariant, PTL DEF Spec, RealAnswerEndsRequest
=============================================================================
