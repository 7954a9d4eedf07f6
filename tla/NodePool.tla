------------------------------ MODULE NodePool ------------------------------
(***************************************************************************)
(* backend/node_pool.py: what the explorer remembers of the chain nodes    *)
(* named in INFERENCE_URLS, and the order in which a request asks them.    *)
(*                                                                         *)
(* Deadlines of the code (cooldown_until, demoted_until) are kept as the   *)
(* time left, and state_floor_learned_at as the age of the floor, so that  *)
(* the passing of time is one action and no clock value is bounded.        *)
(***************************************************************************)
EXTENDS Naturals
LOCAL INSTANCE FiniteSetsExt

CONSTANTS
    NumNodes,                \* number of configured URLs
    FailuresBeforeCooldown,  \* FAILURES_BEFORE_COOLDOWN
    BaseCooldown,            \* BASE_COOLDOWN_SECONDS, in ticks
    MaxCooldown,             \* MAX_COOLDOWN_SECONDS, in ticks
    MaxExponent,             \* largest k for which BASE * 2**k is a float
    LagTolerance,            \* LAG_TOLERANCE_BLOCKS
    StateFloorTTL,           \* STATE_FLOOR_TTL_SECONDS, in ticks
    DemoteTicks,             \* ROTATE_DEMOTE_SECONDS, in ticks
    MaxHeight,               \* bound: heights are 1..MaxHeight
    MaxLatency,              \* bound: measured latencies are ranks 1..MaxLatency
    CatchingUp               \* bound: the catching_up flags a probe may bring

ASSUME PoolAssumption ==
    /\ NumNodes \in Nat \ {0}
    /\ FailuresBeforeCooldown \in Nat \ {0}
    /\ BaseCooldown \in Nat \ {0}
    /\ MaxCooldown \in Nat \ {0}
    /\ MaxExponent \in Nat
    /\ LagTolerance \in Nat
    /\ StateFloorTTL \in Nat \ {0}
    /\ DemoteTicks \in Nat
    /\ MaxHeight \in Nat \ {0}
    /\ MaxLatency \in Nat \ {0}
    /\ CatchingUp \subseteq BOOLEAN
    /\ \A k \in 0..MaxExponent : 2^k \in Nat  \* arithmetic the provers lack

VARIABLE pool                \* NodePool._nodes

Node == 1..NumNodes          \* a node is its position in INFERENCE_URLS
Height == 1..MaxHeight
None == 0                    \* a height that is not known or not asked for
MaybeHeight == Height \cup {None}
Unmeasured == MaxLatency + 1 \* latency None, which sorts as float("inf")

\* consecutive_failures saturates where the cooldown can no longer be computed.
OverflowCount == FailuresBeforeCooldown + MaxExponent + 1

Larger(a, b) == IF a < b THEN b ELSE a
Smaller(a, b) == IF a < b THEN a ELSE b
Less1(a) == IF a = 0 THEN 0 ELSE a - 1

NodeState ==
    [latency     : 1..Unmeasured,
     latest      : MaybeHeight,
     earliest    : MaybeHeight,
     catchingUp  : BOOLEAN,
     fails       : 0..OverflowCount,
     cooldown    : 0..MaxCooldown,
     stateFloor  : 0..(MaxHeight + 1),
     floorAge    : 0..StateFloorTTL,
     demoted     : 0..DemoteTicks]

FreshNode ==
    [latency |-> Unmeasured, latest |-> None, earliest |-> None,
     catchingUp |-> FALSE, fails |-> 0, cooldown |-> 0,
     stateFloor |-> 0, floorAge |-> StateFloorTTL, demoted |-> 0]

PoolTypeOK == pool \in [Node -> NodeState]

-----------------------------------------------------------------------------
(***************************************************************************)
(* The ordering: order, _lacks_data, _is_lagging, tip_height.              *)
(***************************************************************************)

TipHeight(p) == Max({p[n].latest : n \in Node})

LacksData(s, stateHeight, blockHeight) ==
    \/ blockHeight # None /\ s.earliest > blockHeight
    \/ /\ stateHeight # None
       /\ \/ s.earliest > stateHeight
          \/ s.floorAge < StateFloorTTL /\ s.stateFloor > stateHeight

IsLagging(s, tip) ==
    \/ s.catchingUp
    \/ s.latest # None /\ tip > s.latest + LagTolerance

Flag(b) == IF b THEN 1 ELSE 0

\* Mutant of SortKey: health before history.
SortKeyHealthFirst(p, n, stateHeight, blockHeight) ==
    << Flag(p[n].cooldown > 0), Flag(LacksData(p[n], stateHeight, blockHeight)),
       Flag(p[n].demoted > 0), Flag(IsLagging(p[n], TipHeight(p))), p[n].latency, n >>

SortKey(p, n, stateHeight, blockHeight) ==
    << Flag(LacksData(p[n], stateHeight, blockHeight)),
       Flag(p[n].cooldown > 0),
       Flag(p[n].demoted > 0),
       Flag(IsLagging(p[n], TipHeight(p))),
       p[n].latency,
       n >>

LexLess(u, v) ==
    \E i \in 1..6 : u[i] < v[i] /\ \A j \in 1..(i - 1) : u[j] = v[j]

\* NodePool.order: every node, best candidate first. The index breaks ties,
\* so exactly one listing qualifies.
Orders(p, stateHeight, blockHeight) ==
    LET key == [n \in Node |-> SortKey(p, n, stateHeight, blockHeight)] IN
    {s \in [Node -> Node] :
        /\ \A n \in Node : \E i \in Node : s[i] = n
        /\ \A i, j \in Node : i < j => LexLess(key[s[i]], key[s[j]])}

-----------------------------------------------------------------------------
(***************************************************************************)
(* The operations. Each is one synchronous method of the pool.             *)
(***************************************************************************)

\* Mutant of CooldownAfter: the cap is forgotten.
CooldownUncapped(fails) == BaseCooldown * 2^(fails - FailuresBeforeCooldown)

CooldownAfter(fails) ==
    Smaller(MaxCooldown, BaseCooldown * 2^(fails - FailuresBeforeCooldown))

\* 15.0 * 2**k raises OverflowError once 2**k no longer fits a float: the
\* counter has been incremented by then, the deadline is left as it was.
FailureRaises(s) == s.fails + 1 >= OverflowCount

\* Mutant of FailureRecorded: the first failure starts a cooldown.
FailureCoolsAtOnce(s) ==
    LET f == Smaller(s.fails + 1, OverflowCount) IN
    [s EXCEPT !.fails = f, !.cooldown = CooldownAfter(Larger(f, FailuresBeforeCooldown))]

FailureRecorded(s) ==
    LET f == Smaller(s.fails + 1, OverflowCount) IN
    [s EXCEPT !.fails = f,
              !.cooldown = IF f < FailuresBeforeCooldown \/ FailureRaises(s)
                           THEN @ ELSE CooldownAfter(f)]

\* Mutants of SuccessRecorded: one of the two resets is missing.
SuccessKeepsDeadline(s) == [s EXCEPT !.fails = 0]
SuccessKeepsCount(s) == [s EXCEPT !.cooldown = 0]

SuccessRecorded(s) == [s EXCEPT !.fails = 0, !.cooldown = 0]

\* Mutants of UnavailableRecorded: missing history counts as a failure; the
\* height after the failing one is taken to be pruned too.
UnavailableIsFailure(s, lowest, pruned, stateHeight) ==
    FailureRecorded([s EXCEPT !.earliest = Larger(@, lowest)])
UnavailableOneTooHigh(s, lowest, pruned, stateHeight) ==
    [s EXCEPT !.earliest = Larger(@, lowest),
              !.stateFloor = IF pruned THEN Larger(@, stateHeight + 2) ELSE @,
              !.floorAge = IF pruned THEN 0 ELSE @]

\* lowest: the height a "lowest height is" body names, or None;
\* pruned: the body carries a state-pruned marker.
UnavailableRecorded(s, lowest, pruned, stateHeight) ==
    LET learns == pruned /\ stateHeight # None
        known  == IF s.floorAge >= StateFloorTTL THEN 0 ELSE s.stateFloor
    IN [s EXCEPT !.earliest   = Larger(@, lowest),
                 !.stateFloor = IF learns THEN Larger(known, stateHeight + 1) ELSE @,
                 !.floorAge   = IF learns THEN 0 ELSE @]

\* The exponential smoothing yields some value between the old and the new.
Smoothed(old, measured) ==
    IF old = Unmeasured THEN {measured}
    ELSE Smaller(old, measured)..Larger(old, measured)

\* Mutant of ProbeRecorded: the floor a probe reports replaces the known one.
ProbeOverwritesFloor(s, latency, latest, earliest, catchingUp) ==
    SuccessRecorded([s EXCEPT !.latency = latency, !.latest = latest,
                              !.earliest = earliest, !.catchingUp = catchingUp])

ProbeRecorded(s, latency, latest, earliest, catchingUp) ==
    SuccessRecorded([s EXCEPT !.latency = latency, !.latest = latest,
                              !.earliest = Larger(@, earliest),
                              !.catchingUp = catchingUp])

Aged(s) ==
    [s EXCEPT !.cooldown = Less1(@), !.demoted = Less1(@),
              !.floorAge = Smaller(@ + 1, StateFloorTTL)]

RecordSuccess(n) == pool' = [pool EXCEPT ![n] = SuccessRecorded(@)]

RecordFailure(n) == pool' = [pool EXCEPT ![n] = FailureRecorded(@)]

RecordDataUnavailable(n, lowest, pruned, stateHeight) ==
    pool' = [pool EXCEPT ![n] = UnavailableRecorded(@, lowest, pruned, stateHeight)]

RecordProbe(n, measured, latest, earliest, catchingUp) ==
    \E latency \in Smoothed(pool[n].latency, measured) :
        pool' = [pool EXCEPT ![n] =
                    ProbeRecorded(@, latency, latest, earliest, catchingUp)]

Demote(n) == pool' = [pool EXCEPT ![n].demoted = DemoteTicks]

PoolElapse == pool' = [n \in Node |-> Aged(pool[n])]

-----------------------------------------------------------------------------
(***************************************************************************)
(* The pool under any caller.                                              *)
(***************************************************************************)

PoolInit == pool = [n \in Node |-> FreshNode]

PoolNext ==
    \/ \E n \in Node : RecordSuccess(n)
    \/ \E n \in Node : RecordFailure(n)
    \/ \E n \in Node, lowest, h \in MaybeHeight, pruned \in BOOLEAN :
          RecordDataUnavailable(n, lowest, pruned, h)
    \/ \E n \in Node, l \in 1..MaxLatency, latest, earliest \in Height,
          catchingUp \in CatchingUp :
          RecordProbe(n, l, latest, earliest, catchingUp)
    \/ \E n \in Node : Demote(n)
    \/ PoolElapse

PoolSpec == PoolInit /\ [][PoolNext]_pool

-----------------------------------------------------------------------------
(***************************************************************************)
(* Properties                                                              *)
(***************************************************************************)

Troubled(s) == s.cooldown > 0 \/ s.demoted > 0 \/ IsLagging(s, TipHeight(pool))

\* Missing history outranks every health sign: a node believed to hold the
\* height comes before each node known to lack it however unhealthy it is,
\* and among the nodes that hold it the untroubled ones come first.
HistoryBeforeHealth ==
    \A sh, bh \in MaybeHeight : \E s \in Orders(pool, sh, bh) :
        \A i, j \in Node : i < j =>
            LET lacks(k) == LacksData(pool[s[k]], sh, bh) IN
            /\ lacks(i) => lacks(j)
            /\ ~lacks(j) /\ Troubled(pool[s[i]]) => Troubled(pool[s[j]])

\* A node that is being avoided for its failures has really failed
\* FAILURES_BEFORE_COOLDOWN times in a row with no answer in between.
CoolingMeansRepeatedFailures ==
    \A n \in Node : pool[n].cooldown > 0 => pool[n].fails >= FailuresBeforeCooldown

\* "a single blip does not demote the fastest node": the first failure of a
\* node that was answering changes no ordering.
BlipKeepsOrder ==
    [][\A n \in Node :
          pool[n].fails = 0 /\ pool'[n].fails = 1 /\ FailuresBeforeCooldown > 1
            => \A sh, bh \in MaybeHeight : Orders(pool', sh, bh) = Orders(pool, sh, bh)]_pool

\* "Pruning only moves the floor up": whichever backend answers a probe, a
\* known block floor is never lowered, so a height once known to be pruned
\* stays routed away from the node.
BlockFloorNeverDrops ==
    [][\A n \in Node : pool'[n].earliest >= pool[n].earliest]_pool

\* Missing history is not ill health: an answer "pruned" leaves the order of
\* the requests that name no height as it was.
PrunedAnswerKeepsRealtimeOrder ==
    [][(\E n \in Node, lowest, h \in MaybeHeight, pruned \in BOOLEAN :
            RecordDataUnavailable(n, lowest, pruned, h))
        => Orders(pool', None, None) = Orders(pool, None, None)]_pool

=============================================================================
