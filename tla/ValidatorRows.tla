---------------------------- MODULE ValidatorRows ----------------------------
(***************************************************************************)
(* backend/service.py: the jail statuses, confirmation data and node       *)
(* health that every page of an epoch is merged with.                      *)
(*                                                                         *)
(* Three pollers replace the rows.  A page that finds none fetches them    *)
(* itself, for the epoch and at the height it happens to have, and may     *)
(* store them long after it looked.  All that is asked about the chain is  *)
(* asked at one height, so a row is worth the height it was read at.       *)
(***************************************************************************)
EXTENDS Integers

CONSTANTS
    StakeEpochLength,   \* blocks of an epoch of the modelled chain
    MaxStakeTip,        \* bound: the chain stops here
    MaxStakeFaults      \* bound: failed requests and restarts

ASSUME StakeAssumption ==
    /\ StakeEpochLength \in Nat \ {0} /\ MaxStakeTip \in Nat \ {0}
    /\ MaxStakeFaults \in Nat

StakeHeight == 1..MaxStakeTip
StakeEpochAt(h) == (h - 1) \div StakeEpochLength + 1
StakeEpoch == 1..StakeEpochAt(MaxStakeTip)

\* The height of rows that are not there.
NoRow == 0
RowAge == StakeHeight \cup {NoRow}

VARIABLES
    stakeTip,       \* height of the chain, which is also the time
    jailRows,       \* jail_status: for each epoch the height it was read at
    ratioRows,      \* confirmation_data: likewise
    healthRows,     \* node_health: when the first of the nodes was asked
    watch,          \* the coroutines of the pollers
    merge,          \* merge_jail_and_health_data of a page
    stakeFaults

validatorVars == <<stakeTip, jailRows, ratioRows, healthRows, watch, merge, stakeFaults>>
validatorTables == <<jailRows, ratioRows, healthRows>>

Watcher == {"jail", "confirmation", "health"}

Watch == [pc : {"idle", "height", "fetch"}, epoch : StakeEpoch, height : RowAge]
Merge == [pc : {"idle", "jail", "health", "checks"}, epoch : StakeEpoch, height : RowAge]

NoWatch == [pc |-> "idle", epoch |-> 1, height |-> NoRow]

ValidatorsTypeOK ==
    /\ stakeTip \in StakeHeight
    /\ jailRows \in [StakeEpoch -> RowAge]
    /\ ratioRows \in [StakeEpoch -> RowAge]
    /\ healthRows \in RowAge
    /\ watch \in [Watcher -> Watch] /\ merge \in Merge
    /\ stakeFaults \in 0..MaxStakeFaults

ValidatorsInit ==
    /\ stakeTip = 1
    /\ jailRows = [e \in StakeEpoch |-> NoRow]
    /\ ratioRows = [e \in StakeEpoch |-> NoRow]
    /\ healthRows = NoRow
    /\ watch = [w \in Watcher |-> NoWatch] /\ merge = NoWatch
    /\ stakeFaults = 0

StakeEpochNow == StakeEpochAt(stakeTip)

StakeFault == stakeFaults < MaxStakeFaults /\ stakeFaults' = stakeFaults + 1

\* Mutant of Stored: INSERT OR IGNORE.
StoredOnce(old, new) == IF old = NoRow THEN new ELSE old

\* INSERT OR REPLACE, whatever the heights of the two.
Stored(old, new) == new

-----------------------------------------------------------------------------
StakeChainGrows ==
    /\ stakeTip < MaxStakeTip
    /\ stakeTip' = stakeTip + 1
    /\ UNCHANGED <<validatorTables, watch, merge, stakeFaults>>

(***************************************************************************)
(* poll_jail_status, poll_confirmation_data and poll_node_health           *)
(***************************************************************************)

\* The participants, and with them the epoch, come before the height.  Nobody
\* keeps the time at which the first node is asked, but the rows are that old.
ReadStakeMembers(w) ==
    /\ watch[w].pc = "idle"
    /\ watch' = [watch EXCEPT ![w] =
          [pc |-> IF w = "health" THEN "fetch" ELSE "height",
           epoch |-> IF w = "health" THEN 1 ELSE StakeEpochNow,
           height |-> IF w = "health" THEN stakeTip ELSE NoRow]]
    /\ UNCHANGED <<stakeTip, validatorTables, merge, stakeFaults>>

ReadStakeHeight(w) ==
    /\ watch[w].pc = "height"
    /\ watch' = [watch EXCEPT ![w].pc = "fetch", ![w].height = stakeTip]
    /\ UNCHANGED <<stakeTip, validatorTables, merge, stakeFaults>>

\* fetch_and_cache_jail_statuses: validators and signing infos at the height.
StoreJail(e, h) == jailRows' = [jailRows EXCEPT ![e] = Stored(@, h)]

\* fetch_and_cache_node_health: one request per node, one after the other; one
\* that does not answer in time is unhealthy, so no request fails.
StoreHealth(h) == healthRows' = Stored(healthRows, h)

WatchJail ==
    /\ watch["jail"].pc = "fetch"
    /\ StoreJail(watch["jail"].epoch, watch["jail"].height)
    /\ watch' = [watch EXCEPT !["jail"] = NoWatch]
    /\ UNCHANGED <<stakeTip, ratioRows, healthRows, merge, stakeFaults>>

\* fetch_and_cache_confirmation_data: the groups of the epoch and, of each
\* participant, the ratio of the epoch the height lies in.
WatchConfirmation ==
    LET t == watch["confirmation"] IN
    /\ t.pc = "fetch"
    /\ ratioRows' = [ratioRows EXCEPT ![t.epoch] = Stored(@, t.height)]
    /\ watch' = [watch EXCEPT !["confirmation"] = NoWatch]
    /\ UNCHANGED <<stakeTip, jailRows, healthRows, merge, stakeFaults>>

WatchHealth ==
    /\ watch["health"].pc = "fetch"
    /\ StoreHealth(watch["health"].height)
    /\ watch' = [watch EXCEPT !["health"] = NoWatch]
    /\ UNCHANGED <<stakeTip, jailRows, ratioRows, merge, stakeFaults>>

\* A request raises, or the geography of the nodes, which comes first in the
\* health poll, does: the round is over.
WatchFails(w) ==
    /\ watch[w].pc # "idle"
    /\ StakeFault
    /\ watch' = [watch EXCEPT ![w] = NoWatch]
    /\ UNCHANGED <<stakeTip, validatorTables, merge>>

-----------------------------------------------------------------------------
(***************************************************************************)
(* merge_jail_and_health_data                                              *)
(***************************************************************************)

\* The page of the running epoch read its height before its epoch; that of a
\* past one has a height of its own: any epoch and any height can meet here.
StartMerge(e, h) ==
    /\ merge.pc = "idle" /\ e <= StakeEpochNow /\ h <= stakeTip
    /\ merge' = IF jailRows[e] # NoRow THEN [NoWatch EXCEPT !.pc = "health"]
                ELSE [pc |-> "jail", epoch |-> e, height |-> h]
    /\ UNCHANGED <<stakeTip, validatorTables, watch, stakeFaults>>

\* The exception of a fetch ends inside it, and the merge goes on.
MergeJail ==
    /\ merge.pc = "jail"
    /\ \/ StoreJail(merge.epoch, merge.height) /\ UNCHANGED stakeFaults
       \/ StakeFault /\ UNCHANGED jailRows
    /\ merge' = [NoWatch EXCEPT !.pc = "health"]
    /\ UNCHANGED <<stakeTip, ratioRows, healthRows, watch>>

LookAtHealth ==
    /\ merge.pc = "health"
    /\ merge' = IF healthRows = NoRow THEN [NoWatch EXCEPT !.pc = "checks", !.height = stakeTip]
              ELSE NoWatch
    /\ UNCHANGED <<stakeTip, validatorTables, watch, stakeFaults>>

MergeHealth ==
    /\ merge.pc = "checks"
    /\ StoreHealth(merge.height)
    /\ merge' = NoWatch
    /\ UNCHANGED <<stakeTip, jailRows, ratioRows, watch, stakeFaults>>

ValidatorsRestart ==
    /\ StakeFault
    /\ watch' = [w \in Watcher |-> NoWatch] /\ merge' = NoWatch
    /\ UNCHANGED <<stakeTip, validatorTables>>

-----------------------------------------------------------------------------
WatchStep(w) ==
    \/ ReadStakeHeight(w)
    \/ w = "jail" /\ WatchJail
    \/ w = "confirmation" /\ WatchConfirmation
    \/ w = "health" /\ WatchHealth

MergeStep == MergeJail \/ LookAtHealth \/ MergeHealth

\* The rows that pages fill as well.
JailAndHealthNext ==
    \/ StakeChainGrows
    \/ \E w \in {"jail", "health"} : ReadStakeMembers(w) \/ WatchStep(w) \/ WatchFails(w)
    \/ \E e \in StakeEpoch, h \in StakeHeight : StartMerge(e, h)
    \/ MergeStep
    \/ ValidatorsRestart

\* The rows that only their poller fills.
ConfirmationNext ==
    \/ StakeChainGrows
    \/ \E w \in {"confirmation"} : ReadStakeMembers(w) \/ WatchStep(w) \/ WatchFails(w)
    \/ ValidatorsRestart

ValidatorsNext == JailAndHealthNext \/ ConfirmationNext

ValidatorsSpec == ValidatorsInit /\ [][ValidatorsNext]_validatorVars

-----------------------------------------------------------------------------
(***************************************************************************)
(* Properties                                                              *)
(***************************************************************************)

\* A page may store its old height over what a poller just stored, yet
\* whatever height the chain reaches, the jail rows of the running epoch get
\* there, unless it ends first, and so do the health checks.
JailAndHealthFollow ==
    \A h \in StakeHeight :
        /\ stakeTip = h ~> jailRows[StakeEpochAt(h)] >= h \/ StakeEpochNow # StakeEpochAt(h)
        /\ stakeTip = h ~> healthRows >= h

\* So does the confirmation data, although the poller may store under an
\* epoch what it read after its end.
RatiosFollow ==
    \A h \in StakeHeight :
        stakeTip = h ~> ratioRows[StakeEpochAt(h)] >= h \/ StakeEpochNow # StakeEpochAt(h)

\* No row is of a height the chain has yet to reach, and what is stored as the
\* confirmation data of an epoch was not read before the epoch began.
RatiosAreOfTheirEpoch ==
    \A e \in StakeEpoch :
        /\ jailRows[e] <= stakeTip /\ ratioRows[e] <= stakeTip
        /\ ratioRows[e] # NoRow => StakeEpochAt(ratioRows[e]) >= e

\* Only its poller stores confirmation data, so no restart and no failed round
\* puts older data over newer, as a page may do with the jail statuses.
RatiosOnlyAdvance ==
    [][\A e \in StakeEpoch : ratioRows'[e] >= ratioRows[e]]_validatorVars

=============================================================================
