------------------------------ MODULE Hardware ------------------------------
(***************************************************************************)
(* backend/service.py: the hardware nodes stored for each epoch and        *)
(* participant.                                                            *)
(*                                                                         *)
(* Three coroutines check the stored rows, ask the chain and replace them, *)
(* each for many participants at once: poll_hardware_nodes, the warming    *)
(* that every fetch of the current epoch starts, and the participant page. *)
(* The weight of a node (poc_weight) is not part of the answer: whoever    *)
(* has the weights of an epoch at hand adds them, the warming has none.    *)
(***************************************************************************)
EXTENDS Integers, FiniteSets

CONSTANTS
    Holders,            \* the participants
    MLNodes,            \* the local ids of their nodes
    Weighed,            \* the nodes to which each epoch gives a weight
    LastWeightEpoch,    \* bound: the chain stops here
    MaxHardwareFaults   \* bound: failed requests, changed nodes and restarts

ASSUME HardwareAssumption ==
    /\ LastWeightEpoch \in Nat \ {0} /\ MaxHardwareFaults \in Nat
    /\ Weighed \in [1..LastWeightEpoch -> SUBSET MLNodes]

WeightEpoch == 1..LastWeightEpoch
Source == {"poller", "warming", "page"}

\* The weights of a row are named by the epoch they were taken from.
NoWeight == 0

VARIABLES
    weightEpoch,      \* the chain's current epoch
    nodesOf,          \* the nodes each participant has now
    hardwareRows,     \* participant_hardware_nodes
    served,           \* current_epoch_id and current_epoch_data with its age
                      \* and the nodes in each participant's ml_nodes_map
    hardwarePoll,     \* the coroutine poll_hardware_nodes
    warming,          \* the coroutine inside warm_participant_cache
    jobs,             \* the fetch_hardware_node and warm_hardware coroutines
    hardwareFaults

hardwareVars == <<weightEpoch, nodesOf, hardwareRows, served, hardwarePoll,
                  warming, jobs, hardwareFaults>>
hardwareChain == <<weightEpoch, nodesOf>>

HardwareRow == [epoch : WeightEpoch, holder : Holders, node : MLNodes,
                weight : WeightEpoch \cup {NoWeight}]

\* weights, named: the epoch an ml_nodes_map is of, and the nodes in it.
Job == [pc : {"none", "check", "weigh", "fetch", "save"}, epoch : WeightEpoch,
        isCurrent : BOOLEAN, weights : WeightEpoch \cup {NoWeight},
        named : SUBSET MLNodes, nodes : SUBSET MLNodes]

NoJob == [pc |-> "none", epoch |-> 1, isCurrent |-> FALSE, weights |-> NoWeight,
          named |-> {}, nodes |-> {}]

Served == [epoch : WeightEpoch \cup {NoWeight}, fresh : BOOLEAN,
           named : [Holders -> SUBSET MLNodes]]

Unnamed == [h \in Holders |-> {}]
NoneServed == [epoch |-> NoWeight, fresh |-> FALSE, named |-> Unnamed]

Idle == [pc |-> "idle", epoch |-> 1]

HardwareTypeOK ==
    /\ weightEpoch \in WeightEpoch
    /\ nodesOf \in [Holders -> SUBSET MLNodes]
    /\ hardwareRows \subseteq HardwareRow
    /\ served \in Served
    /\ hardwarePoll \in [pc : {"idle", "stats", "jobs"}, epoch : WeightEpoch]
    /\ warming \in [pc : {"idle", "keys", "jobs"}, epoch : WeightEpoch]
    /\ jobs \in [Source -> [Holders -> Job]]
    /\ hardwareFaults \in 0..MaxHardwareFaults

HardwareInit ==
    /\ weightEpoch = 1
    /\ nodesOf = [h \in Holders |-> MLNodes]
    /\ hardwareRows = {}
    /\ served = NoneServed
    /\ hardwarePoll = Idle
    /\ warming = Idle
    /\ jobs = [s \in Source |-> [h \in Holders |-> NoJob]]
    /\ hardwareFaults = 0

HardwareFault ==
    /\ hardwareFaults < MaxHardwareFaults
    /\ hardwareFaults' = hardwareFaults + 1

JobsOver(s) == \A h \in Holders : jobs[s][h].pc = "none"

\* An ml_nodes_map of epoch w is given to a job; an empty one is as good as none.
WithMap(j, w, named) ==
    [j EXCEPT !.weights = IF named = {} THEN NoWeight ELSE w, !.named = named]

\* The coroutines of one asyncio.gather, one per participant.
Started(s, e, w, named) ==
    [jobs EXCEPT ![s] = [h \in Holders |->
        WithMap([NoJob EXCEPT !.pc = "check", !.epoch = e], w, named[h])]]

-----------------------------------------------------------------------------
(***************************************************************************)
(* The chain                                                               *)
(***************************************************************************)

WeightEpochEnds ==
    /\ weightEpoch < LastWeightEpoch
    /\ weightEpoch' = weightEpoch + 1
    /\ UNCHANGED <<nodesOf, hardwareRows, served, hardwarePoll, warming, jobs, hardwareFaults>>

NodesChange(h) ==
    /\ HardwareFault
    /\ \E nodes \in SUBSET MLNodes : nodesOf' = [nodesOf EXCEPT ![h] = nodes]
    /\ UNCHANGED <<weightEpoch, hardwareRows, served, hardwarePoll,
                   warming, jobs>>

-----------------------------------------------------------------------------
(***************************************************************************)
(* The current epoch in memory                                             *)
(***************************************************************************)

\* cache_warming_in_progress: raised without an await after the check, and
\* lowered in a finally, so it says no more than where the coroutine is.
WarmingInProgress == warming.pc # "idle"

\* warm_participant_cache: "already in progress" or "ran recently, skipping"
\* (under 60 s ago, here at any time), else it goes on.
WarmingStarts(e) ==
    \/ /\ ~ WarmingInProgress
       /\ warming' = [pc |-> "keys", epoch |-> e]
    \/ UNCHANGED warming

\* Whose nodes an answer names: _build_scaled_epoch_weight_data leaves out the
\* model groups it cannot read, and a participant may be skipped altogether.
Answers == {[epoch |-> weightEpoch, fresh |-> TRUE, named |-> named] :
                named \in [Holders -> SUBSET Weighed[weightEpoch]]}

Complete(data) == \A h \in Holders : data.named[h] = Weighed[data.epoch]

\* get_current_epoch_stats fetches the epoch; EpochLifecycle has its steps.
\* What is loaded from SQLite after a restart may be incomplete as well.
FetchEpochStats(data) ==
    /\ (Complete(data) /\ UNCHANGED hardwareFaults) \/ HardwareFault
    /\ served' = data
    /\ WarmingStarts(weightEpoch)

\* poll_current_epoch, and any page that asks for it.
PublishEpoch ==
    /\ \E data \in Answers : FetchEpochStats(data)
    /\ UNCHANGED <<hardwareChain, hardwareRows, hardwarePoll, jobs>>

\* 300 s pass without a fetch that succeeds.
DataAges ==
    /\ served.fresh
    /\ served' = [served EXCEPT !.fresh = FALSE]
    /\ UNCHANGED <<hardwareChain, hardwareRows, hardwarePoll, warming, jobs, hardwareFaults>>

-----------------------------------------------------------------------------
(***************************************************************************)
(* Who starts a round of jobs                                              *)
(***************************************************************************)

PollHardware ==
    /\ hardwarePoll.pc = "idle"
    /\ hardwarePoll' = [pc |-> "stats", epoch |-> weightEpoch]
    /\ UNCHANGED <<hardwareChain, hardwareRows, served, warming,
                   jobs, hardwareFaults>>

\* Without the new epoch's data in memory it calls get_current_epoch_stats,
\* which answers from memory while that is fresh, whatever epoch it is of,
\* and also when its requests fail.
PollStats ==
    LET StartWith(data) ==
            /\ jobs' = Started("poller", hardwarePoll.epoch, data.epoch, data.named)
            /\ hardwarePoll' = [hardwarePoll EXCEPT !.pc = "jobs"] IN
    /\ hardwarePoll.pc = "stats"
    /\ \/ /\ served.epoch = hardwarePoll.epoch \/ served.fresh
          /\ StartWith(served)
          /\ UNCHANGED <<served, warming, hardwareFaults>>
       \/ /\ served.epoch # hardwarePoll.epoch /\ ~ served.fresh
          /\ \E data \in Answers : FetchEpochStats(data) /\ StartWith(data)
       \/ /\ served.epoch # hardwarePoll.epoch /\ ~ served.fresh
          /\ HardwareFault
          /\ IF served.epoch # NoWeight THEN StartWith(served)
             ELSE /\ hardwarePoll' = Idle
                  /\ UNCHANGED jobs
          /\ UNCHANGED <<served, warming>>
    /\ UNCHANGED <<hardwareChain, hardwareRows>>

PollHardwareEnds ==
    /\ hardwarePoll.pc = "jobs" /\ JobsOver("poller")
    /\ hardwarePoll' = Idle
    /\ UNCHANGED <<hardwareChain, hardwareRows, served, warming,
                   jobs, hardwareFaults>>

\* warm_warm_keys comes first and stores nothing that is looked at here.
WarmKeysFirst ==
    /\ warming.pc = "keys"
    /\ warming' = [warming EXCEPT !.pc = "jobs"]
    /\ jobs' = Started("warming", warming.epoch, NoWeight, Unnamed)
    /\ UNCHANGED <<hardwareChain, hardwareRows, served, hardwarePoll, hardwareFaults>>

WarmingEnds ==
    /\ warming.pc = "jobs" /\ JobsOver("warming")
    /\ warming' = Idle
    /\ UNCHANGED <<hardwareChain, hardwareRows, served, hardwarePoll, jobs, hardwareFaults>>

\* get_participant_details: is_current compares with the epoch in memory, or
\* with the chain's when there is none.
OpenHardwarePage(h, e) ==
    /\ jobs["page"][h].pc = "none" /\ e <= weightEpoch
    /\ jobs' = [jobs EXCEPT !["page"][h] =
          [NoJob EXCEPT !.pc = "check", !.epoch = e,
              !.isCurrent = (e = IF served.epoch = NoWeight THEN weightEpoch
                                 ELSE served.epoch)]]
    /\ UNCHANGED <<hardwareChain, hardwareRows, served, hardwarePoll, warming, hardwareFaults>>

-----------------------------------------------------------------------------
(***************************************************************************)
(* One job: check the stored rows, ask the chain, replace the rows         *)
(***************************************************************************)

RowsOf(e, h) == {r \in hardwareRows : r.epoch = e /\ r.holder = h}

\* Mutant of Wanting: the poller is content with any row.
WantingNone(s, e, h) == RowsOf(e, h) = {}

\* The warming asks only where there is no row; the others also where a row
\* has no weight (has_empty_poc_weight).
Wanting(s, e, h) ==
    \/ RowsOf(e, h) = {}
    \/ s # "warming" /\ \E r \in RowsOf(e, h) : r.weight = NoWeight

CheckRows(s, h) ==
    LET j == jobs[s][h] IN
    /\ j.pc = "check"
    /\ jobs' = [jobs EXCEPT ![s][h] =
          IF ~ Wanting(s, j.epoch, h) THEN NoJob
          ELSE [j EXCEPT !.pc = IF s = "page" THEN "weigh" ELSE "fetch"]]
    /\ UNCHANGED <<hardwareChain, hardwareRows, served, hardwarePoll,
                   warming, hardwareFaults>>

\* The page reads the weights between its check and its request: of the epoch
\* it shows or, when that is the current one, of the chain's current group data.
\* With no node there, and in part also when they cannot all be read, it makes
\* do with those the participant it shows came with.
WeighNodes(s, h) ==
    LET j == jobs[s][h]
        group == IF j.isCurrent THEN weightEpoch ELSE j.epoch
        found == IF Weighed[group] = {} THEN j.epoch ELSE group
        GoOn(w, named) == jobs' = [jobs EXCEPT ![s][h] =
            WithMap([j EXCEPT !.pc = "fetch", !.isCurrent = FALSE], w, named)] IN
    /\ j.pc = "weigh"
    /\ \/ GoOn(found, Weighed[found]) /\ UNCHANGED hardwareFaults
       \/ /\ HardwareFault
          /\ \E w \in {group, j.epoch} : \E named \in SUBSET Weighed[w] : GoOn(w, named)
    /\ UNCHANGED <<hardwareChain, hardwareRows, served, hardwarePoll, warming>>

\* client.get_hardware_nodes answers a failed request with no node at all.
FetchNodes(s, h) ==
    LET Got(nodes) == jobs' = [jobs EXCEPT ![s][h].pc = "save", ![s][h].nodes = nodes] IN
    /\ jobs[s][h].pc = "fetch"
    /\ (Got(nodesOf[h]) /\ UNCHANGED hardwareFaults) \/ (Got({}) /\ HardwareFault)
    /\ UNCHANGED <<hardwareChain, hardwareRows, served, hardwarePoll, warming>>

\* save_hardware_nodes_batch: delete and insert in one transaction.  The
\* check is not repeated: what others stored since then is replaced too, and an
\* answer without nodes only deletes.
RowsSaved(j, h) ==
    (hardwareRows \ RowsOf(j.epoch, h)) \cup
        {[epoch |-> j.epoch, holder |-> h, node |-> n,
          weight |-> IF n \in j.named THEN j.weights ELSE NoWeight] : n \in j.nodes}

SaveNodes(s, h) ==
    LET j == jobs[s][h] IN
    /\ j.pc = "save"
    /\ hardwareRows' = RowsSaved(j, h)
    /\ jobs' = [jobs EXCEPT ![s][h] = NoJob]
    /\ UNCHANGED <<hardwareChain, served, hardwarePoll, warming, hardwareFaults>>

-----------------------------------------------------------------------------
HardwareRestart ==
    /\ HardwareFault
    /\ served' = NoneServed
    /\ hardwarePoll' = Idle
    /\ warming' = Idle
    /\ jobs' = [s \in Source |-> [h \in Holders |-> NoJob]]
    /\ UNCHANGED <<hardwareChain, hardwareRows>>

JobStep(s, h) ==
    CheckRows(s, h) \/ WeighNodes(s, h) \/ FetchNodes(s, h) \/ SaveNodes(s, h)
WarmingStep == WarmKeysFirst \/ WarmingEnds

HardwareNext ==
    \/ WeightEpochEnds
    \/ \E h \in Holders : NodesChange(h)
    \/ PublishEpoch
    \/ DataAges
    \/ PollHardware \/ PollStats \/ PollHardwareEnds
    \/ WarmingStep
    \/ \E h \in Holders, e \in WeightEpoch : OpenHardwarePage(h, e)
    \/ \E s \in Source, h \in Holders : JobStep(s, h)
    \/ HardwareRestart

HardwareSpec == HardwareInit /\ [][HardwareNext]_hardwareVars

\* Every await ends and the event loop runs every job.
HardwareStepFairness ==
    /\ WF_hardwareVars(PollStats \/ PollHardwareEnds)
    /\ WF_hardwareVars(WarmingStep)
    /\ \A s \in Source, h \in Holders : WF_hardwareVars(JobStep(s, h))

\* app.py polls for ever.
HardwareFairness ==
    /\ WF_hardwareVars(PublishEpoch)
    /\ WF_hardwareVars(PollHardware)
    /\ HardwareStepFairness

-----------------------------------------------------------------------------
(***************************************************************************)
(* Properties                                                              *)
(***************************************************************************)

\* A participant ends up with a row of the last epoch, and with a weight on each
\* node the epoch has a weight for, although the warming stores rows without,
\* a failed request deletes them all, and the weights that the poller finds in
\* memory may be incomplete.
WeightsArrive ==
    \A h \in Holders, e \in WeightEpoch :
        <>[](weightEpoch = e /\ served.epoch = e) =>
            <>[](/\ RowsOf(e, h) # {} \/ nodesOf[h] = {}
                 /\ \A r \in RowsOf(e, h) :
                        r.node \in Weighed[e] => r.weight # NoWeight)

\* planning/task-11.md:10: "Per-node weight data (poc_weight) now captured
\* from epoch participants API and stored per epoch per participant per node":
\* the weight of a row is the one its node had in that epoch.
WeightsOfTheirEpoch ==
    \A r \in hardwareRows : r.weight \in {NoWeight, r.epoch}

\* Three coroutines replace each other's rows, yet a node of a participant has
\* one row in an epoch, no row is of an epoch to come, and a weight is one that
\* an epoch the chain has reached gives to that very node.
HardwareRowsSound ==
    /\ \A r \in hardwareRows :
          /\ r.epoch <= weightEpoch /\ r.weight <= weightEpoch
          /\ r.weight # NoWeight => r.node \in Weighed[r.weight]
    /\ \A r, q \in hardwareRows :
          r.epoch = q.epoch /\ r.holder = q.holder /\ r.node = q.node => r = q

=============================================================================
