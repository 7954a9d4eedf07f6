---------------------------- MODULE ChainClient ----------------------------
(***************************************************************************)
(* backend/client.py: GonkaClient's requests over the node pool.           *)
(*                                                                         *)
(* Requests are coroutines of one event loop: between the answer of one    *)
(* node and the answer of the next, other requests, the background refresh *)
(* and the nodes themselves move.  A step is what runs between two awaits. *)
(***************************************************************************)
EXTENDS NodePool, Sequences

CONSTANTS
    Requests,            \* slots of concurrent callers
    Participants,        \* third-party nodes discover_urls may return
    ParticipantFallback, \* RPC_PARTICIPANT_FALLBACK
    FallbackPoolSize,    \* FALLBACK_POOL_SIZE
    FallbackAttempts,    \* FALLBACK_ATTEMPTS
    FallbackRefresh,     \* FALLBACK_REFRESH_SECONDS, in ticks
    ProbeInterval,       \* probe_interval, in ticks
    Outages,             \* bound: the nodes that may go down
    Pruners,             \* bound: the nodes that may lose history
    Laggards,            \* bound: the nodes that may start behind the chain
    Refresher            \* the refresh task's own request (discover_urls)

ASSUME ClientAssumption ==
    /\ Refresher \notin Requests
    /\ ParticipantFallback \in BOOLEAN
    /\ FallbackPoolSize \in Nat
    /\ FallbackAttempts \in Nat
    /\ FallbackRefresh \in Nat \ {0}
    /\ ProbeInterval \in Nat \ {0}
    /\ Outages \subseteq Node \cup Participants
    /\ Pruners \subseteq Node
    /\ Laggards \subseteq Node

VARIABLES
    chain,     \* the nodes themselves: history kept, tip reached
    up,        \* which nodes and participants answer at all
    req,       \* the coroutines inside _make_request or _fetch_block_rpc
    refresh,   \* _refresh_task, the probes it waits for, _last_probe_at
    fallback   \* _fallback_urls and the age of _fallback_refreshed_at

vars == <<pool, chain, up, req, refresh, fallback>>

Caller == Requests \cup {Refresher}
Listing == {s \in UNION {[1..k -> Participants] : k \in 0..FallbackPoolSize} :
               \A i, j \in DOMAIN s : s[i] = s[j] => i = j}

\* What a node really holds: blocks from lowest on, state from pruned on.
Truth == [tip : Height, lowest : Height, pruned : Height]

\* kind "chain" is _make_request, "block" is _fetch_block_rpc.  heard is a
\* history variable: how each configured node has answered this request.
Request ==
    [pc      : {"idle", "asking", "fallback", "served", "failed", "raised"},
     kind    : {"chain", "block"},
     height  : MaybeHeight,
     order   : [Node -> Node],
     next    : 1..(NumNodes + 1),
     down    : BOOLEAN,               \* only_node_failures
     urls    : Seq(Participants),     \* participants still to be asked
     heard   : [Node -> {"nothing", "failure", "unavailable", "app", "answer"}]]

IdleRequest ==
    [pc |-> "idle", kind |-> "chain", height |-> None,
     order |-> [n \in Node |-> n], next |-> 1, down |-> TRUE, urls |-> <<>>,
     heard |-> [n \in Node |-> "nothing"]]

TypeOK ==
    /\ PoolTypeOK
    /\ chain \in [Node -> Truth]
    /\ up \in SUBSET (Node \cup Participants)
    /\ req \in [Caller -> Request]
    /\ refresh \in [phase  : {"idle", "probing", "discovering"},
                    probes : SUBSET Node,
                    age    : 0..ProbeInterval]
    /\ fallback \in [urls : Seq(Participants), age : 0..FallbackRefresh]

Init ==
    /\ PoolInit
    /\ chain \in [Node -> {t \in Truth : t.lowest <= t.pruned /\ t.pruned <= t.tip}]
    /\ \A n \in Node \ Pruners : chain[n].pruned = 1
    /\ \A n \in Node \ Laggards : chain[n].tip = MaxHeight
    /\ up = Node \cup Participants
    /\ req = [r \in Caller |-> IdleRequest]
    /\ refresh = [phase |-> "idle", probes |-> {}, age |-> ProbeInterval]
    /\ fallback = [urls |-> <<>>, age |-> FallbackRefresh]

-----------------------------------------------------------------------------
(***************************************************************************)
(* The nodes and time.                                                     *)
(***************************************************************************)

GoDown(n) ==
    /\ n \in Outages \cap up
    /\ up' = up \ {n}
    /\ UNCHANGED <<pool, chain, req, refresh, fallback>>

ComeBack(n) ==
    /\ n \in (Node \cup Participants) \ up
    /\ up' = up \cup {n}
    /\ UNCHANGED <<pool, chain, req, refresh, fallback>>

Advance(n) ==
    /\ chain[n].tip < MaxHeight
    /\ chain' = [chain EXCEPT ![n].tip = @ + 1]
    /\ UNCHANGED <<pool, up, req, refresh, fallback>>

\* A node drops state first and blocks no later than the state they carry.
Prune(n) ==
    /\ n \in Pruners
    /\ \/ /\ chain[n].pruned < chain[n].tip
          /\ chain' = [chain EXCEPT ![n].pruned = @ + 1]
       \/ /\ chain[n].lowest < chain[n].pruned
          /\ chain' = [chain EXCEPT ![n].lowest = @ + 1]
    /\ UNCHANGED <<pool, up, req, refresh, fallback>>

\* PROBE_TIMEOUT_SECONDS (5) is far below probe_interval (30): a probe is
\* over before the next refresh may start.
Elapse ==
    /\ refresh.probes = {} \/ refresh.age + 1 < ProbeInterval
    /\ PoolElapse
    /\ refresh' = [refresh EXCEPT !.age = Smaller(@ + 1, ProbeInterval)]
    /\ fallback' = [fallback EXCEPT !.age = Smaller(@ + 1, FallbackRefresh)]
    /\ UNCHANGED <<chain, up, req>>

-----------------------------------------------------------------------------
(***************************************************************************)
(* A request.                                                              *)
(***************************************************************************)

\* _schedule_node_refresh: one refresh at a time, at most one per interval.
ScheduleNodeRefresh ==
    IF /\ NumNodes >= 2 \/ ParticipantFallback
       /\ refresh.phase = "idle"
       /\ refresh.age >= ProbeInterval
    THEN refresh' = [phase |-> "probing", probes |-> Node, age |-> 0]
    ELSE UNCHANGED refresh

Begin(r, kind, height) ==
    \E s \in IF kind = "chain" THEN Orders(pool, height, None)
                               ELSE Orders(pool, None, height) :
        req' = [req EXCEPT ![r] = [IdleRequest EXCEPT
                   !.pc = "asking", !.kind = kind, !.height = height, !.order = s]]

StartRequest(r, kind, height) ==
    /\ req[r].pc = "idle"
    /\ kind = "block" => height # None
    /\ ScheduleNodeRefresh
    /\ Begin(r, kind, height)
    /\ UNCHANGED <<pool, chain, up, fallback>>

Asked(r) == req[r].order[req[r].next]

Holds(n, kind, height) ==
    \/ height = None
    \/ /\ height <= chain[n].tip
       /\ height >= IF kind = "chain" THEN chain[n].pruned ELSE chain[n].lowest

\* The loop ran out of nodes: participants are asked if the request is a
\* _make_request, the fallback is on and every node was down.
AfterLastNode(q) ==
    LET urls == SubSeq(fallback.urls, 1, Smaller(FallbackAttempts, Len(fallback.urls)))
    IN IF q.kind = "chain" /\ ParticipantFallback /\ q.down /\ urls # <<>>
       THEN [q EXCEPT !.pc = "fallback", !.urls = urls]
       ELSE [q EXCEPT !.pc = "failed"]

\* Mutants of EndsRequest: missing history ends the request; nothing does.
AnyAnswerEndsRequest(q, outcome) == outcome # "failure"
NothingEndsRequest(q, outcome) == FALSE

\* "if not e.is_node_failure and not e.is_unavailable: break"
EndsRequest(q, outcome) == outcome = "app" /\ q.kind = "chain"

\* Mutant of OnlyNodeFailures: the last node alone decides.
LastNodeFailed(q, outcome) == outcome = "failure"

OnlyNodeFailures(q, outcome) == q.down /\ outcome = "failure"

\* The handler of NodeRequestError: note the outcome, go on or give up.
NextNode(r, outcome) ==
    LET n == Asked(r)
        q == [req[r] EXCEPT !.heard[n] = outcome,
                            !.next = @ + 1,
                            !.down = OnlyNodeFailures(req[r], outcome)]
    IN req' = [req EXCEPT ![r] =
                  IF EndsRequest(q, outcome) \/ q.next > NumNodes THEN AfterLastNode(q) ELSE q]

Asking(r) == req[r].pc = "asking"

AnswerServed(r) ==
    /\ Asking(r)
    /\ Asked(r) \in up
    /\ Holds(Asked(r), req[r].kind, req[r].height)
    /\ RecordSuccess(Asked(r))
    /\ req' = [req EXCEPT ![r].pc = "served", ![r].heard[Asked(r)] = "answer"]
    /\ UNCHANGED <<chain, up, refresh, fallback>>

AnswerAppError(r) ==
    /\ Asking(r)
    /\ Asked(r) \in up
    /\ Holds(Asked(r), req[r].kind, req[r].height)
    /\ NextNode(r, "app")
    /\ UNCHANGED <<pool, chain, up, refresh, fallback>>

\* "lowest height is", a state-pruned marker, or a future-height marker.
\* A block request passes no state_height, so it learns no state floor.
AnswerUnavailable(r) ==
    /\ Asking(r)
    /\ Asked(r) \in up
    /\ ~Holds(Asked(r), req[r].kind, req[r].height)
    /\ LET n      == Asked(r)
           future == req[r].height > chain[n].tip
       IN IF req[r].kind = "chain"
          THEN RecordDataUnavailable(n, None, ~future, req[r].height)
          ELSE RecordDataUnavailable(n, IF future THEN None ELSE chain[n].lowest, FALSE, None)
    /\ NextNode(r, "unavailable")
    /\ UNCHANGED <<chain, up, refresh, fallback>>

\* Mutant of AnswerFailure: the overflow is swallowed and the node asked again.
AnswerFailureRetried(r) ==
    /\ Asking(r)
    /\ Asked(r) \notin up
    /\ RecordFailure(Asked(r))
    /\ IF FailureRaises(pool[Asked(r)]) THEN UNCHANGED req ELSE NextNode(r, "failure")
    /\ UNCHANGED <<chain, up, refresh, fallback>>

\* The transport fails, a gateway answers, or the body is not JSON.  When
\* record_failure raises, the exception is no NodeRequestError and leaves
\* the loop.
AnswerFailure(r) ==
    /\ Asking(r)
    /\ Asked(r) \notin up
    /\ RecordFailure(Asked(r))
    /\ IF FailureRaises(pool[Asked(r)])
       THEN req' = [req EXCEPT ![r].pc = "raised", ![r].heard[Asked(r)] = "failure"]
       ELSE NextNode(r, "failure")
    /\ UNCHANGED <<chain, up, refresh, fallback>>

\* Participants are asked without touching the pool (track_health=False).
AnswerFallback(r) ==
    /\ req[r].pc = "fallback"
    /\ \/ /\ Head(req[r].urls) \in up
          /\ req' = [req EXCEPT ![r].pc = "served"]
       \/ req' = [req EXCEPT ![r] =
                    [@ EXCEPT !.urls = Tail(req[r].urls),
                              !.pc = IF Len(req[r].urls) > 1 THEN "fallback" ELSE "failed"]]
    /\ UNCHANGED <<pool, chain, up, refresh, fallback>>

Over(r) == req[r].pc \in {"served", "failed", "raised"}

Return(r) ==
    /\ r \in Requests
    /\ Over(r)
    /\ req' = [req EXCEPT ![r] = IdleRequest]
    /\ UNCHANGED <<pool, chain, up, refresh, fallback>>

\* get_proposals' retry: demote the preferred node for a while.
RotateUrl ==
    /\ \E s \in Orders(pool, None, None) : Demote(s[1])
    /\ UNCHANGED <<chain, up, req, refresh, fallback>>

-----------------------------------------------------------------------------
(***************************************************************************)
(* The background refresh: _refresh_nodes.                                 *)
(***************************************************************************)

\* A load-balanced endpoint may answer from a backend that kept more blocks.
ProbeAnswers(n) ==
    /\ n \in refresh.probes \cap up
    /\ \E l \in 1..MaxLatency, e \in 1..chain[n].lowest, c \in CatchingUp :
          RecordProbe(n, l, chain[n].tip, e, c)
    /\ refresh' = [refresh EXCEPT !.probes = @ \ {n}]
    /\ UNCHANGED <<chain, up, req, fallback>>

\* An exception of record_failure leaves gather at once, so the task ends
\* without refreshing the participants; the other probes still finish.
ProbeFails(n) ==
    /\ n \in refresh.probes \ up
    /\ RecordFailure(n)
    /\ refresh' = [refresh EXCEPT !.probes = @ \ {n},
                                  !.phase = IF FailureRaises(pool[n]) THEN "idle" ELSE @]
    /\ UNCHANGED <<chain, up, req, fallback>>

\* gather returned: discover the participants if the list is stale.
ProbesDone ==
    /\ refresh.phase = "probing" /\ refresh.probes = {}
    /\ IF ParticipantFallback /\ fallback.age >= FallbackRefresh
       THEN /\ refresh' = [refresh EXCEPT !.phase = "discovering"]
            /\ Begin(Refresher, "chain", None)
       ELSE /\ refresh' = [refresh EXCEPT !.phase = "idle"]
            /\ UNCHANGED req
    /\ UNCHANGED <<pool, chain, up, fallback>>

\* The healthy participants in latency order; none if discovery failed.
FallbackRefreshed ==
    /\ refresh.phase = "discovering"
    /\ Over(Refresher)
    /\ \E urls \in IF req[Refresher].pc = "served" THEN Listing ELSE {<<>>} :
          /\ \A i \in DOMAIN urls : urls[i] \in up
          /\ fallback' = [urls |-> urls, age |-> 0]
    /\ refresh' = [refresh EXCEPT !.phase = "idle"]
    /\ req' = [req EXCEPT ![Refresher] = IdleRequest]
    /\ UNCHANGED <<pool, chain, up>>

-----------------------------------------------------------------------------
Answer(r) ==
    \/ AnswerServed(r)
    \/ AnswerAppError(r)
    \/ AnswerUnavailable(r)
    \/ AnswerFailure(r)
    \/ AnswerFallback(r)

Environment ==
    \/ \E n \in Node \cup Participants : GoDown(n) \/ ComeBack(n)
    \/ \E n \in Node : Advance(n) \/ Prune(n)

Next ==
    \/ Environment
    \/ Elapse
    \/ \E r \in Requests, kind \in {"chain", "block"}, h \in MaybeHeight :
          StartRequest(r, kind, h)
    \/ \E r \in Caller : Answer(r) \/ Return(r)
    \/ RotateUrl
    \/ \E n \in Node : ProbeAnswers(n) \/ ProbeFails(n)
    \/ ProbesDone
    \/ FallbackRefreshed

Spec == Init /\ [][Next]_vars

\* Every await ends (httpx timeouts), the event loop runs what is ready, time
\* passes, and the pollers of app.py keep asking: one slot always restarts.
Fairness ==
    /\ WF_vars(Elapse)
    /\ \A r \in Caller : WF_vars(Answer(r)) /\ WF_vars(Return(r))
    /\ \A n \in Node : WF_vars(ProbeAnswers(n) \/ ProbeFails(n))
    /\ WF_vars(ProbesDone)
    /\ WF_vars(FallbackRefreshed)
    /\ \A r \in Requests : WF_vars(StartRequest(r, "chain", None))

FairSpec == Spec /\ Fairness

-----------------------------------------------------------------------------
(***************************************************************************)
(* Properties                                                              *)
(***************************************************************************)

\* What the pool believes of a node's history is true of the node: it never
\* routes a height away from a node that still holds it.  The floors learnt
\* from errors and probes lag behind the real ones and never overtake them.
HintsSound ==
    \A n \in Node :
        /\ pool[n].earliest <= chain[n].lowest
        /\ pool[n].stateFloor <= chain[n].pruned

\* A request gives up only when every configured node has answered it and
\* none could serve it, or (for _make_request) on one node's real answer,
\* whatever happened to the pool and to the nodes while it was waiting.
GivesUpOnlyWhenExhausted ==
    \A r \in Caller : req[r].pc = "failed" =>
        \/ \A n \in Node : req[r].heard[n] \in {"failure", "unavailable", "app"}
        \/ /\ req[r].kind = "chain"
           /\ \E n \in Node : req[r].heard[n] = "app"

\* "Participant nodes only serve when every configured node is down, never
\* to work around missing history": a participant is asked only after each
\* configured node failed this request, and never for a block.
ParticipantsOnlyWhenAllDown ==
    \A r \in Caller :
        \/ req[r].pc = "fallback"
        \/ req[r].pc = "served" /\ \A n \in Node : req[r].heard[n] # "answer"
        => /\ ParticipantFallback /\ req[r].kind = "chain"
           /\ \A n \in Node : req[r].heard[n] = "failure"

\* "A healthy node's real answer holds on every node, so asking the others
\* only adds load": after an application error a _make_request asks no one.
RealAnswerEndsRequest ==
    [][\A r \in Caller :
          /\ req[r].kind = "chain"
          /\ \E n \in Node : req[r].heard[n] \in {"app", "answer"}
          => req'[r].heard = req[r].heard \/ req'[r] = IdleRequest]_vars

\* node_pool.py, order(): "a stale hint can at worst cost an extra request
\* instead of an outage": no request ends in an error while a configured node
\* has not been asked, unless one gave a real answer.
NoOutageWhileANodeIsLeft ==
    \A r \in Caller : req[r].pc \in {"failed", "raised"} =>
        \/ \A n \in Node : req[r].heard[n] # "nothing"
        \/ \E n \in Node : req[r].heard[n] = "app"

\* Every request ends: no interleaving of the refresh, of other requests and
\* of node failures leaves a caller waiting forever.
RequestsEnd == \A r \in Caller : Asking(r) ~> Over(r)

\* A node that stays up is forgiven: its failures are eventually forgotten
\* for good, even when another node stays down past the counter's overflow.
NodesRecover ==
    \A n \in Node : <>[](n \in up) => <>[](pool[n].fails = 0)

=============================================================================
