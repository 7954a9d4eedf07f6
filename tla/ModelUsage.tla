----------------------------- MODULE ModelUsage -----------------------------
(***************************************************************************)
(* backend/service.py, sync_model_epoch_usage, with backend/model_usage.py *)
(* and the model_epoch_usage tables: the traffic of each epoch, folded     *)
(* from the buckets that gonka.gg serves.                                  *)
(*                                                                         *)
(* The upstream rewrites the ranges it is asked for, its counts still grow *)
(* for a while after the fact, and the service learns late where an epoch  *)
(* starts.  Time is counted in ticks; what is kept of a stored total is    *)
(* which time it counts, from what buckets, and as of when.                *)
(***************************************************************************)
EXTENDS Integers, FiniteSets

CONSTANTS
    Starts,           \* StartOf: the time at which each epoch starts
    HourSpan, DaySpan,
    HourlyDataStart,
    MaxHourlyWindow,  \* 7 days; the upstream's hourly preset has that length
    MonthPreset,      \* 30 days, the upstream's daily preset
    ExactRangeMinAge, \* 31 days
    TrailingRequestSpan,
    TrailingDailyRequestSpan,
    FinalizeMargin,
    LateArrival,      \* ticks until the upstream has counted everything
    Latency,          \* ticks an answer may take to be processed
    MaxBackfillRequests,
    MaxNow,           \* bound: time stops here
    MaxUsageFaults    \* bound: failed requests and restarts

UsageEpoch == DOMAIN Starts
LastUsageEpoch == Cardinality(UsageEpoch)

ASSUME UsageAssumption ==
    /\ UsageEpoch = 1..LastUsageEpoch /\ LastUsageEpoch \in Nat \ {0}
    /\ Starts \in [UsageEpoch -> Nat]
    /\ \A e \in UsageEpoch : e + 1 \in UsageEpoch => Starts[e] < Starts[e + 1]
    /\ HourSpan \in Nat \ {0} /\ DaySpan \in Nat \ {0}
    /\ {HourlyDataStart, MaxHourlyWindow, MonthPreset, ExactRangeMinAge,
        TrailingRequestSpan, TrailingDailyRequestSpan, FinalizeMargin,
        LateArrival, Latency, MaxBackfillRequests, MaxNow, MaxUsageFaults}
          \subseteq Nat
    /\ TrailingRequestSpan <= MaxHourlyWindow
    /\ MonthPreset < ExactRangeMinAge

\* What the margin is for: late traffic is counted before an epoch is final.
ASSUME MarginAssumption == LateArrival + Latency <= FinalizeMargin

VARIABLES
    now,          \* the clock, the upstream's too
    snapshots,    \* epoch_participants_snapshot: the epochs with a row
    startBlocks,  \* blocks: the epochs whose PoC start block is indexed
    usage,        \* model_epoch_usage and model_epoch_usage_status
    sync,         \* the coroutine sync_model_epoch_usage
    usageFaults

usageVars == <<now, snapshots, startBlocks, usage, sync, usageFaults>>
usageWorld == <<now, snapshots, startBlocks>>

Open == -1     \* the end of the span of the epoch that still runs
Span == [epoch : UsageEpoch, start : Nat, end : Nat \cup {Open}]
Window == [bucket : {"hour", "day"}, from : Int, to : Int, asOf : Nat]

\* from, to: the time the answer covered; end: where the epoch ended for it.
Total == [bucket : {"none", "hour", "day"}, final : BOOLEAN,
          from : Int, to : Int, end : Nat, asOf : Nat]

NoTotalYet == [bucket |-> "none", final |-> FALSE, from |-> 0, to |-> 0,
               end |-> 0, asOf |-> 0]

NoWindow == [bucket |-> "hour", from |-> 0, to |-> 0, asOf |-> 0]

\* asked: the spans of the request; covered: those its answer covers.
IdleSync == [pc |-> "idle", pass |-> "trailing", pending |-> {}, asked |-> {},
             answer |-> NoWindow, judged |-> 0, covered |-> {}, toSave |-> {},
             requests |-> 0]

UsageTypeOK ==
    /\ now \in 0..MaxNow
    /\ snapshots \subseteq UsageEpoch /\ startBlocks \subseteq UsageEpoch
    /\ usage \in [UsageEpoch -> Total]
    /\ sync \in [pc : {"idle", "ask", "judge", "save"},
                 pass : {"trailing", "backfill", "daily"},
                 pending : SUBSET Span, asked : SUBSET Span,
                 answer : Window, judged : 0..MaxNow, covered : SUBSET Span,
                 toSave : SUBSET Span, requests : 0..MaxBackfillRequests]
    /\ usageFaults \in 0..MaxUsageFaults

UsageInit ==
    /\ now = 0
    /\ snapshots = {} /\ startBlocks = {}
    /\ usage = [e \in UsageEpoch |-> NoTotalYet]
    /\ sync = IdleSync
    /\ usageFaults = 0

UsageFault ==
    /\ usageFaults < MaxUsageFaults
    /\ usageFaults' = usageFaults + 1

-----------------------------------------------------------------------------
(***************************************************************************)
(* Time, and what the rest of the service stores                           *)
(***************************************************************************)

\* A request with a time limit is answered, and its answer stored, in time.
Passes ==
    /\ now < MaxNow
    /\ sync.pc \in {"judge", "save"} => now < sync.answer.asOf + Latency
    /\ now' = now + 1
    /\ UNCHANGED <<snapshots, startBlocks, usage, sync, usageFaults>>

\* get_epoch_participants stores the snapshot of an epoch that has started.
SnapshotStored(e) ==
    /\ e \notin snapshots /\ Starts[e] <= now
    /\ snapshots' = snapshots \cup {e}
    /\ UNCHANGED <<now, startBlocks, usage, sync, usageFaults>>

StartIndexed(e) ==
    /\ e \notin startBlocks /\ Starts[e] <= now
    /\ startBlocks' = startBlocks \cup {e}
    /\ UNCHANGED <<now, snapshots, usage, sync, usageFaults>>

-----------------------------------------------------------------------------
(***************************************************************************)
(* model_usage.py                                                          *)
(***************************************************************************)

FloorTo(t, span) == t - (t % span)
CeilTo(t, span) == IF t % span = 0 THEN t ELSE FloorTo(t, span) + span
BucketSpan(bucket) == IF bucket = "hour" THEN HourSpan ELSE DaySpan
EndOr(span, t) == IF span.end = Open THEN t ELSE span.end

\* Mutant of Covers: a partial first bucket counts as a whole one.
CoversPartialBucket(w, span, t) ==
    /\ span.start >= FloorTo(w.from, BucketSpan(w.bucket))
    /\ EndOr(span, t) <= FloorTo(w.to, BucketSpan(w.bucket)) + BucketSpan(w.bucket)

\* Mutant of Covers: an epoch that starts with the window is left out.
CoversLater(w, span, t) ==
    /\ span.start > CeilTo(w.from, BucketSpan(w.bucket))
    /\ EndOr(span, t) <= FloorTo(w.to, BucketSpan(w.bucket)) + BucketSpan(w.bucket)

\* covered_epoch_ids: the whole epoch is inside the window.
Covers(w, span, t) ==
    /\ span.start >= CeilTo(w.from, BucketSpan(w.bucket))
    /\ EndOr(span, t) <= FloorTo(w.to, BucketSpan(w.bucket)) + BucketSpan(w.bucket)

\* Mutant of IsFinal: no margin, an epoch is final as soon as it ended.
IsFinalAtOnce(span, t) == span.end # Open /\ span.end <= t

IsFinal(span, t) == span.end # Open /\ span.end + FinalizeMargin <= t

\* aggregate_into_epochs and the row that is stored of it.
Folded(w, span, t) ==
    [bucket |-> w.bucket, final |-> w.bucket = "hour" /\ IsFinal(span, t),
     from |-> CeilTo(w.from, BucketSpan(w.bucket)),
     to |-> FloorTo(w.to, BucketSpan(w.bucket)) + BucketSpan(w.bucket),
     end |-> EndOr(span, t), asOf |-> w.asOf]

-----------------------------------------------------------------------------
(***************************************************************************)
(* sync_model_epoch_usage                                                  *)
(***************************************************************************)

\* _usage_epoch_spans: an epoch without a known start or end is left out; the
\* last snapshot is taken for the running epoch.
UsageSpans ==
    LET last(e) == \A s \in snapshots : s <= e IN
    {[epoch |-> e, start |-> Starts[e],
      end |-> IF last(e) THEN Open ELSE Starts[e + 1]] :
        e \in {x \in snapshots \cap startBlocks :
                  last(x) \/ x + 1 \in snapshots \cap startBlocks}}

\* get_timeseries as gonka.gg answers it: recent ranges become its presets.
Upstream(from, to) ==
    CASE from >= now - MaxHourlyWindow ->
           [bucket |-> "hour", from |-> now - MaxHourlyWindow, to |-> now, asOf |-> now]
      [] from < now - MaxHourlyWindow /\ from >= now - MonthPreset ->
           [bucket |-> "day", from |-> now - MonthPreset, to |-> now, asOf |-> now]
      [] OTHER -> [bucket |-> "hour", from |-> from, to |-> to, asOf |-> now]

Backfill(pending) == {s \in pending : s.start <= now - ExactRangeMinAge}

\* Mutant of Band: hourly totals that are not final yet are estimated again.
BandOfAll(pending) == {s \in pending : s.start > now - ExactRangeMinAge}

\* "Anything already computed from hourly buckets is more accurate".
Band(pending) ==
    {s \in pending : /\ s.start > now - ExactRangeMinAge
                     /\ usage[s.epoch].bucket # "hour"}

Asking(pass, pending, asked, requests) ==
    [IdleSync EXCEPT !.pc = "ask", !.pass = pass, !.pending = pending,
                     !.asked = asked, !.requests = requests]

\* The daily estimates, or the end of the run.
ThenDaily(pending) ==
    IF Band(pending) = {} THEN IdleSync
    ELSE Asking("daily", pending, Band(pending), 0)

\* The next exact window, while old epochs are left and requests allowed.
ThenBackfill(pending, requests) ==
    IF Backfill(pending) # {} /\ requests < MaxBackfillRequests
    THEN Asking("backfill", pending, pending, requests + 1)
    ELSE ThenDaily(pending)

StartSync ==
    LET pending == {s \in UsageSpans : /\ ~ usage[s.epoch].final
                                       /\ s.start >= HourlyDataStart} IN
    /\ sync.pc = "idle" /\ pending # {}
    /\ sync' = Asking("trailing", pending, pending, 0)
    /\ UNCHANGED <<usageWorld, usage, usageFaults>>

\* What follows a request that failed or had the wrong buckets.
GivenUp ==
    IF sync.pass = "backfill" THEN ThenDaily(sync.pending) ELSE IdleSync

\* The range is computed as the request is sent.
Oldest(spans) == CHOOSE s \in spans : \A x \in spans : s.start <= x.start

\* Mutant of Ask: "one oldest-first walk" in place of the trailing week.
AskOldestFirst ==
    LET oldest == IF sync.pass = "trailing" THEN sync.pending ELSE Backfill(sync.pending)
        from == IF sync.pass = "daily" THEN now - TrailingDailyRequestSpan
                ELSE FloorTo(Oldest(oldest).start, HourSpan)
        to == IF sync.pass = "daily" THEN now ELSE from + MaxHourlyWindow IN
    /\ sync.pc = "ask"
    /\ \/ /\ sync' = [sync EXCEPT !.pc = "judge", !.answer = Upstream(from, to)]
          /\ UNCHANGED usageFaults
       \/ UsageFault /\ sync' = GivenUp
    /\ UNCHANGED <<usageWorld, usage>>

Ask ==
    LET from == CASE sync.pass = "trailing" -> now - TrailingRequestSpan
                  [] sync.pass = "daily" -> now - TrailingDailyRequestSpan
                  [] OTHER -> FloorTo(Oldest(Backfill(sync.pending)).start, HourSpan)
        to == IF sync.pass = "backfill" THEN from + MaxHourlyWindow ELSE now IN
    /\ sync.pc = "ask"
    /\ \/ /\ sync' = [sync EXCEPT !.pc = "judge", !.answer = Upstream(from, to)]
          /\ UNCHANGED usageFaults
       \/ UsageFault /\ sync' = GivenUp
    /\ UNCHANGED <<usageWorld, usage>>

\* _sync_usage_window after the await: the clock is read again.
Judge ==
    LET wanted == IF sync.pass = "daily" THEN "day" ELSE "hour"
        covered == {s \in sync.asked : Covers(sync.answer, s, now)} IN
    /\ sync.pc = "judge"
    /\ sync' = IF sync.answer.bucket # wanted THEN GivenUp
               ELSE [sync EXCEPT !.pc = "save", !.judged = now,
                                 !.covered = covered, !.toSave = covered]
    /\ UNCHANGED <<usageWorld, usage, usageFaults>>

\* replace_model_epoch_usage: one transaction per epoch.
SaveUsage(s) ==
    /\ sync.pc = "save" /\ s \in sync.toSave
    /\ usage' = [usage EXCEPT ![s.epoch] = Folded(sync.answer, s, sync.judged)]
    /\ sync' = [sync EXCEPT !.toSave = @ \ {s}]
    /\ UNCHANGED <<usageWorld, usageFaults>>

\* A backfill window that covered nothing "stalled": no further one is asked.
PassDone ==
    LET left == sync.pending \ sync.covered IN
    /\ sync.pc = "save" /\ sync.toSave = {}
    /\ sync' = CASE sync.pass = "daily" -> IdleSync
                 [] sync.pass = "backfill" /\ sync.covered = {} -> ThenDaily(left)
                 [] OTHER -> ThenBackfill(left, sync.requests)
    /\ UNCHANGED <<usageWorld, usage, usageFaults>>

UsageRestart ==
    /\ UsageFault
    /\ sync' = IdleSync
    /\ UNCHANGED <<usageWorld, usage>>

SyncStep == Ask \/ Judge \/ (\E s \in sync.toSave : SaveUsage(s)) \/ PassDone

UsageNext ==
    \/ Passes
    \/ \E e \in UsageEpoch : SnapshotStored(e) \/ StartIndexed(e)
    \/ StartSync
    \/ SyncStep
    \/ UsageRestart

UsageSpec == UsageInit /\ [][UsageNext]_usageVars

\* app.py runs the sync for ever, and what it waits for ends.
SyncFairness ==
    /\ WF_usageVars(StartSync)
    /\ WF_usageVars(SyncStep)

\* Time passes; snapshots and blocks are polled for.
UsageFairness ==
    /\ WF_usageVars(Passes)
    /\ \A e \in UsageEpoch : WF_usageVars(SnapshotStored(e)) /\ WF_usageVars(StartIndexed(e))
    /\ SyncFairness

-----------------------------------------------------------------------------
(***************************************************************************)
(* Properties                                                              *)
(***************************************************************************)

\* A final total is never computed again, so it must be right: hourly, of the
\* epoch from its true start to its true end, and with late traffic counted.
FinalIsComplete ==
    \A e \in UsageEpoch : usage[e].final =>
        /\ e + 1 \in UsageEpoch
        /\ usage[e].bucket = "hour"
        /\ usage[e].from <= Starts[e]
        /\ usage[e].end = Starts[e + 1] /\ usage[e].to >= Starts[e + 1]
        /\ usage[e].asOf >= Starts[e + 1] + LateArrival

\* "Writing a partially covered epoch would overwrite a complete total with a
\* truncated one": a stored total reaches from the start of its epoch to
\* where the epoch had got to, whatever range the upstream chose to answer.
NeverTruncated ==
    \A e \in UsageEpoch : usage[e].bucket # "none" =>
        /\ usage[e].from <= Starts[e]
        /\ usage[e].to >= usage[e].end

\* A daily estimate never replaces hourly data, an hourly total is replaced
\* only by one that was asked for later, and a final one by none.
MoreExactOverTime ==
    [][\A e \in UsageEpoch :
          /\ usage[e].bucket = "hour" =>
                usage'[e].bucket = "hour" /\ usage'[e].asOf >= usage[e].asOf
          /\ usage[e].final => usage'[e] = usage[e]]_usageVars

\* "Keeps the running epoch current": at the end of time the running epoch's
\* total is as of then, although an epoch before it is not final and too old for
\* the hourly preset yet not old enough for an exact range: "a walk would stall
\* at the first epoch the upstream cannot serve hourly and starve" it.
RunningStaysFresh ==
    <>[](now = MaxNow /\ Starts[LastUsageEpoch] >= MaxNow - MaxHourlyWindow
            => usage[LastUsageEpoch].asOf = MaxNow)

\* The ended epochs that are old enough at the end of time to be served
\* exactly and short enough to fit the widest hourly window.
ServedExactly ==
    {e \in UsageEpoch \ {LastUsageEpoch} :
        /\ Starts[e] >= HourlyDataStart
        /\ Starts[e] <= MaxNow - ExactRangeMinAge
        /\ Starts[e + 1] <= FloorTo(Starts[e], HourSpan) + MaxHourlyWindow}

\* An epoch that ended becomes final, from the trailing week or, if the sync
\* was down that week, from an exact window a month later.
EndedBecomeFinal ==
    \A e \in ServedExactly : <>[](now = MaxNow => usage[e].final)

=============================================================================
