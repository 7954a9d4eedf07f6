-------------------------- MODULE ModelUsage_proofs --------------------------
(***************************************************************************)
(* For every history of epochs, every bucket length and every limit of the *)
(* upstream: what sync_model_epoch_usage stores is of whole epochs, what   *)
(* it marks final is complete, and no estimate replaces exact data.        *)
(***************************************************************************)
EXTENDS ModelUsage, WellFoundedInduction, TLAPS

\* A span that says where its epoch starts and, unless it runs, ends.
Truthful(s) ==
    /\ s.start = Starts[s.epoch]
    /\ s.end # Open => s.epoch + 1 \in UsageEpoch /\ s.end = Starts[s.epoch + 1]

\* While an answer is at hand it is at most Latency old, nothing stored is
\* newer, and what is about to be saved was covered when it was judged.
Answered ==
    /\ sync.answer.asOf <= now /\ now <= sync.answer.asOf + Latency
    /\ \A e \in UsageEpoch : usage[e].asOf <= sync.answer.asOf

Judged ==
    /\ sync.judged <= now
    /\ sync.answer.bucket = IF sync.pass = "daily" THEN "day" ELSE "hour"
    /\ \A s \in sync.toSave : Covers(sync.answer, s, sync.judged)

\* The inductive invariant.  There is one coroutine: what it asked for stays
\* as it was until it saves, but for what it saved itself.
UsageInv ==
    /\ UsageTypeOK
    /\ \A s \in sync.pending \cup sync.asked : Truthful(s)
    /\ sync.covered \subseteq sync.asked /\ sync.toSave \subseteq sync.asked
    /\ \A e \in UsageEpoch : usage[e].asOf <= now
    /\ sync.pc \in {"judge", "save"} => Answered
    /\ sync.pc = "save" => Judged
    /\ sync.pass = "daily" => \A s \in sync.asked : usage[s.epoch].bucket # "hour"
    /\ sync.pc = "ask" /\ sync.pass = "backfill" => Backfill(sync.pending) # {}
    /\ FinalIsComplete
    /\ NeverTruncated

SyncState ==
    [pc : {"idle", "ask", "judge", "save"},
     pass : {"trailing", "backfill", "daily"},
     pending : SUBSET Span, asked : SUBSET Span,
     answer : Window, judged : 0..MaxNow, covered : SUBSET Span,
     toSave : SUBSET Span, requests : 0..MaxBackfillRequests]

-----------------------------------------------------------------------------
\* A set of spans that is not empty has an oldest one.
LEMMA OldestIsMember ==
    ASSUME NEW spans \in SUBSET Span, spans # {}
    PROVE  Oldest(spans) \in spans
<1> DEFINE T == {s.start : s \in spans}
           R == OpToRel(<, Nat)
<1>1. T \subseteq Nat /\ T # {}
  BY DEF Span
<1>2. PICK x \in T : \A y \in T : ~ (<<y, x>> \in R)
  <2> HIDE DEF T, R
  <2>1. IsWellFoundedOn(R, Nat)
    BY NatLessThanWellFounded DEF R
  <2> QED BY <1>1, <2>1, WFMin
<1>3. PICK s \in spans : s.start = x
  OBVIOUS
<1>4. \A y \in T : ~ (y < x)
  BY <1>1, <1>2 DEF OpToRel
<1>5. \A t \in spans : s.start <= t.start
  BY <1>1, <1>3, <1>4 DEF Span
<1> QED BY <1>5 DEF Oldest

LEMMA Rounding ==
    ASSUME NEW t \in Int, NEW span \in Nat \ {0}
    PROVE  FloorTo(t, span) \in Int /\ CeilTo(t, span) \in Int
BY DEF FloorTo, CeilTo

LEMMA Limits ==
    /\ MaxNow \in Nat /\ Latency \in Nat /\ LateArrival \in Nat
    /\ FinalizeMargin \in Nat /\ MaxBackfillRequests \in Nat
    /\ MaxHourlyWindow \in Nat /\ MonthPreset \in Nat
    /\ TrailingRequestSpan \in Nat /\ TrailingDailyRequestSpan \in Nat
    /\ MaxUsageFaults \in Nat /\ HourSpan \in Nat \ {0} /\ DaySpan \in Nat \ {0}
BY UsageAssumption

LEMMA BucketSpans == ASSUME NEW bucket PROVE BucketSpan(bucket) \in Nat \ {0}
BY Limits DEF BucketSpan

\* The row of a covered span reaches from its start to its end, and is final
\* only if everything that arrived late is in it.
LEMMA FoldedOfCovered ==
    ASSUME NEW w \in Window, NEW s \in Span, NEW t \in 0..MaxNow,
           Truthful(s), Covers(w, s, t), t <= w.asOf + Latency
    PROVE  LET row == Folded(w, s, t) IN
           /\ row \in Total /\ row.bucket = w.bucket /\ row.asOf = w.asOf
           /\ row.bucket # "none"
           /\ row.from <= Starts[s.epoch] /\ row.to >= row.end
           /\ row.final => /\ s.epoch + 1 \in UsageEpoch
                           /\ row.bucket = "hour"
                           /\ row.end = Starts[s.epoch + 1]
                           /\ row.asOf >= Starts[s.epoch + 1] + LateArrival
<1> DEFINE row == Folded(w, s, t)
           b == BucketSpan(w.bucket)
<1>0. Latency \in Nat /\ LateArrival \in Nat /\ FinalizeMargin \in Nat /\ MaxNow \in Nat
  BY Limits
<1>a. LateArrival + Latency <= FinalizeMargin
  BY MarginAssumption
<1>b. t \in Nat /\ w.asOf \in Nat
  BY <1>0 DEF Window
<1>1. b \in Nat \ {0}
  BY BucketSpans
<1>2. /\ w.from \in Int /\ w.to \in Int /\ w.asOf \in Nat /\ w.bucket \in {"hour", "day"}
      /\ s.start \in Nat /\ s.end \in Nat \cup {Open} /\ s.epoch \in UsageEpoch
      /\ t \in Nat
  BY <1>0 DEF Window, Span
<1>3. FloorTo(w.to, b) \in Int /\ CeilTo(w.from, b) \in Int
  BY <1>1, <1>2, Rounding
<1>4. EndOr(s, t) \in Nat /\ (s.end # Open => EndOr(s, t) = s.end)
  BY <1>2 DEF EndOr, Open
<1>5. (w.bucket = "hour" /\ IsFinal(s, t)) \in BOOLEAN
  OBVIOUS
<1>6. row \in Total
  <2>1. row = [bucket |-> w.bucket, final |-> w.bucket = "hour" /\ IsFinal(s, t),
               from |-> CeilTo(w.from, b), to |-> FloorTo(w.to, b) + b,
               end |-> EndOr(s, t), asOf |-> w.asOf]
    BY DEF Folded
  <2> HIDE DEF b
  <2>2. row.bucket \in {"none", "hour", "day"}
    BY <1>2, <2>1
  <2>4. row.from \in Int /\ row.to \in Int
    BY <1>1, <1>3, <2>1
  <2>5. row.end \in Nat /\ row.asOf \in Nat
    BY <1>4, <1>b, <2>1
  <2> HIDE DEF row
  <2>3. row.final \in BOOLEAN
    BY <1>5, <2>1, Zenon
  <2> QED BY <2>1, <2>2, <2>3, <2>4, <2>5, Zenon DEF Total
<1>7. row.from <= Starts[s.epoch] /\ row.to >= row.end
  BY <1>3, <1>4 DEF Folded, Covers, Truthful
<1>9. s.end \in Nat /\ s.end + FinalizeMargin <= t => s.end + LateArrival <= w.asOf
  BY <1>0, <1>a, <1>b
<1>8. ASSUME row.final
      PROVE  /\ s.epoch + 1 \in UsageEpoch /\ row.bucket = "hour"
             /\ row.end = Starts[s.epoch + 1]
             /\ row.asOf >= Starts[s.epoch + 1] + LateArrival
  <2>1. w.bucket = "hour" /\ s.end # Open /\ s.end + FinalizeMargin <= t
    BY <1>8 DEF Folded, IsFinal
  <2>2. s.epoch + 1 \in UsageEpoch /\ s.end = Starts[s.epoch + 1]
    BY <2>1 DEF Truthful
  <2>3. s.end \in Nat
    BY <1>2, <2>1
  <2>4. s.end + LateArrival <= w.asOf
    BY <1>9, <2>1, <2>3
  <2> QED BY <1>4, <2>1, <2>2, <2>4 DEF Folded
<1> QED BY <1>2, <1>6, <1>7, <1>8 DEF Folded

LEMMA SpansAreTruthful ==
    ASSUME snapshots \subseteq UsageEpoch, startBlocks \subseteq UsageEpoch
    PROVE  UsageSpans \subseteq Span /\ \A s \in UsageSpans : Truthful(s)
<1> SUFFICES ASSUME NEW s \in UsageSpans PROVE s \in Span /\ Truthful(s)
  OBVIOUS
<1> DEFINE last(e) == \A x \in snapshots : x <= e
<1>1. PICK e \in snapshots \cap startBlocks :
         /\ last(e) \/ e + 1 \in snapshots \cap startBlocks
         /\ s = [epoch |-> e, start |-> Starts[e],
                 end |-> IF last(e) THEN Open ELSE Starts[e + 1]]
  BY DEF UsageSpans
<1>2. Starts[e] \in Nat /\ (e + 1 \in UsageEpoch => Starts[e + 1] \in Nat)
  BY UsageAssumption
<1>3. CASE last(e)
  BY <1>1, <1>2, <1>3 DEF Span, Truthful
<1>4. CASE ~ last(e)
  BY <1>1, <1>2, <1>4 DEF Span, Truthful, Open
<1> QED BY <1>3, <1>4

-----------------------------------------------------------------------------
\* What the coroutine does next keeps the invariant, whatever it comes from.
LEMMA NextPass ==
    ASSUME UsageInv, NEW left \in SUBSET sync.pending,
           usageFaults' \in 0..MaxUsageFaults,
           UNCHANGED <<now, snapshots, startBlocks, usage>>,
           \/ sync' = IdleSync
           \/ sync' = ThenDaily(left)
           \/ sync' = ThenBackfill(left, sync.requests)
    PROVE  UsageInv'
<1> USE Limits
<1>1. left \subseteq Span /\ \A s \in left : Truthful(s)
  BY DEF UsageInv, UsageTypeOK
<1>2. NoWindow \in Window /\ IdleSync \in SyncState
  BY DEF NoWindow, Window, IdleSync, SyncState
<1>3. CASE sync' = IdleSync
  BY <1>2, <1>3 DEF UsageInv, UsageTypeOK, IdleSync, SyncState, FinalIsComplete, NeverTruncated
<1>4. CASE sync' = Asking("daily", left, Band(left), 0)
  <2>1. Band(left) \subseteq left /\ \A s \in Band(left) : usage[s.epoch].bucket # "hour"
    BY DEF Band
  <2>2. /\ sync' \in SyncState
        /\ sync'.pc = "ask" /\ sync'.pass = "daily" /\ sync'.pending = left
        /\ sync'.asked = Band(left) /\ sync'.covered = {} /\ sync'.toSave = {}
    BY <1>1, <1>2, <1>4, <2>1 DEF Asking, IdleSync, SyncState
  <2> QED BY <1>1, <2>1, <2>2 DEF UsageInv, UsageTypeOK, SyncState, FinalIsComplete, NeverTruncated, Truthful
<1>5. CASE /\ sync' = Asking("backfill", left, left, sync.requests + 1)
           /\ Backfill(left) # {} /\ sync.requests < MaxBackfillRequests
  <2>1. sync.requests + 1 \in 0..MaxBackfillRequests
    BY <1>5 DEF UsageInv, UsageTypeOK
  <2>2. /\ sync' \in SyncState
        /\ sync'.pc = "ask" /\ sync'.pass = "backfill" /\ sync'.pending = left
        /\ sync'.asked = left /\ sync'.covered = {} /\ sync'.toSave = {}
    BY <1>1, <1>2, <1>5, <2>1 DEF Asking, IdleSync, SyncState
  <2>3. Backfill(left)' # {}
    BY <1>5 DEF Backfill
  <2> QED BY <1>1, <2>2, <2>3 DEF UsageInv, UsageTypeOK, SyncState, FinalIsComplete, NeverTruncated, Truthful, Backfill
<1> QED BY <1>3, <1>4, <1>5 DEF ThenDaily, ThenBackfill

LEMMA UsageInitInv == UsageInit => UsageInv
<1> SUFFICES ASSUME UsageInit PROVE UsageInv
  OBVIOUS
<1>1. NoWindow \in Window /\ NoTotalYet \in Total
  BY DEF NoWindow, Window, NoTotalYet, Total
<1> QED
  BY <1>1, Limits DEF UsageInit, UsageInv, UsageTypeOK, IdleSync, NoTotalYet,
      FinalIsComplete, NeverTruncated

LEMMA AnswerOfUpstream ==
    ASSUME now \in 0..MaxNow, NEW from \in Int, NEW to \in Int
    PROVE  Upstream(from, to) \in Window /\ Upstream(from, to).asOf = now
<1>1. now \in Nat /\ MaxHourlyWindow \in Nat /\ MonthPreset \in Nat
  BY Limits
<1>2. CASE from >= now - MaxHourlyWindow
  BY <1>1, <1>2 DEF Upstream, Window
<1>3. CASE from < now - MaxHourlyWindow /\ from >= now - MonthPreset
  BY <1>1, <1>3 DEF Upstream, Window
<1>4. CASE from < now - MaxHourlyWindow /\ from < now - MonthPreset
  BY <1>1, <1>4 DEF Upstream, Window
<1> QED BY <1>1, <1>2, <1>3, <1>4

LEMMA AskInv == ASSUME UsageInv, Ask PROVE UsageInv'
<1> DEFINE from == CASE sync.pass = "trailing" -> now - TrailingRequestSpan
                     [] sync.pass = "daily" -> now - TrailingDailyRequestSpan
                     [] OTHER -> FloorTo(Oldest(Backfill(sync.pending)).start, HourSpan)
           to == IF sync.pass = "backfill" THEN from + MaxHourlyWindow ELSE now
           answer == Upstream(from, to)
<1>1. CASE sync' = [sync EXCEPT !.pc = "judge", !.answer = answer] /\ UNCHANGED usageFaults
  <2>1. from \in Int /\ to \in Int
    <3>1. sync.pass = "backfill" => Oldest(Backfill(sync.pending)).start \in Int
      <4>1. Backfill(sync.pending) \subseteq Span
        BY DEF UsageInv, UsageTypeOK, Backfill
      <4> QED BY <4>1, OldestIsMember DEF Ask, UsageInv, UsageTypeOK, Span
    <3>2. sync.pass = "backfill" =>
            FloorTo(Oldest(Backfill(sync.pending)).start, HourSpan) \in Int
      BY <3>1, Rounding, Limits
    <3>3. sync.pass \in {"trailing", "backfill", "daily"} /\ now \in Int
      BY Limits DEF UsageInv, UsageTypeOK
    <3>4. CASE sync.pass = "trailing"
      BY <3>3, <3>4, Limits
    <3>5. CASE sync.pass = "daily"
      BY <3>3, <3>5, Limits
    <3>6. CASE sync.pass = "backfill"
      BY <3>2, <3>6, Limits
    <3> QED BY <3>3, <3>4, <3>5, <3>6
  <2> HIDE DEF from, to
  <2>2. answer \in Window /\ answer.asOf = now
    BY <2>1, AnswerOfUpstream DEF UsageInv, UsageTypeOK
  <2> HIDE DEF answer
  <2>3. /\ sync' \in SyncState /\ sync'.pc = "judge" /\ sync'.answer = answer
        /\ sync'.pending = sync.pending /\ sync'.asked = sync.asked /\ sync'.pass = sync.pass
        /\ sync'.covered = sync.covered /\ sync'.toSave = sync.toSave
    BY <1>1, <2>2 DEF UsageInv, UsageTypeOK, SyncState
  <2>4. UNCHANGED <<now, snapshots, startBlocks, usage, usageFaults>>
    BY <1>1 DEF Ask, usageWorld
  <2>5. now \in Nat /\ Latency \in Nat /\ Answered'
    BY <2>2, <2>3, <2>4, Limits DEF UsageInv, UsageTypeOK, Answered
  <2> QED
    BY <2>3, <2>4, <2>5 DEF UsageInv, UsageTypeOK, SyncState, FinalIsComplete, NeverTruncated, Truthful
<1>2. CASE UsageFault /\ sync' = GivenUp
  <2>1. usageFaults' \in 0..MaxUsageFaults
    BY <1>2, Limits DEF UsageFault, UsageInv, UsageTypeOK
  <2>2. UNCHANGED <<now, snapshots, startBlocks, usage>>
    BY <1>2 DEF Ask, usageWorld
  <2>3. sync' = IdleSync \/ sync' = ThenDaily(sync.pending)
    BY <1>2 DEF GivenUp
  <2> QED BY <2>1, <2>2, <2>3, NextPass
<1> QED BY <1>1, <1>2 DEF Ask

LEMMA StartInv == ASSUME UsageInv, StartSync PROVE UsageInv'
<1> DEFINE pending == {s \in UsageSpans : ~ usage[s.epoch].final /\ s.start >= HourlyDataStart}
<1>1. pending \subseteq Span /\ \A s \in pending : Truthful(s)
  BY SpansAreTruthful DEF UsageInv, UsageTypeOK
<1>2. sync' = Asking("trailing", pending, pending, 0) /\ UNCHANGED <<now, snapshots, startBlocks, usage, usageFaults>>
  BY DEF StartSync, usageWorld
<1> HIDE DEF pending
<1>0. IdleSync \in SyncState /\ 0 \in 0..MaxBackfillRequests
  <2>1. NoWindow \in Window
    BY DEF NoWindow, Window
  <2> QED BY <2>1, Limits DEF IdleSync, SyncState
<1>3. /\ sync' \in SyncState
      /\ sync'.pc = "ask" /\ sync'.pass = "trailing" /\ sync'.pending = pending
      /\ sync'.asked = pending /\ sync'.covered = {} /\ sync'.toSave = {}
  BY <1>0, <1>1, <1>2 DEF Asking, IdleSync, SyncState
<1> QED
  BY <1>1, <1>2, <1>3 DEF UsageInv, UsageTypeOK, SyncState, FinalIsComplete, NeverTruncated, Truthful

LEMMA JudgeInv == ASSUME UsageInv, Judge PROVE UsageInv'
<1> DEFINE wanted == IF sync.pass = "daily" THEN "day" ELSE "hour"
           covered == {s \in sync.asked : Covers(sync.answer, s, now)}
<1>1. UNCHANGED <<now, snapshots, startBlocks, usage, usageFaults>>
  BY DEF Judge, usageWorld
<1>2. CASE sync.answer.bucket # wanted /\ sync' = GivenUp
  <2>1. sync' = IdleSync \/ sync' = ThenDaily(sync.pending)
    BY <1>2 DEF GivenUp
  <2> QED BY <1>1, <2>1, NextPass DEF UsageInv, UsageTypeOK
<1>3. CASE /\ sync.answer.bucket = wanted
           /\ sync' = [sync EXCEPT !.pc = "save", !.judged = now,
                                   !.covered = covered, !.toSave = covered]
  <2>1. covered \subseteq sync.asked /\ \A s \in covered : Covers(sync.answer, s, now)
    OBVIOUS
  <2> HIDE DEF covered
  <2>2. /\ sync' \in SyncState /\ sync'.pc = "save" /\ sync'.answer = sync.answer
        /\ sync'.pending = sync.pending /\ sync'.asked = sync.asked /\ sync'.pass = sync.pass
        /\ sync'.covered = covered /\ sync'.toSave = covered /\ sync'.judged = now
    BY <1>3, <2>1 DEF UsageInv, UsageTypeOK, SyncState
  <2>3. Answered' /\ now \in Nat
    BY <1>1, <2>2, Limits DEF Judge, UsageInv, UsageTypeOK, Answered
  <2>4. \A s \in sync'.toSave : Covers(sync'.answer, s, sync'.judged)
    BY <2>1, <2>2
  <2>5. Judged'
    BY <1>1, <1>3, <2>2, <2>3, <2>4 DEF Judged
  <2> QED
    BY <1>1, <2>1, <2>2, <2>3, <2>5 DEF UsageInv, UsageTypeOK, SyncState, FinalIsComplete, NeverTruncated, Truthful
<1> QED BY <1>2, <1>3 DEF Judge

LEMMA PassDoneInv == ASSUME UsageInv, PassDone PROVE UsageInv'
<1>1. UNCHANGED <<now, snapshots, startBlocks, usage, usageFaults>>
  BY DEF PassDone, usageWorld
<1>2. \/ sync' = IdleSync
      \/ sync' = ThenDaily(sync.pending \ sync.covered)
      \/ sync' = ThenBackfill(sync.pending \ sync.covered, sync.requests)
  BY DEF PassDone
<1>3. sync.pending \ sync.covered \in SUBSET sync.pending
  OBVIOUS
<1> QED BY <1>1, <1>2, <1>3, NextPass DEF UsageInv, UsageTypeOK

\* What a step may do to the stored totals.
Exact ==
    \A e \in UsageEpoch : usage[e].bucket = "hour" =>
        usage'[e].bucket = "hour" /\ usage'[e].asOf >= usage[e].asOf

LEMMA SaveInv ==
    ASSUME UsageInv, NEW s \in sync.toSave, SaveUsage(s) PROVE UsageInv' /\ Exact
<1> DEFINE row == Folded(sync.answer, s, sync.judged)
<1>1. /\ s \in Span /\ s \in sync.asked /\ Truthful(s) /\ sync.judged \in 0..MaxNow
      /\ sync.answer \in Window /\ Answered /\ Judged /\ s.epoch \in UsageEpoch
  BY DEF SaveUsage, UsageInv, UsageTypeOK, Span
<1>2. sync.judged <= sync.answer.asOf + Latency /\ sync.answer.asOf <= now
  <2>1. /\ sync.judged \in Nat /\ now \in Nat /\ Latency \in Nat
        /\ sync.answer.asOf \in Nat
    BY <1>1, Limits DEF UsageInv, UsageTypeOK, Window
  <2> QED BY <1>1, <2>1 DEF Answered, Judged
<1>3. Covers(sync.answer, s, sync.judged)
  BY <1>1 DEF Judged
<1>4. /\ row \in Total /\ row.bucket = sync.answer.bucket /\ row.asOf = sync.answer.asOf
      /\ row.bucket # "none"
      /\ row.from <= Starts[s.epoch] /\ row.to >= row.end
      /\ row.final => /\ s.epoch + 1 \in UsageEpoch
                      /\ row.bucket = "hour"
                      /\ row.end = Starts[s.epoch + 1]
                      /\ row.asOf >= Starts[s.epoch + 1] + LateArrival
  BY <1>1, <1>2, <1>3, FoldedOfCovered
<1> HIDE DEF row
<1>5. usage' = [usage EXCEPT ![s.epoch] = row]
  BY DEF SaveUsage, row
<1>6. /\ usage' \in [UsageEpoch -> Total] /\ usage'[s.epoch] = row
      /\ \A e \in UsageEpoch \ {s.epoch} : usage'[e] = usage[e]
  BY <1>1, <1>4, <1>5 DEF UsageInv, UsageTypeOK
<1>7. /\ sync' \in SyncState /\ sync'.pc = "save" /\ sync'.answer = sync.answer
      /\ sync'.pending = sync.pending /\ sync'.asked = sync.asked /\ sync'.pass = sync.pass
      /\ sync'.covered = sync.covered /\ sync'.toSave = sync.toSave \ {s}
      /\ sync'.judged = sync.judged
  BY DEF SaveUsage, UsageInv, UsageTypeOK, SyncState
<1>8. UNCHANGED <<now, snapshots, startBlocks, usageFaults>>
  BY DEF SaveUsage, usageWorld
<1>9. \A e \in UsageEpoch : usage[e].asOf \in Nat /\ sync.answer.asOf \in Nat /\ now \in Nat
  BY <1>1, Limits DEF UsageInv, UsageTypeOK, Total, Window
<1>10. UsageTypeOK'
  BY <1>6, <1>7, <1>8 DEF UsageInv, UsageTypeOK, SyncState
<1>11. \A e \in UsageEpoch : usage'[e].asOf <= now' /\ usage'[e].asOf <= sync'.answer.asOf
  BY <1>1, <1>2, <1>4, <1>6, <1>7, <1>8, <1>9 DEF UsageInv, Answered
<1>12. Answered' /\ Judged'
  <2>1. \A x \in sync'.toSave : Covers(sync'.answer, x, sync'.judged)
    BY <1>1, <1>7 DEF Judged
  <2> QED BY <1>1, <1>7, <1>8, <1>11, <2>1 DEF Answered, Judged
<1>13. sync'.pass = "daily" => \A x \in sync'.asked : usage'[x.epoch].bucket # "hour"
  <2>1. sync.pass = "daily" => row.bucket # "hour"
    BY <1>1, <1>4 DEF Judged
  <2>2. \A x \in sync.asked : x.epoch \in UsageEpoch
    BY DEF UsageInv, UsageTypeOK, Span
  <2> QED BY <1>6, <1>7, <2>1, <2>2 DEF UsageInv
<1>14. FinalIsComplete'
  BY <1>4, <1>6 DEF UsageInv, FinalIsComplete
<1>15. NeverTruncated'
  BY <1>4, <1>6 DEF UsageInv, NeverTruncated
<1>16. Exact
  <2> SUFFICES ASSUME NEW e \in UsageEpoch, usage[e].bucket = "hour"
               PROVE  usage'[e].bucket = "hour" /\ usage'[e].asOf >= usage[e].asOf
    BY DEF Exact
  <2>1. CASE e # s.epoch
    BY <1>6, <1>9, <2>1
  <2>2. CASE e = s.epoch
    <3>1. sync.pass # "daily"
      BY <1>1, <2>2 DEF UsageInv
    <3>2. row.bucket = "hour"
      BY <1>1, <1>4, <3>1 DEF Judged
    <3> QED BY <1>1, <1>4, <1>6, <1>9, <2>2, <3>2 DEF Answered
  <2> QED BY <2>1, <2>2
<1>17. UsageInv'
  <2>1. \A x \in sync'.pending \cup sync'.asked : Truthful(x)'
    BY <1>7 DEF UsageInv, Truthful
  <2>2. sync'.covered \subseteq sync'.asked /\ sync'.toSave \subseteq sync'.asked
    BY <1>7 DEF UsageInv
  <2> QED
    BY <1>7, <1>10, <1>11, <1>12, <1>13, <1>14, <1>15, <2>1, <2>2 DEF UsageInv
<1> QED BY <1>16, <1>17

LEMMA WorldInv ==
    ASSUME UsageInv, Passes \/ \E e \in UsageEpoch : SnapshotStored(e) \/ StartIndexed(e)
    PROVE  UsageInv'
<1>1. UNCHANGED <<usage, sync, usageFaults>>
  BY DEF Passes, SnapshotStored, StartIndexed
<1>2. snapshots' \subseteq UsageEpoch /\ startBlocks' \subseteq UsageEpoch
  BY DEF Passes, SnapshotStored, StartIndexed, UsageInv, UsageTypeOK
<1>3. /\ now' \in 0..MaxNow /\ now \in Nat /\ now <= now' /\ now' \in Nat
      /\ sync.pc \in {"judge", "save"} =>
            now' <= sync.answer.asOf + Latency \/ now' = now
  <2>1. now \in Nat /\ sync.answer.asOf \in Nat /\ Latency \in Nat
    BY Limits DEF UsageInv, UsageTypeOK, Window
  <2>2. CASE Passes
    BY <2>1, <2>2, Limits DEF Passes, UsageInv, UsageTypeOK
  <2>3. CASE UNCHANGED now
    BY <2>1, <2>3 DEF UsageInv, UsageTypeOK
  <2> QED BY <2>2, <2>3 DEF SnapshotStored, StartIndexed
<1>4. /\ \A e \in UsageEpoch : usage[e].asOf \in Nat
      /\ sync.answer.asOf \in Nat /\ sync.judged \in Nat
  BY Limits DEF UsageInv, UsageTypeOK, Total, Window
<1>5. UsageTypeOK'
  BY <1>1, <1>2, <1>3 DEF UsageInv, UsageTypeOK
<1>6. sync'.pc \in {"judge", "save"} => Answered'
  BY <1>1, <1>3, <1>4 DEF UsageInv, Answered
<1>7. sync'.pc = "save" => Judged'
  BY <1>1, <1>3, <1>4 DEF UsageInv, Judged
<1>8. \A e \in UsageEpoch : usage'[e].asOf <= now'
  BY <1>1, <1>3, <1>4 DEF UsageInv
<1>9. sync'.pc = "ask" /\ sync'.pass = "backfill" => Backfill(sync.pending)' # {}
  <2>1. Backfill(sync.pending) \subseteq Backfill(sync.pending)'
    <3>1. \A s \in sync.pending : s.start \in Nat
      BY DEF UsageInv, UsageTypeOK, Span
    <3>2. ExactRangeMinAge \in Nat
      BY UsageAssumption
    <3> QED BY <1>1, <1>3, <3>1, <3>2 DEF Backfill
  <2> QED BY <1>1, <2>1 DEF UsageInv
<1>10. FinalIsComplete' /\ NeverTruncated'
  BY <1>1 DEF UsageInv, FinalIsComplete, NeverTruncated
<1> QED BY <1>1, <1>5, <1>6, <1>7, <1>8, <1>9, <1>10 DEF UsageInv, Truthful

LEMMA UsageStepInv == ASSUME UsageInv, [UsageNext]_usageVars PROVE UsageInv' /\ Exact
<1>0. \A e \in UsageEpoch : usage[e].asOf \in Nat
  BY DEF UsageInv, UsageTypeOK, Total
<1>a. ASSUME UNCHANGED usage PROVE Exact
  BY <1>0, <1>a DEF Exact
<1>1. CASE Passes \/ \E e \in UsageEpoch : SnapshotStored(e) \/ StartIndexed(e)
  BY <1>1, <1>a, WorldInv DEF Passes, SnapshotStored, StartIndexed
<1>2. CASE StartSync
  BY <1>2, <1>a, StartInv DEF StartSync
<1>3. CASE Ask
  BY <1>3, <1>a, AskInv DEF Ask
<1>4. CASE Judge
  BY <1>4, <1>a, JudgeInv DEF Judge
<1>5. CASE \E s \in sync.toSave : SaveUsage(s)
  BY <1>5, SaveInv
<1>6. CASE PassDone
  BY <1>6, <1>a, PassDoneInv DEF PassDone
<1>7. CASE UsageRestart
  <2>1. usageFaults' \in 0..MaxUsageFaults
    BY <1>7, Limits DEF UsageRestart, UsageFault, UsageInv, UsageTypeOK
  <2>2. UNCHANGED <<now, snapshots, startBlocks, usage>> /\ sync' = IdleSync
    BY <1>7 DEF UsageRestart, usageWorld
  <2>3. {} \in SUBSET sync.pending
    OBVIOUS
  <2>4. UsageInv'
    BY <2>1, <2>2, <2>3, NextPass
  <2> QED BY <1>a, <2>2, <2>4
<1>8. CASE UNCHANGED usageVars
  <2>1. UNCHANGED <<now, snapshots, startBlocks, usage, sync, usageFaults>>
    BY <1>8 DEF usageVars
  <2>2. UsageInv'
    BY <2>1 DEF UsageInv, UsageTypeOK, Truthful, Answered, Judged, Backfill,
        FinalIsComplete, NeverTruncated
  <2> QED BY <1>a, <2>1, <2>2
<1> QED BY <1>1, <1>2, <1>3, <1>4, <1>5, <1>6, <1>7, <1>8 DEF UsageNext, SyncStep

-----------------------------------------------------------------------------
\* Why a final total stays: it was not pending when the run started, no epoch is
\* pending twice, and one that becomes final is not asked for again in the run.
FinalApart ==
    /\ sync.asked \subseteq sync.pending /\ sync.toSave \subseteq sync.covered
    /\ \A s, t \in sync.pending : s.epoch = t.epoch => s = t
    /\ \A s \in sync.pending : usage[s.epoch].final =>
          sync.pc = "save" /\ s \in sync.covered \ sync.toSave

FinalStays == \A e \in UsageEpoch : usage[e].final => usage'[e] = usage[e]

LEMMA NextPassApart ==
    ASSUME FinalApart, UNCHANGED usage, NEW left \in SUBSET sync.pending,
           \A s \in left : ~ usage[s.epoch].final,
           \/ sync' = IdleSync
           \/ sync' = ThenDaily(left)
           \/ sync' = ThenBackfill(left, sync.requests)
    PROVE  FinalApart'
<1>1. \/ sync' = IdleSync
      \/ \E pass, asked, n : asked \subseteq left /\ sync' = Asking(pass, left, asked, n)
  BY DEF ThenDaily, ThenBackfill, Band
<1>2. /\ sync'.pending \subseteq left /\ sync'.asked \subseteq sync'.pending
      /\ sync'.toSave = {}
  <2>1. CASE sync' = IdleSync
    BY <2>1 DEF IdleSync
  <2>2. ASSUME NEW pass, NEW asked, NEW n, asked \subseteq left,
               sync' = Asking(pass, left, asked, n)
        PROVE  /\ sync'.pending = left /\ sync'.asked = asked /\ sync'.toSave = {}
    BY <2>2 DEF Asking, IdleSync
  <2> QED BY <1>1, <2>1, <2>2
<1> QED BY <1>2 DEF FinalApart

LEMMA SaveApart ==
    ASSUME UsageInv, FinalApart, NEW s \in sync.toSave, SaveUsage(s)
    PROVE  FinalApart' /\ FinalStays
<1>1. /\ s \in sync.covered /\ s \in sync.pending /\ s.epoch \in UsageEpoch
      /\ ~ usage[s.epoch].final
  BY DEF FinalApart, UsageInv, UsageTypeOK, Span
<1>2. /\ \A e \in UsageEpoch \ {s.epoch} : usage'[e] = usage[e]
      /\ sync'.pc = "save" /\ sync'.pending = sync.pending /\ sync'.asked = sync.asked
      /\ sync'.covered = sync.covered /\ sync'.toSave = sync.toSave \ {s}
  BY <1>1 DEF SaveUsage, UsageInv, UsageTypeOK
<1>3. \A t \in sync.pending : t.epoch \in UsageEpoch
  BY DEF UsageInv, UsageTypeOK, Span
<1>4. ASSUME NEW t \in sync.pending, usage'[t.epoch].final
      PROVE  t \in sync.covered \ sync'.toSave
  <2>1. CASE t.epoch = s.epoch
    BY <1>1, <1>2, <2>1 DEF FinalApart
  <2>2. CASE t.epoch # s.epoch
    BY <1>2, <1>3, <1>4, <2>2 DEF FinalApart
  <2> QED BY <2>1, <2>2
<1>5. FinalApart'
  BY <1>2, <1>4 DEF FinalApart
<1>6. FinalStays
  BY <1>1, <1>2 DEF FinalStays
<1> QED BY <1>5, <1>6

LEMMA FinalStep ==
    ASSUME UsageInv, FinalApart, [UsageNext]_usageVars PROVE FinalApart' /\ FinalStays
<1>a. ASSUME UNCHANGED usage PROVE FinalStays
  BY <1>a DEF FinalStays
<1>1. CASE UNCHANGED <<usage, sync>>
  BY <1>1, <1>a DEF FinalApart
<1>2. CASE StartSync
  <2> DEFINE pending == {s \in UsageSpans : ~ usage[s.epoch].final /\ s.start >= HourlyDataStart}
  <2>1. sync' = Asking("trailing", pending, pending, 0) /\ UNCHANGED usage
    BY <1>2 DEF StartSync
  <2>2. \A s, t \in pending : s.epoch = t.epoch => s = t
    BY DEF UsageSpans
  <2>3. \A s \in pending : ~ usage[s.epoch].final
    OBVIOUS
  <2> HIDE DEF pending
  <2>4. /\ sync'.pending = pending /\ sync'.asked = pending
        /\ sync'.covered = {} /\ sync'.toSave = {}
    BY <2>1 DEF Asking, IdleSync
  <2>5. FinalApart'
    BY <2>1, <2>2, <2>3, <2>4 DEF FinalApart
  <2> QED BY <1>a, <2>1, <2>5
<1>3. CASE Ask \/ Judge
  <2>1. UNCHANGED usage /\ sync.pc # "save"
    BY <1>3 DEF Ask, Judge
  <2>2. \A s \in sync.pending : ~ usage[s.epoch].final
    BY <2>1 DEF FinalApart
  <2>3. CASE sync' = GivenUp
    <3>1. sync' = IdleSync \/ sync' = ThenDaily(sync.pending)
      BY <2>3 DEF GivenUp
    <3>2. sync.pending \in SUBSET sync.pending
      OBVIOUS
    <3> QED BY <1>a, <2>1, <2>2, <3>1, <3>2, NextPassApart
  <2>4. CASE /\ sync'.pending = sync.pending /\ sync'.asked = sync.asked
             /\ sync'.toSave \subseteq sync'.covered
    <3>1. \A s \in sync'.pending : ~ usage'[s.epoch].final
      BY <2>1, <2>2, <2>4
    <3> QED BY <1>a, <2>1, <2>4, <3>1 DEF FinalApart
  <2>5. \/ sync' = GivenUp
        \/ /\ sync'.pending = sync.pending /\ sync'.asked = sync.asked
           /\ sync'.toSave \subseteq sync'.covered
    BY <1>3 DEF Ask, Judge, FinalApart, UsageInv, UsageTypeOK
  <2> QED BY <2>3, <2>4, <2>5
<1>4. CASE \E s \in sync.toSave : SaveUsage(s)
  BY <1>4, SaveApart
<1>5. CASE PassDone
  <2>1. /\ UNCHANGED usage
        /\ \/ sync' = IdleSync
           \/ sync' = ThenDaily(sync.pending \ sync.covered)
           \/ sync' = ThenBackfill(sync.pending \ sync.covered, sync.requests)
    BY <1>5 DEF PassDone
  <2>2. \A s \in sync.pending \ sync.covered : ~ usage[s.epoch].final
    BY DEF FinalApart
  <2>3. FinalApart'
    BY <2>1, <2>2, NextPassApart
  <2> QED BY <1>a, <2>1, <2>3
<1>6. CASE UsageRestart
  <2>1. UNCHANGED usage /\ sync' = IdleSync
    BY <1>6 DEF UsageRestart
  <2>2. FinalApart'
    <3>1. {} \in SUBSET sync.pending
      OBVIOUS
    <3> QED BY <2>1, <3>1, NextPassApart
  <2> QED BY <1>a, <2>1, <2>2
<1> QED
  BY <1>1, <1>2, <1>3, <1>4, <1>5, <1>6
     DEF UsageNext, SyncStep, usageVars, Passes, SnapshotStored, StartIndexed

-----------------------------------------------------------------------------
THEOREM UsageInvariant == UsageSpec => []UsageInv
<1> QED BY UsageInitInv, UsageStepInv, PTL DEF UsageSpec

\* The variables keep their types.
THEOREM UsageTypes == UsageSpec => []UsageTypeOK
<1>1. UsageInv => UsageTypeOK
  BY DEF UsageInv
<1> QED BY <1>1, UsageInvariant, PTL

\* A total that sync_model_epoch_usage marks final is of the whole epoch, from
\* hourly buckets, and as of a time when late traffic had been counted.
THEOREM FinalTotalsAreComplete == UsageSpec => []FinalIsComplete
<1>1. UsageInv => FinalIsComplete
  BY DEF UsageInv
<1> QED BY <1>1, UsageInvariant, PTL

\* replace_model_epoch_usage is never given a partially covered epoch.
THEOREM TotalsAreNeverTruncated == UsageSpec => []NeverTruncated
<1>1. UsageInv => NeverTruncated
  BY DEF UsageInv
<1> QED BY <1>1, UsageInvariant, PTL

\* No daily estimate replaces hourly data, no older answer a newer one, and
\* nothing a total that is final.
THEOREM TotalsGetMoreExact == UsageSpec => MoreExactOverTime
<1> DEFINE Both == \A e \in UsageEpoch :
               /\ usage[e].bucket = "hour" =>
                     usage'[e].bucket = "hour" /\ usage'[e].asOf >= usage[e].asOf
               /\ usage[e].final => usage'[e] = usage[e]
<1>1. UsageInit => FinalApart
  BY DEF UsageInit, IdleSync, FinalApart
<1>2. UsageInv /\ FinalApart /\ [UsageNext]_usageVars => FinalApart' /\ Exact /\ FinalStays
  BY UsageStepInv, FinalStep
<1>3. Exact /\ FinalStays => Both
  BY DEF Exact, FinalStays
<1>4. [Both]_usageVars <=> [\A e \in UsageEpoch :
          /\ usage[e].bucket = "hour" =>
                usage'[e].bucket = "hour" /\ usage'[e].asOf >= usage[e].asOf
          /\ usage[e].final => usage'[e] = usage[e]]_usageVars
  OBVIOUS
<1> HIDE DEF Both
<1> QED BY <1>1, <1>2, <1>3, <1>4, UsageInvariant, PTL DEF UsageSpec, MoreExactOverTime

=============================================================================
