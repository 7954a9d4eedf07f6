--------------------------- MODULE TimelineCache ---------------------------
(***************************************************************************)
(* backend/service.py get_timeline: one answer kept in memory for          *)
(* timeline_cache_ttl seconds and in a table that a new process starts     *)
(* from.  Requests and the poller call it and overlap; nothing keeps two   *)
(* of them from fetching at once.                                          *)
(***************************************************************************)
EXTENDS Integers

CONSTANTS
    TimelineCalls,      \* the coroutines inside get_timeline
    TimelineTTL,        \* timeline_cache_ttl, in ticks
    LoadedAge,          \* the age a loaded answer is given: 29 of 30 seconds
    MaxTimelineNow,     \* bound: the clock stops here
    MaxTimelineFaults   \* bound: failed requests and restarts

ASSUME TimelineAssumption ==
    /\ TimelineTTL \in Nat \ {0} /\ LoadedAge \in 0..TimelineTTL
    /\ MaxTimelineNow \in Nat /\ MaxTimelineFaults \in Nat

Moment == 0..MaxTimelineNow
Never == -1
NoAnswer == [asOf |-> Never, loaded |-> Never]

VARIABLES
    timelineNow,      \* the clock, and what the chain would answer
    timelineCache,    \* timeline_cache and timeline_cache_time
    timelineRow,      \* timeline_cache, the table
    timelineCall,     \* the locals of get_timeline
    lastHit,          \* history: how old the last answer from memory was
    timelineFaults

timelineVars == <<timelineNow, timelineCache, timelineRow, timelineCall, lastHit, timelineFaults>>

\* An answer is named by when the chain was asked for its height and, if it
\* comes from the table, by when the call that loaded it began.
Answer == [asOf : Moment \cup {Never}, loaded : Moment \cup {Never}]
TimelineStep == [pc : {"idle", "load", "height", "rest", "persist"}, start : Moment,
         asOf : Moment \cup {Never}]
NoCall == [pc |-> "idle", start |-> 0, asOf |-> Never]

Empty == [answer |-> NoAnswer, time |-> 0]
NoHit == [loaded |-> FALSE, age |-> 0]

TimelineTypeOK ==
    /\ timelineNow \in Moment
    /\ timelineCache \in [answer : Answer, time : -LoadedAge..MaxTimelineNow]
    /\ timelineRow \in Moment \cup {Never}
    /\ timelineCall \in [TimelineCalls -> TimelineStep]
    /\ lastHit \in [loaded : BOOLEAN, age : Moment]
    /\ timelineFaults \in 0..MaxTimelineFaults

TimelineInit ==
    /\ timelineNow = 0
    /\ timelineCache = Empty
    /\ timelineRow = Never
    /\ timelineCall = [c \in TimelineCalls |-> NoCall]
    /\ lastHit = NoHit
    /\ timelineFaults = 0

TimelineFault == timelineFaults < MaxTimelineFaults /\ timelineFaults' = timelineFaults + 1

InMemory == timelineCache.answer # NoAnswer

\* How long ago the chain was asked, or the answer loaded.
AgeOf(answer) ==
    LET loaded == answer.loaded # Never IN
    [loaded |-> loaded,
     age    |-> timelineNow - (IF loaded THEN answer.loaded ELSE answer.asOf)]

-----------------------------------------------------------------------------
TimePasses ==
    /\ timelineNow < MaxTimelineNow
    /\ timelineNow' = timelineNow + 1
    /\ UNCHANGED <<timelineCache, timelineRow, timelineCall, lastHit, timelineFaults>>

StillFresh(time) == timelineNow - time < TimelineTTL

\* current_time is taken here and used until the call ends.
GetTimeline(c) ==
    /\ timelineCall[c].pc = "idle"
    /\ IF InMemory /\ StillFresh(timelineCache.time)
       THEN /\ lastHit' = AgeOf(timelineCache.answer)
            /\ UNCHANGED timelineCall
       ELSE /\ timelineCall' = [timelineCall EXCEPT ![c] =
                  [NoCall EXCEPT !.pc = IF InMemory THEN "height" ELSE "load",
                                 !.start = timelineNow]]
            /\ UNCHANGED lastHit
    /\ UNCHANGED <<timelineNow, timelineCache, timelineRow, timelineFaults>>

\* Mutant of LoadedStamp: what is loaded counts as too old to be given away.
LoadedStampExpired(c) == timelineCall[c].start - TimelineTTL

LoadedStamp(c) == timelineCall[c].start - LoadedAge

\* get_timeline_cache: what the table held replaces what another call may
\* have fetched by now, with a time that leaves it a second at most.
LoadTimeline(c) ==
    /\ timelineCall[c].pc = "load"
    /\ IF timelineRow = Never
       THEN /\ timelineCall' = [timelineCall EXCEPT ![c].pc = "height"]
            /\ UNCHANGED timelineCache
       ELSE /\ timelineCache' = [answer |-> [asOf |-> timelineRow, loaded |-> timelineCall[c].start],
                                 time |-> LoadedStamp(c)]
            /\ timelineCall' = [timelineCall EXCEPT ![c] = NoCall]
    /\ UNCHANGED <<timelineNow, timelineRow, lastHit, timelineFaults>>

\* get_latest_height; the blocks, the parameters and the epoch follow.
ReadTimelineHeight(c) ==
    /\ timelineCall[c].pc = "height"
    /\ timelineCall' = [timelineCall EXCEPT ![c].pc = "rest", ![c].asOf = timelineNow]
    /\ UNCHANGED <<timelineNow, timelineCache, timelineRow, lastHit, timelineFaults>>

\* Mutant of StampOf: the time at which the answer is complete.
StampAtEnd(c) == timelineNow

StampOf(c) == timelineCall[c].start

KeepTimeline(c) ==
    LET t == timelineCall[c] IN
    /\ t.pc = "rest"
    /\ timelineCache' = [answer |-> [asOf |-> t.asOf, loaded |-> Never], time |-> StampOf(c)]
    /\ timelineCall' = [timelineCall EXCEPT ![c] =
          [NoCall EXCEPT !.pc = "persist", !.asOf = t.asOf]]
    /\ UNCHANGED <<timelineNow, timelineRow, lastHit, timelineFaults>>

\* save_timeline_cache; an exception is logged and the answer returned.
PersistTimeline(c) ==
    /\ timelineCall[c].pc = "persist"
    /\ \/ timelineRow' = timelineCall[c].asOf /\ UNCHANGED timelineFaults
       \/ TimelineFault /\ UNCHANGED timelineRow
    /\ timelineCall' = [timelineCall EXCEPT ![c] = NoCall]
    /\ UNCHANGED <<timelineNow, timelineCache, lastHit>>

TimelineFails(c) ==
    /\ timelineCall[c].pc \in {"height", "rest"}
    /\ TimelineFault
    /\ timelineCall' = [timelineCall EXCEPT ![c] = NoCall]
    /\ UNCHANGED <<timelineNow, timelineCache, timelineRow, lastHit>>

TimelineRestart ==
    /\ TimelineFault
    /\ timelineCache' = Empty
    /\ timelineCall' = [c \in TimelineCalls |-> NoCall]
    /\ UNCHANGED <<timelineNow, timelineRow, lastHit>>

-----------------------------------------------------------------------------
TimelineNext ==
    \/ TimePasses
    \/ \E c \in TimelineCalls :
          \/ GetTimeline(c) \/ LoadTimeline(c)
          \/ ReadTimelineHeight(c) \/ KeepTimeline(c) \/ PersistTimeline(c)
          \/ TimelineFails(c)
    \/ TimelineRestart

TimelineSpec == TimelineInit /\ [][TimelineNext]_timelineVars

-----------------------------------------------------------------------------
(***************************************************************************)
(* Properties                                                              *)
(***************************************************************************)

\* However calls overlap and in whatever order they finish, an answer from
\* memory that this process fetched describes the chain less than the TTL
\* ago; one loaded from the table, of any age, is given away only in the
\* rest of the TTL that LoadedAge leaves it.
TimelineIsFresh ==
    lastHit.age < (IF lastHit.loaded THEN TimelineTTL - LoadedAge ELSE TimelineTTL)

=============================================================================
