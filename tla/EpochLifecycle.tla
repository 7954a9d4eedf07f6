--------------------------- MODULE EpochLifecycle ---------------------------
(***************************************************************************)
(* backend/service.py: how the service follows the chain's epochs.         *)
(*                                                                         *)
(* poll_current_epoch and the API call get_current_epoch_stats; the API    *)
(* and, when the epoch changes, get_current_epoch_stats itself call        *)
(* get_historical_epoch_stats.  All of them share current_epoch_id and     *)
(* current_epoch_data in memory and inference_stats and epoch_status in    *)
(* SQLite.  A step is what runs between two awaits.                        *)
(***************************************************************************)
EXTENDS Naturals

CONSTANTS
    Pollers,       \* coroutines that call get_current_epoch_stats
    Visitors,      \* API requests for /inference/epochs/{epoch_id}
    Members,       \* the active participants of every modelled epoch
    EpochLength,   \* blocks per epoch of the modelled chain
    Offset,        \* the 10 blocks before the boundary, scaled
    PocLead,       \* blocks between next_poc_start and the next boundary
    MaxHeight,     \* bound: the chain stops here
    NetworkFails,  \* bound: whether chain requests may fail, or leave members out
    AskedHeights   \* bound: the heights a visitor may name

ASSUME LifecycleAssumption ==
    /\ Pollers \cap Visitors = {}
    /\ EpochLength \in Nat \ {0} /\ Offset \in 1..EpochLength
    /\ PocLead \in Nat /\ PocLead + Offset <= EpochLength
    /\ MaxHeight \in Nat \ {0}
    /\ NetworkFails \in BOOLEAN
    /\ AskedHeights \subseteq 1..MaxHeight

VARIABLES
    height,        \* the chain's tip
    stats,         \* inference_stats: its rows, <<epoch, height, participant>>
    status,        \* epoch_status: finish_height of a finished epoch, or None
    currentEpoch,  \* current_epoch_id, or None
    currentData,   \* epoch, height and participants of current_epoch_data
    call,          \* the coroutines inside the two functions
    hollow         \* history: the epochs marked by a call that stored nobody

vars == <<height, stats, status, currentEpoch, currentData, call, hollow>>
memory == <<currentEpoch, currentData>>
database == <<stats, status, hollow>>

None == 0
Caller == Pollers \cup Visitors

\* The modelled chain.  Epoch e is effective from block Effective(e) on.
Effective(e) == (e - 1) * EpochLength + 1
EpochAt(h) == ((h - 1) \div EpochLength) + 1
Canonical(e) == Effective(e + 1) - Offset
NextPocStart(h) == Effective(EpochAt(h) + 1) - PocLead

Height == 1..MaxHeight
Epoch == 1..EpochAt(MaxHeight)
Target == 0..(MaxHeight + EpochLength)

\* epoch, tip, batch: locals of get_current_epoch_stats (epoch is None outside
\* it; batch is stats_for_saving once it is saved);
\* of, asked, wasFinished, target: those of get_historical_epoch_stats,
\* latest: latest_info of get_canonical_height until the id is stored, and
\* nobody: whether the past stats_for_saving was empty when it was saved.
Call ==
    [pc : {"idle", "startup", "load", "height", "epoch", "isOver", "fetch",
           "publish", "isFinished", "latest", "store", "tipCurrent",
           "boundary", "tipPast", "lookup", "fetchPast", "mark"},
     epoch : Epoch \cup {None}, tip : Height \cup {None}, batch : SUBSET Members,
     of : Epoch \cup {None}, asked : Height \cup {None},
     wasFinished : BOOLEAN, target : Target, latest : Epoch \cup {None},
     nobody : BOOLEAN]

Idle == [pc |-> "idle", epoch |-> None, tip |-> None, batch |-> {},
         of |-> None, asked |-> None, wasFinished |-> FALSE, target |-> 0,
         latest |-> None, nobody |-> FALSE]

NoData == [epoch |-> None, height |-> None, members |-> {}]

Data == [epoch : Epoch \cup {None}, height : Height \cup {None},
         members : SUBSET Members]

HasRows(e, h) == \E m \in Members : <<e, h, m>> \in stats

TypeOK ==
    /\ height \in Height
    /\ stats \subseteq Epoch \X Height \X Members
    /\ status \in [Epoch -> Height \cup {None}]
    /\ currentEpoch \in Epoch \cup {None}
    /\ currentData \in Data
    /\ call \in [Caller -> Call]
    /\ hollow \subseteq Epoch

Init ==
    /\ height = 1
    /\ stats = {}
    /\ status = [e \in Epoch |-> None]
    /\ currentEpoch = None
    /\ currentData = NoData
    /\ call = [c \in Caller |-> Idle]
    /\ hollow = {}

Goto(c, pc) == call' = [call EXCEPT ![c].pc = pc]

-----------------------------------------------------------------------------
Advance ==
    /\ height < MaxHeight
    /\ height' = height + 1
    /\ UNCHANGED <<database, memory, call>>

\* The process dies and starts again: only SQLite survives.
Restart ==
    /\ currentEpoch' = None
    /\ currentData' = NoData
    /\ call' = [c \in Caller |-> Idle]
    /\ UNCHANGED <<height, database>>

-----------------------------------------------------------------------------
(***************************************************************************)
(* get_current_epoch_stats                                                 *)
(***************************************************************************)

\* poll_current_epoch passes reload; the API does not and, while nothing has
\* been fetched yet, is served from the database if it can be.
CallCurrent(c, reload) ==
    /\ call[c].pc = "idle"
    /\ Goto(c, IF ~reload /\ currentData = NoData THEN "startup" ELSE "height")
    /\ UNCHANGED <<height, database, memory>>

StartupEpoch(c) ==
    /\ call[c].pc = "startup"
    /\ \/ call' = [call EXCEPT ![c].pc = "load", ![c].epoch = EpochAt(height)]
       \/ NetworkFails /\ Goto(c, "height")
    /\ UNCHANGED <<height, database, memory>>

\* get_stats: the newest row of each participant of the epoch.
Newest(e, m) == {h \in Height : /\ <<e, h, m>> \in stats
                                /\ \A k \in Height : <<e, k, m>> \in stats => k <= h}

Stored(e) == {m \in Members : \E h \in Height : <<e, h, m>> \in stats}

\* Mutant of StartupLoad: current_epoch_id is left unset.
StartupLoadForgetsEpoch(c) ==
    LET e == call[c].epoch IN
    /\ call[c].pc = "load"
    /\ \E m \in Stored(e), h \in Height :
          /\ h \in Newest(e, m)
          /\ currentData' = [epoch |-> e, height |-> h, members |-> Stored(e)]
    /\ call' = [call EXCEPT ![c] = Idle]
    /\ UNCHANGED <<height, database, currentEpoch>>

\* _load_cached_epoch_from_db shows everybody with a row of the epoch and
\* reports the height of the first row that SQLite returns.
StartupLoad(c) ==
    LET e == call[c].epoch IN
    /\ call[c].pc = "load"
    /\ \/ /\ Stored(e) = {}
          /\ call' = [call EXCEPT ![c] = [Idle EXCEPT !.pc = "height"]]
          /\ UNCHANGED memory
       \/ /\ \E m \in Stored(e), h \in Height :
                /\ h \in Newest(e, m)
                /\ currentData' = [epoch |-> e, height |-> h, members |-> Stored(e)]
          /\ currentEpoch' = e
          /\ call' = [call EXCEPT ![c] = Idle]
    /\ UNCHANGED <<height, database>>

ReadHeight(c) ==
    /\ call[c].pc = "height"
    /\ call' = [call EXCEPT ![c].pc = "epoch", ![c].tip = height]
    /\ UNCHANGED <<height, database, memory>>

\* The epoch's participants are read after the height; then the first lines
\* of _mark_epoch_finished_if_needed pick the epoch that may have ended.
ReadEpoch(c) ==
    LET e == EpochAt(height)
        old == IF currentEpoch = None THEN e - 1
               ELSE IF e > currentEpoch THEN currentEpoch ELSE None
    IN /\ call[c].pc = "epoch"
       /\ call' = [call EXCEPT ![c].epoch = e, ![c].of = old,
                               ![c].pc = IF old = None THEN "fetch" ELSE "isOver"]
       /\ UNCHANGED <<height, database, memory>>

IsOver(c) ==
    /\ call[c].pc = "isOver"
    /\ Goto(c, IF status[call[c].of] # None THEN "fetch" ELSE "isFinished")
    /\ UNCHANGED <<height, database, memory>>

\* The participants that end up in stats_for_saving: the loop skips the ones
\* that raise, and the answer of a node may leave anybody out.
Gathered == {batch \in SUBSET Members : batch = Members \/ NetworkFails}

\* Mutant of SaveCurrent: an error of save_stats_batch is ignored.
SaveCurrentLost(c) ==
    /\ call[c].pc = "fetch"
    /\ \E batch \in Gathered :
          call' = [call EXCEPT ![c].pc = "publish", ![c].batch = batch]
    /\ UNCHANGED <<height, database, memory>>

\* Everything fetched between here and save_stats_batch is read at the tip
\* taken above; only the writing of the rows is seen by others.  A participant
\* whose collateral cannot be read is skipped, and a batch of nobody is no
\* error: it stores nothing and the call goes on.
SaveCurrent(c) ==
    /\ call[c].pc = "fetch"
    /\ \E batch \in Gathered :
          /\ stats' = stats \cup {<<call[c].epoch, call[c].tip, m>> : m \in batch}
          /\ call' = [call EXCEPT ![c].pc = "publish", ![c].batch = batch]
    /\ UNCHANGED <<height, status, hollow, memory>>

\* participants_stats holds who is in stats_for_saving.
Response(c) == [epoch |-> call[c].epoch, height |-> call[c].tip, members |-> call[c].batch]

\* Mutant of Publish: an epoch once set is never replaced.
PublishKeepsEpoch(c) ==
    /\ call[c].pc = "publish"
    /\ currentEpoch' = IF currentEpoch = None THEN call[c].epoch ELSE currentEpoch
    /\ currentData' = Response(c)
    /\ call' = [call EXCEPT ![c] = Idle]
    /\ UNCHANGED <<height, database>>

Publish(c) ==
    /\ call[c].pc = "publish"
    /\ currentEpoch' = call[c].epoch
    /\ currentData' = Response(c)
    /\ call' = [call EXCEPT ![c] = Idle]
    /\ UNCHANGED <<height, database>>

\* Any request of the body fails: the stale data is returned, or the error.
CurrentFails(c) ==
    /\ NetworkFails
    /\ call[c].pc \in {"height", "epoch", "fetch"}
    /\ call' = [call EXCEPT ![c] = Idle]
    /\ UNCHANGED <<height, database, memory>>

-----------------------------------------------------------------------------
(***************************************************************************)
(* get_historical_epoch_stats, with get_canonical_height inlined           *)
(***************************************************************************)

CallHistory(c, e, asked) ==
    /\ call[c].pc = "idle"
    /\ call' = [call EXCEPT ![c] = [Idle EXCEPT !.pc = "isFinished",
                                                !.of = e, !.asked = asked]]
    /\ UNCHANGED <<height, database, memory>>

\* Mutant of Done: an API request goes on like a poller.
DoneGoesOn(c) == [Idle EXCEPT !.pc = "fetch", !.epoch = call[c].epoch, !.tip = call[c].tip]

\* Return to the caller: a poller's call goes on with its own fetch, whether
\* the history was stored or the exception was logged.
Done(c) == IF call[c].epoch = None THEN Idle
           ELSE [Idle EXCEPT !.pc = "fetch", !.epoch = call[c].epoch, !.tip = call[c].tip]

IsCurrent(e, current) == IF e = current THEN "tipCurrent" ELSE "boundary"

ReadFinished(c) ==
    /\ call[c].pc = "isFinished"
    /\ call' = [call EXCEPT
           ![c].wasFinished = status[call[c].of] # None,
           ![c].pc = IF currentEpoch = None THEN "latest"
                     ELSE IsCurrent(call[c].of, currentEpoch)]
    /\ UNCHANGED <<height, database, memory>>

\* The height that stands in for a boundary the chain does not have yet.
StandIn == NextPocStart(height) - Offset

\* latest_info is kept, of which only the stand-in is used again.
ReadLatest(c) ==
    /\ call[c].pc = "latest"
    /\ call' = [call EXCEPT ![c].pc = "store", ![c].latest = EpochAt(height),
                            ![c].target = StandIn]
    /\ UNCHANGED <<height, database, memory>>

\* The id is stored when the answer arrives: it may be of an epoch that ended
\* meanwhile, and replaces whatever was stored since the test for None.
StoreLatest(c) ==
    LET e == call[c].latest IN
    /\ call[c].pc = "store"
    /\ currentEpoch' = e
    /\ call' = [call EXCEPT ![c].pc = IsCurrent(call[c].of, e), ![c].latest = None]
    /\ UNCHANGED <<height, database, currentData>>

TipCurrent(c) ==
    /\ call[c].pc = "tipCurrent"
    /\ call' = [call EXCEPT ![c].pc = "lookup",
                            ![c].target = IF call[c].asked # None THEN call[c].asked ELSE height]
    /\ UNCHANGED <<height, database, memory>>

\* Participants of the epoch and of the next one; if the next one's cannot
\* be read, next_poc_start stands in for its boundary: that of latest_info if
\* it was read above, else read now.
Boundary(c) ==
    LET e == call[c].of IN
    /\ call[c].pc = "boundary"
    /\ e <= EpochAt(height)
    /\ \/ /\ e + 1 <= EpochAt(height)
          /\ call' = [call EXCEPT ![c].pc = "tipPast", ![c].target = Canonical(e)]
       \/ /\ e + 1 > EpochAt(height) \/ NetworkFails
          /\ call' = [call EXCEPT ![c].pc = "tipPast",
                                  ![c].target = IF @ # 0 THEN @ ELSE StandIn]
    /\ UNCHANGED <<height, database, memory>>

Lower(a, b) == IF a < b THEN a ELSE b

TipPast(c) ==
    LET canonical == Lower(call[c].target, height)
        asked == call[c].asked
    IN /\ call[c].pc = "tipPast"
       /\ call' = [call EXCEPT ![c] =
              IF asked # None /\ asked < Effective(@.of) THEN Done(c)  \* ValueError
              ELSE [@ EXCEPT !.pc = "lookup",
                             !.target = IF asked = None \/ asked >= canonical
                                        THEN canonical ELSE asked]]
       /\ UNCHANGED <<height, database, memory>>

\* Mutant of Lookup: the epoch is marked without looking for its rows.
LookupMarksFirst(c) ==
    /\ call[c].pc = "lookup"
    /\ call' = [call EXCEPT ![c] = IF @.wasFinished THEN Done(c) ELSE [@ EXCEPT !.pc = "mark"]]
    /\ UNCHANGED <<height, database, memory>>

\* Rows at the target: an epoch not yet marked is marked, at that height.
Lookup(c) ==
    LET q == call[c] IN
    /\ q.pc = "lookup"
    /\ call' = [call EXCEPT ![c] =
           IF ~HasRows(q.of, q.target) THEN [q EXCEPT !.pc = "fetchPast"]
           ELSE IF q.wasFinished THEN Done(c)
           ELSE [q EXCEPT !.pc = "mark"]]
    /\ UNCHANGED <<height, database, memory>>

\* The chain serves no state of a height it has not reached.  Collaterals are
\* gathered apart and may be missing, but who cannot be read at all is skipped;
\* a batch of nobody stores nothing and the epoch is marked all the same.
SavePast(c) ==
    LET q == call[c] IN
    /\ q.pc = "fetchPast"
    /\ q.target \in 1..height
    /\ \E batch \in Gathered :
          /\ stats' = stats \cup {<<q.of, q.target, m>> : m \in batch}
          /\ call' = [call EXCEPT ![c] =
                 IF q.asked = None /\ ~q.wasFinished
                 THEN [q EXCEPT !.pc = "mark", !.nobody = (batch = {})] ELSE Done(c)]
    /\ UNCHANGED <<height, status, hollow, memory>>

MarkEpochFinished(c) ==
    /\ call[c].pc = "mark"
    /\ status' = [status EXCEPT ![call[c].of] = call[c].target]
    /\ hollow' = IF call[c].nobody THEN hollow \cup {call[c].of} ELSE hollow \ {call[c].of}
    /\ call' = [call EXCEPT ![c] = Done(c)]
    /\ UNCHANGED <<height, stats, memory>>

HistoryFails(c) ==
    /\ \/ NetworkFails /\ call[c].pc \in {"latest", "tipCurrent", "boundary", "tipPast",
                                          "fetchPast", "mark"}
       \/ call[c].pc = "boundary" /\ call[c].of > EpochAt(height)
       \/ call[c].pc = "fetchPast" /\ call[c].target \notin 1..height
    /\ call' = [call EXCEPT ![c] = Done(c)]
    /\ UNCHANGED <<height, database, memory>>

-----------------------------------------------------------------------------
Step(c) ==
    \/ StartupEpoch(c) \/ StartupLoad(c)
    \/ ReadHeight(c) \/ ReadEpoch(c) \/ IsOver(c)
    \/ SaveCurrent(c) \/ Publish(c) \/ CurrentFails(c)
    \/ ReadFinished(c) \/ ReadLatest(c) \/ StoreLatest(c) \/ TipCurrent(c)
    \/ Boundary(c) \/ TipPast(c) \/ Lookup(c)
    \/ SavePast(c) \/ MarkEpochFinished(c) \/ HistoryFails(c)

Poll(c) == \E reload \in BOOLEAN : CallCurrent(c, reload)

Visit(c) == \E e \in Epoch, h \in AskedHeights \cup {None} :
                CallHistory(c, e, h)

Next ==
    \/ Advance
    \/ Restart
    \/ \E c \in Pollers : Poll(c)
    \/ \E c \in Visitors : Visit(c)
    \/ \E c \in Caller : Step(c)

Spec == Init /\ [][Next]_vars

\* poll_current_epoch loops forever and catches every exception; an await
\* ends because each request has a timeout.
Fairness ==
    /\ \A c \in Pollers : WF_vars(CallCurrent(c, TRUE))
    /\ \A c \in Caller : WF_vars(Step(c))
    /\ WF_vars(Advance)

FairSpec == Spec /\ Fairness

-----------------------------------------------------------------------------
(***************************************************************************)
(* Properties                                                              *)
(***************************************************************************)

\* An epoch is marked finished only after its final rows are committed: a
\* crash between the two writes, or a second call that runs in between, never
\* leaves a finished epoch whose finish_height has no statistics, except where
\* the call that marked it had fetched everything and found nobody to store.
FinishedHasStats ==
    \A e \in Epoch : status[e] # None => HasRows(e, status[e]) \/ e \in hollow

\* Whoever is served as a current participant can be found again after a
\* restart, and so can the height that is shown, unless nobody is shown.
CurrentDataIsStored ==
    /\ currentData.members \subseteq Stored(currentData.epoch)
    /\ currentData.members # {} => HasRows(currentData.epoch, currentData.height)

\* Memory never runs ahead of the chain, whichever answer arrives last.
FollowsTheChain ==
    /\ currentEpoch <= EpochAt(height)
    /\ currentData.height <= height
    /\ currentData # NoData => currentEpoch # None

\* Once the process stays up and requests succeed, the poller catches up with
\* the chain for good, whatever stale answers were still under way.
CatchesUp ==
    <>[][~Restart]_vars =>
        <>[](currentEpoch = EpochAt(MaxHeight) /\ currentData.epoch = EpochAt(MaxHeight))

\* planning/task-3.md: epoch_status "tracks finished epochs".
FinishedEpochIsOver ==
    \A e \in Epoch : status[e] # None => e < EpochAt(height)

\* planning/task-3.md: a historical epoch N is fetched "at height =
\* effective_block_height(N+1) - 10".
FinishedAtCanonicalHeight ==
    \A e \in Epoch : status[e] # None => status[e] = Canonical(e)

=============================================================================
