----------------------------- MODULE ModelsPage -----------------------------
(***************************************************************************)
(* backend/service.py: the models page.                                    *)
(*                                                                         *)
(* Two tables feed it.  models holds, for each epoch, the weight of every  *)
(* model, added up over the epoch's participants by whoever asks first and *)
(* never again.  models_api_cache holds, for each epoch and height, what   *)
(* the chain answers about its models; that answer is always of now,       *)
(* whatever height it is stored under.                                     *)
(***************************************************************************)
EXTENDS Integers, FiniteSetsExt

CONSTANTS
    ModelEpochLength,   \* blocks of an epoch of the modelled chain
    MaxModelTip,        \* bound: the chain stops here
    ModelEpochOffset,   \* how far before the next epoch a past one is read
    VisitedHeights,     \* bound: the heights a visitor may name
    MaxModelEvents      \* bound: visitors, failed requests and restarts

ASSUME ModelsAssumption ==
    /\ ModelEpochLength \in Nat \ {0} /\ MaxModelTip \in Nat \ {0}
    /\ ModelEpochOffset \in 1..ModelEpochLength
    /\ VisitedHeights \subseteq 1..(MaxModelTip + 1) /\ MaxModelEvents \in Nat

ModelHeight == 1..MaxModelTip
EpochAtHeight(h) == (h - 1) \div ModelEpochLength + 1
ModelEpoch == 1..EpochAtHeight(MaxModelTip)
EpochStart(e) == (e - 1) * ModelEpochLength + 1

\* A visitor need not name a height; one beyond the chain stands for them all.
Unnamed == 0
NameableHeight == 1..(MaxModelTip + 1)

Nothing == 0

VARIABLES
    modelTip,      \* height of the chain
    knownEpoch,    \* current_epoch_id
    modelWeights,  \* models: the epoch whose participants were added up
    modelAnswers,  \* models_api_cache: the height of the chain at each answer
    task,          \* get_current_models, get_historical_models, the poller
    modelEvents    \* visitors, failed requests and restarts so far

modelVars == <<modelTip, knownEpoch, modelWeights, modelAnswers, task,
               modelEvents>>
modelTables == <<modelWeights, modelAnswers>>

Reader == {"page", "visit", "poll"}

ModelTask ==
    [pc     : {"idle", "members", "height", "weights", "answer"},
     epoch  : ModelEpoch,
     from   : ModelEpoch \cup {Nothing},
     height : NameableHeight \cup {Unnamed}]

NoTask == [pc |-> "idle", epoch |-> 1, from |-> Nothing, height |-> Unnamed]

ModelsTypeOK ==
    /\ modelTip \in ModelHeight
    /\ knownEpoch \in ModelEpoch \cup {Nothing}
    /\ modelWeights \in [ModelEpoch -> ModelEpoch \cup {Nothing}]
    /\ modelAnswers \in [ModelEpoch -> [NameableHeight -> ModelHeight \cup {Nothing}]]
    /\ task \in [Reader -> ModelTask]
    /\ modelEvents \in 0..MaxModelEvents

ModelsInit ==
    /\ modelTip = 1
    /\ knownEpoch = Nothing
    /\ modelWeights = [e \in ModelEpoch |-> Nothing]
    /\ modelAnswers = [e \in ModelEpoch |-> [h \in NameableHeight |-> Nothing]]
    /\ task = [c \in Reader |-> NoTask]
    /\ modelEvents = 0

EpochNow == EpochAtHeight(modelTip)

ModelEvent == modelEvents < MaxModelEvents /\ modelEvents' = modelEvents + 1

\* current_epoch_id or, if nobody set it yet, the latest epoch.
KnownOrLatest == IF knownEpoch = Nothing THEN EpochNow ELSE knownEpoch

Answered(e) == {h \in NameableHeight : modelAnswers[e][h] # Nothing}

\* Mutant of Shown: the oldest answer of the epoch.
ShownOldest(e) == IF Answered(e) = {} THEN Nothing ELSE modelAnswers[e][Min(Answered(e))]

\* ORDER BY height DESC LIMIT 1: what the page of the current epoch shows.
Shown(e) == IF Answered(e) = {} THEN Nothing ELSE modelAnswers[e][Max(Answered(e))]

-----------------------------------------------------------------------------
ModelChainGrows ==
    /\ modelTip < MaxModelTip
    /\ modelTip' = modelTip + 1
    /\ UNCHANGED <<knownEpoch, modelTables, task, modelEvents>>

\* poll_current_epoch stores the epoch it fetched; EpochLifecycle has its steps.
RememberEpoch ==
    /\ knownEpoch' = EpochNow
    /\ UNCHANGED <<modelTip, modelTables, task, modelEvents>>

\* Without both tables the page is put together from requests.
OpenModels ==
    /\ task["page"].pc = "idle"
    /\ knownEpoch' = KnownOrLatest
    /\ task' = IF modelWeights[knownEpoch'] # Nothing /\ Answered(knownEpoch') # {} THEN task
               ELSE [task EXCEPT !["page"] =
                        [NoTask EXCEPT !.pc = "members", !.epoch = knownEpoch']]
    /\ UNCHANGED <<modelTip, modelTables, modelEvents>>

\* The participants of an epoch that has begun are kept in a snapshot.
VisitModels(e, asked) ==
    /\ task["visit"].pc = "idle" /\ e <= EpochNow
    /\ ModelEvent
    /\ task' = [task EXCEPT !["visit"] =
          [NoTask EXCEPT !.pc = "height", !.epoch = e, !.from = e, !.height = asked]]
    /\ UNCHANGED <<modelTip, knownEpoch, modelTables>>

PollModels ==
    /\ task["poll"].pc = "idle"
    /\ task' = [task EXCEPT !["poll"] = [NoTask EXCEPT !.pc = "members"]]
    /\ UNCHANGED <<modelTip, knownEpoch, modelTables, modelEvents>>

\* /v1/epochs/current/participants.  The poller takes the epoch from the
\* answer; the page keeps the one it had in memory.
ReadModelMembers(c) ==
    /\ task[c].pc = "members"
    /\ task' = [task EXCEPT ![c].pc = "height",
                            ![c].from = IF c = "page" THEN EpochNow ELSE @,
                            ![c].epoch = IF c = "poll" THEN EpochNow ELSE @]
    /\ UNCHANGED <<modelTip, knownEpoch, modelTables, modelEvents>>

\* get_canonical_height for a past epoch, at most the tip.
PastHeight(e, asked) ==
    LET canonical == Min({modelTip, EpochStart(e + 1) - ModelEpochOffset}) IN
    IF asked = Unnamed THEN canonical ELSE Min({asked, canonical})

\* For the current epoch a height is taken as it is.
VisitedHeight(e, asked) ==
    IF e # KnownOrLatest THEN PastHeight(e, asked)
    ELSE IF asked # Unnamed THEN asked ELSE modelTip

\* After the heights, and again after the sums: is there an answer to use?
\* The page takes the newest, a visitor that of the height.
AnswerFor(c, e, h) ==
    IF c = "visit" THEN modelAnswers[e][h] # Nothing ELSE Answered(e) # {}

\* The poller uses nothing that is stored.
AfterHeight(c, e, h) ==
    IF c # "poll" /\ modelWeights[e] = Nothing THEN "weights"
    ELSE IF c = "poll" \/ ~ AnswerFor(c, e, h) THEN "answer" ELSE "idle"

ReadModelHeight(c) ==
    LET t == task[c]
        h == IF c = "visit" THEN VisitedHeight(t.epoch, t.height) ELSE modelTip
        next == AfterHeight(c, t.epoch, h) IN
    /\ t.pc = "height"
    /\ c = "visit" /\ t.epoch # KnownOrLatest => t.height \notin 1..(EpochStart(t.epoch) - 1)
    /\ knownEpoch' = IF c = "visit" THEN KnownOrLatest ELSE knownEpoch
    /\ task' = [task EXCEPT ![c] =
          IF next = "idle" THEN NoTask
          ELSE [t EXCEPT !.pc = next, !.height = h,
                         !.from = IF next = "weights" THEN @ ELSE Nothing]]
    /\ UNCHANGED <<modelTip, modelTables, modelEvents>>

\* "Height {requested_height} is before epoch {epoch_id} start".
RefuseHeight ==
    LET t == task["visit"] IN
    /\ t.pc = "height" /\ t.epoch # KnownOrLatest
    /\ t.height \in 1..(EpochStart(t.epoch) - 1)
    /\ knownEpoch' = KnownOrLatest
    /\ task' = [task EXCEPT !["visit"] = NoTask]
    /\ UNCHANGED <<modelTip, modelTables, modelEvents>>

\* save_models_batch: the table was looked at before, and is not again.
SaveWeights(c) ==
    LET t == task[c] IN
    /\ t.pc = "weights"
    /\ modelWeights' = [modelWeights EXCEPT ![t.epoch] = t.from]
    /\ task' = [task EXCEPT ![c] =
          IF AnswerFor(c, t.epoch, t.height) THEN NoTask
          ELSE [t EXCEPT !.pc = "answer", !.from = Nothing]]
    /\ UNCHANGED <<modelTip, knownEpoch, modelAnswers, modelEvents>>

\* models_all and models_stats_by_time, both without a height, and then
\* save_models_api_cache, which replaces the row of the epoch and height.
StoreAnswer(c) ==
    LET t == task[c] IN
    /\ t.pc = "answer"
    /\ modelAnswers' = [modelAnswers EXCEPT ![t.epoch][t.height] = modelTip]
    /\ task' = [task EXCEPT ![c] = NoTask]
    /\ UNCHANGED <<modelTip, knownEpoch, modelWeights, modelEvents>>

ModelRequestFails(c) ==
    /\ task[c].pc \in {"members", "height", "answer"}
    /\ ModelEvent
    /\ task' = [task EXCEPT ![c] = NoTask]
    /\ UNCHANGED <<modelTip, knownEpoch, modelTables>>

ModelsRestart ==
    /\ ModelEvent
    /\ knownEpoch' = Nothing
    /\ task' = [c \in Reader |-> NoTask]
    /\ UNCHANGED <<modelTip, modelTables>>

-----------------------------------------------------------------------------
ModelStep(c) ==
    \/ ReadModelMembers(c) \/ ReadModelHeight(c)
    \/ SaveWeights(c) \/ StoreAnswer(c)

ModelsNext ==
    \/ ModelChainGrows
    \/ RememberEpoch
    \/ OpenModels
    \/ \E e \in ModelEpoch, h \in VisitedHeights \cup {Unnamed} : VisitModels(e, h)
    \/ PollModels
    \/ \E c \in Reader : ModelStep(c) \/ ModelRequestFails(c)
    \/ RefuseHeight
    \/ ModelsRestart

ModelsSpec == ModelsInit /\ [][ModelsNext]_modelVars

-----------------------------------------------------------------------------
(***************************************************************************)
(* Properties                                                              *)
(***************************************************************************)

\* A visitor's answer stored for a height the chain has not reached.
Pinned(e) == \E h \in Answered(e) : modelAnswers[e][h] < h

\* What the page of the running epoch shows follows the chain although
\* pages and visitors write to the same table under heights of their own:
\* whatever height the chain reaches, the page shows an answer given since,
\* unless the epoch ends first or a height beyond the tip pins the page.
ModelsStayFresh ==
    \A h \in ModelHeight :
        LET e == EpochAtHeight(h) IN
        modelTip = h ~> Shown(e) >= h \/ EpochNow # e \/ Pinned(e)

\* planning/task-14.md:161: "Per-epoch cache - Models cached by epoch_id for
\* consistency with participants data": the weights kept for an epoch are
\* those of its own participants.
ModelsOfTheirEpoch ==
    \A e \in ModelEpoch : modelWeights[e] \in {Nothing, e}

\* Whoever adds the weights up and however long ago the epoch was read: the
\* participants are never those of an epoch before the one they are kept for.
WeightsComeNoEarlier ==
    \A e \in ModelEpoch : modelWeights[e] # Nothing => modelWeights[e] >= e

=============================================================================
