----------------------------- MODULE Inferences -----------------------------
(***************************************************************************)
(* backend/service.py poll_participant_inferences: for every participant,  *)
(* the newest inferences of the running and of the previous epoch.         *)
(*                                                                         *)
(* The poller reads the epoch first and then the inferences, page by page, *)
(* 20 seconds apart, while inferences start, end and the epoch changes.    *)
(* The chain forgets the epoch of an expired inference, which the poller   *)
(* works out from the height at which it started.                          *)
(***************************************************************************)
EXTENDS Integers, Sequences, FiniteSetsExt

CONSTANTS
    Workers,             \* participants, members of an epoch or not
    WorkersOf,           \* the members of each epoch
    InferenceStart,      \* the height at which each inference starts, by key
    AssignedTo,          \* the worker of each inference
    InferenceEpochLength,\* epoch_length
    PageLimit,           \* pagination.limit, 500
    TopLimit,            \* inferences kept of each workStatus, 10
    MayEnd,              \* bound: how each inference may end
    MaxInferenceTip,     \* bound: the chain stops here
    MaxInferenceFaults   \* bound: failed requests and saves, and restarts

ASSUME InferencesAssumption ==
    /\ InferenceEpochLength \in Nat \ {0}
    /\ PageLimit \in Nat \ {0} /\ TopLimit \in Nat \ {0}
    /\ MaxInferenceTip \in Nat \ {0} /\ MaxInferenceFaults \in Nat
    /\ InferenceStart \in Seq(Nat \ {0})
    /\ AssignedTo \in [DOMAIN InferenceStart -> Workers]
    /\ DOMAIN WorkersOf = 1..((MaxInferenceTip - 1) \div InferenceEpochLength + 1)
    /\ \A e \in DOMAIN WorkersOf : WorkersOf[e] \subseteq Workers

Inference == DOMAIN InferenceStart
InferenceEpochAt(h) == (h - 1) \div InferenceEpochLength + 1
EffectiveHeight(e) == (e - 1) * InferenceEpochLength + 1
LastEpochOfWork == InferenceEpochAt(MaxInferenceTip)

\* "successful" stands for FINISHED and VALIDATED, which the code never tells
\* apart.  An inference that has not started is not in the answer.
Ended == {"successful", "expired", "invalidated"}
Status == {"absent", "started"} \cup Ended

VARIABLES
    workTip,        \* height of the chain
    workStatus,         \* of each inference, on the chain
    inferenceRows,  \* participant_inferences: for each epoch and worker
    round,          \* the locals of poll_participant_inferences
    workFaults

inferenceVars == <<workTip, workStatus, inferenceRows, round, workFaults>>

\* No row at all and the empty marker differ: Unsaved and Saved({}).
Rows == [saved : BOOLEAN, rows : SUBSET (Inference \X Ended)]
Unsaved == [saved |-> FALSE, rows |-> {}]

Round == [pc   : {"idle", "pages", "saving"},
          now  : 1..LastEpochOfWork,                 \* current_epoch
          key  : Inference \cup {1},                 \* next_key
          got  : [Inference -> Status],              \* all_inferences
          todo : SUBSET (Workers \X {0, 1})]         \* and how many epochs back

NothingGot == [i \in Inference |-> "absent"]
NoRound == [pc |-> "idle", now |-> 1, key |-> 1, got |-> NothingGot, todo |-> {}]

InferencesTypeOK ==
    /\ workTip \in 1..MaxInferenceTip
    /\ workStatus \in [Inference -> Status]
    /\ inferenceRows \in [0..LastEpochOfWork -> [Workers -> Rows]]
    /\ round \in Round
    /\ workFaults \in 0..MaxInferenceFaults

InferencesInit ==
    /\ workTip = 1
    /\ workStatus = [i \in Inference |-> IF InferenceStart[i] <= 1 THEN "started" ELSE "absent"]
    /\ inferenceRows = [e \in 0..LastEpochOfWork |-> [p \in Workers |-> Unsaved]]
    /\ round = NoRound
    /\ workFaults = 0

WorkEpoch == InferenceEpochAt(workTip)

WorkFault == workFaults < MaxInferenceFaults /\ workFaults' = workFaults + 1

-----------------------------------------------------------------------------
(***************************************************************************)
(* The chain                                                               *)
(***************************************************************************)

WorkGrows ==
    /\ workTip < MaxInferenceTip
    /\ workTip' = workTip + 1
    /\ workStatus' = [i \in Inference |->
          IF InferenceStart[i] = workTip' THEN "started" ELSE workStatus[i]]
    /\ UNCHANGED <<inferenceRows, round, workFaults>>

\* It ends, or a validator finds the response wrong.
InferenceEnds(i, ending) ==
    /\ ending \in MayEnd[i]
    /\ \/ workStatus[i] = "started" /\ ending \in {"successful", "expired"}
       \/ workStatus[i] = "successful" /\ ending = "invalidated"
    /\ workStatus' = [workStatus EXCEPT ![i] = ending]
    /\ UNCHANGED <<workTip, inferenceRows, round, workFaults>>

-----------------------------------------------------------------------------
(***************************************************************************)
(* poll_participant_inferences                                             *)
(***************************************************************************)

\* The running epoch, its effective height and its members; the length of an
\* epoch is asked for next and does not change.
PollInferences ==
    /\ round.pc = "idle"
    /\ round' = [NoRound EXCEPT !.pc = "pages", !.now = WorkEpoch]
    /\ UNCHANGED <<workTip, workStatus, inferenceRows, workFaults>>

\* The inferences of the next page, and where the one after it begins.
Existing == {i \in Inference : workStatus[i] # "absent" /\ i >= round.key}
OnPage(i) == i \in Existing /\ Cardinality({j \in Existing : j < i}) < PageLimit
BeyondPage == {i \in Existing : ~ OnPage(i)}

\* Mutant of EpochsBack: floor division.
EpochsBackFloor(blocks) == blocks \div InferenceEpochLength

EpochsBack(blocks) == (blocks + InferenceEpochLength - 1) \div InferenceEpochLength

\* epoch_id of an answer: "0", if it expired, is replaced by a calculation
\* from the epoch the round began in.
EpochOf(i, answer, now) ==
    IF answer # "expired" THEN InferenceEpochAt(InferenceStart[i])
    ELSE IF InferenceStart[i] >= EffectiveHeight(now) THEN now
    ELSE now - EpochsBack(EffectiveHeight(now) - InferenceStart[i])

\* target_epochs are the one the round began in and the one before it.
Targeted(got, now) ==
    {i \in Inference : got[i] # "absent" /\ EpochOf(i, got[i], now) \in {now, now - 1}}

\* by_participant: the members, and whoever has an inference.
WorkersSeen(got, now) == WorkersOf[now] \cup {AssignedTo[i] : i \in Targeted(got, now)}

ReadPage ==
    LET got == [i \in Inference |-> IF OnPage(i) THEN workStatus[i] ELSE round.got[i]] IN
    /\ round.pc = "pages"
    /\ round' = [round EXCEPT !.got = got,
          !.pc   = IF BeyondPage = {} THEN "saving" ELSE "pages",
          !.key  = IF BeyondPage = {} THEN 1 ELSE Min(BeyondPage),
          !.todo = IF BeyondPage = {} THEN WorkersSeen(got, round.now) \X {0, 1} ELSE {}]
    /\ UNCHANGED <<workTip, workStatus, inferenceRows, workFaults>>

\* sorted(..., start_block_timestamp, reverse=True)[:10], for each status;
\* those of one block stay in the order of the listing.
Newer(j, i) ==
    \/ InferenceStart[j] > InferenceStart[i]
    \/ InferenceStart[j] = InferenceStart[i] /\ j < i

Newest(S) == {i \in S : Cardinality({j \in S : Newer(j, i)}) < TopLimit}

\* What is saved of the answers got in a round that began in epoch now.
ToSave(p, e, got, now) ==
    UNION {{<<i, s>> : i \in Newest({i \in Inference :
               got[i] = s /\ AssignedTo[i] = p /\ EpochOf(i, s, now) = e})} : s \in Ended}

NextRound(todo) == IF todo = {} THEN NoRound ELSE [round EXCEPT !.todo = todo]

\* save_participant_inferences_batch: the rows are replaced, by the empty
\* marker if there are none.  The order of the two epochs is that of a set,
\* that of the participants nobody relies on.
SaveInferences(p, back) ==
    LET e == round.now - back IN
    /\ round.pc = "saving" /\ <<p, back>> \in round.todo
    /\ inferenceRows' = [inferenceRows EXCEPT ![e][p] =
          [saved |-> TRUE, rows |-> ToSave(p, e, round.got, round.now)]]
    /\ round' = NextRound(round.todo \ {<<p, back>>})
    /\ UNCHANGED <<workTip, workStatus, workFaults>>

\* The exception leaves this participant and goes on with the next.
SaveInferencesFails(p) ==
    /\ round.pc = "saving"
    /\ \E back \in {0, 1} : <<p, back>> \in round.todo
    /\ WorkFault
    /\ round' = NextRound(round.todo \ ({p} \X {0, 1}))
    /\ UNCHANGED <<workTip, workStatus, inferenceRows>>

\* A page that fails takes the round with it; so does the process.
RoundLost ==
    /\ round.pc # "idle"
    /\ WorkFault
    /\ round' = NoRound
    /\ UNCHANGED <<workTip, workStatus, inferenceRows>>

(***************************************************************************)
(* get_participant_inferences_summary: a worker of whom nothing is stored  *)
(* looks like one without inferences.                                      *)
(***************************************************************************)
Summary(e, p) == inferenceRows[e][p].rows

-----------------------------------------------------------------------------
InferencesStep ==
    \/ ReadPage
    \/ \E p \in Workers, back \in {0, 1} : SaveInferences(p, back)

InferencesNext ==
    \/ WorkGrows
    \/ \E i \in Inference, ending \in Ended : InferenceEnds(i, ending)
    \/ PollInferences
    \/ InferencesStep
    \/ \E p \in Workers : SaveInferencesFails(p)
    \/ RoundLost

InferencesSpec == InferencesInit /\ [][InferencesNext]_inferenceVars

-----------------------------------------------------------------------------
(***************************************************************************)
(* Properties                                                              *)
(***************************************************************************)

\* The newest inferences of worker p that started in epoch e, by status.
TrulyNewest(e, p) ==
    UNION {{<<i, s>> : i \in Newest({i \in Inference :
               /\ workStatus[i] = s /\ AssignedTo[i] = p
               /\ InferenceEpochAt(InferenceStart[i]) = e})} : s \in Ended}

\* Rounds begin in one epoch and end in another, a page is read before an
\* inference expires and the next one after, some saves fail; yet when the
\* chain stands still the running and the previous epoch end up with each
\* worker's newest inferences of that very epoch, expired ones among them,
\* and every member of the running epoch with at least the empty marker.
InferencesSettle ==
    <>[](\A e \in {WorkEpoch, WorkEpoch - 1}, p \in Workers :
            /\ Summary(e, p) = TrulyNewest(e, p)
            /\ p \in WorkersOf[WorkEpoch] => inferenceRows[e][p].saved)

\* What is stored of a worker are inferences of its own that ended that way,
\* at most TopLimit of each status, filed under the epoch they started in.
\* One that started while the round was under way and has already expired is
\* filed under the epoch the round began in, never under a later one.
WasOnce(i, s) == workStatus[i] \in {s, "invalidated"}

FiledRight(e, i, s) ==
    \/ InferenceEpochAt(InferenceStart[i]) = e
    \/ s = "expired" /\ InferenceEpochAt(InferenceStart[i]) > e

RowsAreTrue ==
    \A e \in 0..LastEpochOfWork, p \in Workers, s \in Ended :
        LET kept == {i \in Inference : <<i, s>> \in Summary(e, p)} IN
        /\ \A i \in kept : AssignedTo[i] = p /\ WasOnce(i, s) /\ FiledRight(e, i, s)
        /\ Cardinality(kept) <= TopLimit

=============================================================================
