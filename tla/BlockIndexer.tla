---------------------------- MODULE BlockIndexer ----------------------------
(***************************************************************************)
(* backend/service.py fetch_and_cache_blocks and backend/database.py       *)
(* save_block_full_batch: the poller that copies the chain's blocks into   *)
(* eight SQLite tables, a contiguous batch at a time.                      *)
(*                                                                         *)
(* db is what other connections and the next process see; staged is the    *)
(* open transaction's view.  A step is what runs between two awaits.       *)
(***************************************************************************)
EXTENDS Naturals

CONSTANTS
    MaxBlocks,   \* max_blocks
    MaxLag,      \* bound: how far behind the tip the asked node may be
    Unservable,  \* heights no configured node can serve
    MaxHeight    \* bound: the chain stops here

ASSUME IndexerAssumption ==
    /\ MaxBlocks \in Nat \ {0}
    /\ MaxLag \in Nat
    /\ MaxHeight \in Nat \ {0}
    /\ Unservable \subseteq 1..MaxHeight

VARIABLES
    tip,         \* height of the chain
    db,          \* committed tables: db[t][h] copies of block h's rows
    poll,        \* the locals of fetch_and_cache_blocks
    txn          \* the open transaction: tables saved so far, its view

vars == <<tip, db, poll, txn>>

Height == 1..MaxHeight

\* The tables in the order save_block_full_batch writes them: 1 blocks,
\* 2 block_commit_signatures, 3 transactions, 4 transaction_participants,
\* 5 block_results, 6 transaction_results, 7 transaction_events, 8 transfers.
Table == 1..8
Blocks == 1
Appended == {4, 7, 8}        \* INSERT; the others are INSERT OR REPLACE

Rows == [Table -> [Height -> Nat]]
NoRows == [t \in Table |-> [h \in Height |-> 0]]

\* fetched: the answer of safe_fetch for each height of the range.
NothingFetched == [h \in Height |-> "none"]
IdlePoll == [pc |-> "idle", latest |-> 0, upto |-> 0, fetched |-> NothingFetched]
NoTransaction == [saved |-> 0, rows |-> NoRows]

PollState ==
    [pc      : {"idle", "tip", "fetching", "saving"},
     latest  : 0..MaxHeight,
     upto    : 0..MaxHeight,
     fetched : [Height -> {"none", "pending", "ok", "failed"}]]

TypeOK ==
    /\ tip \in Height
    /\ db \in Rows
    /\ poll \in PollState
    /\ txn \in [saved : 0..8, rows : Rows]

Init ==
    /\ tip = 1
    /\ db = NoRows
    /\ poll = IdlePoll
    /\ txn = NoTransaction

-----------------------------------------------------------------------------
Grow ==
    /\ tip < MaxHeight
    /\ tip' = tip + 1
    /\ UNCHANGED <<db, poll, txn>>

\* The process dies, or shutdown cancels the task: an open transaction is
\* rolled back when its connection goes away.
Crash ==
    /\ poll' = IdlePoll
    /\ txn' = NoTransaction
    /\ UNCHANGED <<tip, db>>

-----------------------------------------------------------------------------
(***************************************************************************)
(* fetch_and_cache_blocks                                                  *)
(***************************************************************************)

\* get_latest_block_height: MAX(height) of blocks, 0 for an empty table.
IsLatest(h) ==
    /\ h \in Height => db[Blocks][h] > 0
    /\ \A k \in Height : db[Blocks][k] > 0 => k <= h

ReadLatest ==
    /\ poll.pc = "idle"
    /\ \E h \in 0..MaxHeight :
          /\ IsLatest(h)
          /\ poll' = [poll EXCEPT !.pc = "tip", !.latest = h]
    /\ UNCHANGED <<tip, db, txn>>

\* Mutants of InRange: the last stored block again; the next block skipped.
InRangeFromLatest(h, latest, current) ==
    h >= latest /\ h < current + 1 /\ h < latest + MaxBlocks
InRangeSkipsFirst(h, latest, current) ==
    h >= latest + 2 /\ h < current + 1 /\ h < latest + MaxBlocks

\* range(start_height, end_height): max_blocks - 1 blocks at most.
InRange(h, latest, current) ==
    /\ h >= latest + 1
    /\ h < current + 1
    /\ h < latest + 1 + MaxBlocks - 1

ReadTip ==
    /\ poll.pc = "tip"
    /\ \E current \in Height :
          /\ current <= tip /\ tip <= current + MaxLag
          /\ poll' =
                IF poll.latest + 1 > current THEN IdlePoll
                ELSE [poll EXCEPT !.pc = "fetching",
                         !.fetched = [h \in Height |->
                             IF InRange(h, poll.latest, current) THEN "pending" ELSE "none"]]
    /\ UNCHANGED <<tip, db, txn>>

\* get_latest_height raises and the poller logs it.
ReadTipFails ==
    /\ poll.pc = "tip"
    /\ poll' = IdlePoll
    /\ UNCHANGED <<tip, db, txn>>

\* safe_fetch: the coroutines of the gather answer in any order.
FetchOk(h) ==
    /\ poll.pc = "fetching" /\ poll.fetched[h] = "pending"
    /\ h \notin Unservable
    /\ poll' = [poll EXCEPT !.fetched[h] = "ok"]
    /\ UNCHANGED <<tip, db, txn>>

FetchFails(h) ==
    /\ poll.pc = "fetching" /\ poll.fetched[h] = "pending"
    /\ poll' = [poll EXCEPT !.fetched[h] = "failed"]
    /\ UNCHANGED <<tip, db, txn>>

\* commit_upto is the last height before the first failure.
Gathered ==
    /\ poll.pc = "fetching"
    /\ \A h \in Height : poll.fetched[h] # "pending"
    /\ \E upto \in poll.latest..MaxHeight :
          /\ \A h \in Height : poll.latest < h /\ h <= upto => poll.fetched[h] = "ok"
          /\ upto + 1 \in Height => poll.fetched[upto + 1] # "ok"
          /\ IF upto = poll.latest
             THEN poll' = IdlePoll /\ UNCHANGED txn
             ELSE /\ poll' = [poll EXCEPT !.pc = "saving", !.upto = upto]
                  /\ txn' = [saved |-> 0, rows |-> db]
    /\ UNCHANGED <<tip, db>>

-----------------------------------------------------------------------------
(***************************************************************************)
(* save_block_full_batch                                                   *)
(***************************************************************************)

\* Mutant of ToCommit: commit_upto is not looked at.
EveryFetched(h) == poll.fetched[h] = "ok"

ToCommit(h) == poll.fetched[h] = "ok" /\ h <= poll.upto

SaveTable ==
    /\ poll.pc = "saving" /\ txn.saved < 8
    /\ LET t == txn.saved + 1 IN
       txn' = [saved |-> t,
               rows  |-> [txn.rows EXCEPT ![t] = [h \in Height |->
                             IF ~ToCommit(h) THEN txn.rows[t][h]
                             ELSE IF t \in Appended THEN txn.rows[t][h] + 1 ELSE 1]]]
    /\ UNCHANGED <<tip, db, poll>>

\* A statement or the commit raises (a missing field, a locked database):
\* rollback, and the poller logs the exception.
SaveFails ==
    /\ poll.pc = "saving"
    /\ poll' = IdlePoll
    /\ txn' = NoTransaction
    /\ UNCHANGED <<tip, db>>

Commit ==
    /\ poll.pc = "saving" /\ txn.saved = 8
    /\ db' = txn.rows
    /\ poll' = IdlePoll
    /\ txn' = NoTransaction
    /\ UNCHANGED tip

-----------------------------------------------------------------------------
Next ==
    \/ Grow
    \/ Crash
    \/ ReadLatest
    \/ ReadTip
    \/ ReadTipFails
    \/ \E h \in Height : FetchOk(h) \/ FetchFails(h)
    \/ Gathered
    \/ SaveTable
    \/ SaveFails
    \/ Commit

Spec == Init /\ [][Next]_vars

\* poll_blocks loops forever and every await ends by a timeout; a node that
\* is asked for a block again and again serves it in the end (the pool tries
\* all of them), and so does the question for the tip.
Fairness ==
    /\ WF_vars(Grow)
    /\ WF_vars(ReadLatest)
    /\ SF_vars(ReadTip)
    /\ \A h \in Height : SF_vars(FetchOk(h)) /\ WF_vars(FetchFails(h))
    /\ WF_vars(Gathered)
    /\ WF_vars(SaveTable)
    /\ WF_vars(Commit)

FairSpec == Spec /\ Fairness

-----------------------------------------------------------------------------
(***************************************************************************)
(* Properties                                                              *)
(***************************************************************************)

Log == INSTANCE BlockLog WITH MaxAppend <- MaxBlocks - 1

\* Whatever fails between two awaits (a fetch, a statement, the process),
\* the tables other connections read hold an initial segment of the chain,
\* each block in all eight tables and exactly once, and one poll extends it
\* by fewer than max_blocks blocks that the chain really has.
ImplementsLog == Log!Spec

\* The batch being written is the contiguous run after the last stored block:
\* a failed fetch in the middle of a range never lets a later block through.
BatchIsContiguous ==
    poll.pc = "saving" =>
        \A h \in Height : ToCommit(h) <=> (poll.latest < h /\ h <= poll.upto)

\* A poll under way is given up: the process dies, or the database refuses.
PollLost ==
    /\ poll.pc \in {"fetching", "saving"} /\ poll'.pc = "idle"
    /\ ~Gathered /\ ~Commit

\* Once polls are no longer lost, every block is indexed that the chain has
\* and a node within the tolerated lag serves, unless an earlier one is not
\* served: however often single fetches fail, the hole is asked for again.
EverythingServedIsIndexed ==
    <>[][~PollLost]_vars =>
        \A n \in Height :
            (1..n) \cap Unservable = {} /\ n + MaxLag <= MaxHeight
                => <>[](\A t \in Table : db[t][n] = 1)

=============================================================================
