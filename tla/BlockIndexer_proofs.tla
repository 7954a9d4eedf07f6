------------------------- MODULE BlockIndexer_proofs -------------------------
(***************************************************************************)
(* For every chain, batch size and set of unservable heights the block     *)
(* indexer implements BlockLog: what is committed is always an initial     *)
(* segment of the chain, every block complete and exactly once.            *)
(***************************************************************************)
EXTENDS BlockIndexer, TLAPS

\* The tables after the batch has been written to the first k of them.
Written(n, m, k) ==
    [t \in Table |-> [h \in Height |->
        IF h <= (IF t <= k THEN m ELSE n) THEN 1 ELSE 0]]

\* The range under way starts after the last stored block and ends at the tip.
Fetching ==
    \A h \in Height : poll.fetched[h] # "none" =>
        /\ poll.latest < h /\ h <= tip
        /\ h < poll.latest + MaxBlocks

Saving ==
    /\ poll.latest < poll.upto /\ poll.upto <= tip
    /\ poll.upto < poll.latest + MaxBlocks
    /\ BatchIsContiguous
    /\ txn.rows = Written(poll.latest, poll.upto, txn.saved)

\* The inductive invariant.  There is one writer, so what it read as the last
\* stored height stays true until its own commit.
IInv ==
    /\ TypeOK
    /\ \E n \in 0..tip : db = Log!Committed(n)
    /\ poll.pc # "idle" => poll.latest <= tip /\ db = Log!Committed(poll.latest)
    /\ poll.pc = "fetching" => Fetching
    /\ poll.pc = "saving" => Saving

-----------------------------------------------------------------------------
\* MAX(height) of a committed prefix is its length.
LEMMA LatestOfPrefix ==
    ASSUME IndexerAssumption, NEW n \in 0..MaxHeight, db = Log!Committed(n),
           NEW h \in 0..MaxHeight, IsLatest(h)
    PROVE  h = n
<1>1. \A k \in Height : db[Blocks][k] = IF k <= n THEN 1 ELSE 0
  BY DEF Log!Committed, Log!Height, Height, Table, Blocks
<1>2. h <= n
  BY <1>1 DEF IsLatest, Height, IndexerAssumption
<1>3. n <= h
  <2>1. CASE n = 0
    BY <2>1
  <2>2. CASE n # 0
    <3>1. n \in Height /\ db[Blocks][n] > 0
      BY <1>1, <2>2 DEF Height, IndexerAssumption
    <3> QED BY <3>1 DEF IsLatest
  <2> QED BY <2>1, <2>2
<1> QED BY <1>2, <1>3 DEF IndexerAssumption

LEMMA InitInv == IndexerAssumption /\ Init => IInv
<1> SUFFICES ASSUME IndexerAssumption, Init PROVE IInv
  OBVIOUS
<1>1. NoRows \in Rows /\ NoRows = Log!Committed(0)
  BY DEF NoRows, Rows, Log!Committed, Log!Height, Height, IndexerAssumption
<1> QED
  BY <1>1 DEF Init, IInv, TypeOK, PollState, IdlePoll, NothingFetched, NoTransaction,
      Height, IndexerAssumption
\* Every step keeps the invariant, and is a step of the log or changes nothing
\* that the log shows.
LEMMA StepInv ==
    ASSUME IndexerAssumption, IInv, [Next]_vars
    PROVE  IInv' /\ [Log!Next]_(Log!logVars)
<1> USE IndexerAssumption DEF IInv
<1>1. PICK n \in 0..tip : db = Log!Committed(n)
  OBVIOUS
<1>2. CASE Grow
  <2>1. /\ tip' = tip + 1 /\ tip' \in Height
        /\ UNCHANGED <<db, poll, txn>>
    BY <1>2 DEF Grow, TypeOK, PollState, Height
  <2>2. TypeOK'
    BY <2>1 DEF TypeOK, PollState
  <2>3. n \in 0..tip' /\ (db = Log!Committed(n))'
    <3>1. n \in 0..tip'
      BY <2>1 DEF TypeOK, Height
    <3>2. (db = Log!Committed(n))'
      BY <2>1, <1>1 DEF Log!Committed, Log!Height
    <3> QED BY <3>1, <3>2
  <2>4. poll'.pc # "idle" => poll'.latest <= tip' /\ (db = Log!Committed(poll.latest))'
    <3>1. poll.pc # "idle" => poll.latest <= tip'
      BY <2>1 DEF TypeOK, PollState, Height
    <3>2. poll.pc # "idle" => (db = Log!Committed(poll.latest))'
      BY <2>1 DEF Log!Committed, Log!Height
    <3> QED BY <2>1, <3>1, <3>2
  <2>5. poll'.pc = "fetching" => Fetching'
    BY <2>1 DEF TypeOK, PollState, Height, Fetching
  <2>6. poll'.pc = "saving" => Saving'
    BY <2>1 DEF TypeOK, PollState, Height, Saving, BatchIsContiguous, ToCommit, Written
  <2>7. Log!Next
    BY <1>2 DEF Grow, Log!Next, Log!Grow
  <2> QED BY <2>2, <2>3, <2>4, <2>5, <2>6, <2>7
<1>3. CASE Crash \/ ReadTipFails \/ SaveFails
  <2>1. /\ UNCHANGED <<tip, db>> /\ poll' = IdlePoll
        /\ (txn' = NoTransaction \/ txn' = txn)
    BY <1>3 DEF Crash, ReadTipFails, SaveFails
  <2>2. TypeOK'
    BY <2>1 DEF TypeOK, PollState, IdlePoll, NothingFetched, NoTransaction, NoRows, Rows
  <2> QED
    BY <2>1, <2>2, <1>1 DEF IdlePoll, Log!Committed, Log!Height, Log!logVars
<1>4. CASE ReadLatest
  <2>1. PICK h \in 0..MaxHeight :
          IsLatest(h) /\ poll' = [poll EXCEPT !.pc = "tip", !.latest = h]
    BY <1>4 DEF ReadLatest
  <2>2. UNCHANGED <<tip, db, txn>>
    BY <1>4 DEF ReadLatest
  <2>3. h = n
    BY <2>1, <1>1, LatestOfPrefix DEF TypeOK, PollState, Height
  <2>4. poll'.pc = "tip" /\ poll'.latest = n
    BY <2>1, <2>3 DEF TypeOK, PollState
  <2>5. TypeOK'
    BY <2>1, <2>2 DEF TypeOK, PollState
  <2>6. (db = Log!Committed(n))' /\ n \in 0..tip'
    BY <2>2, <1>1 DEF Log!Committed, Log!Height
  <2>7. poll'.latest <= tip' /\ (db = Log!Committed(poll.latest))'
    BY <2>4, <2>6 DEF TypeOK, PollState, Height, Log!Committed, Log!Height
  <2> QED
    BY <2>2, <2>4, <2>5, <2>6, <2>7 DEF Log!logVars
<1>5. CASE ReadTip
  <2>1. PICK current \in Height :
          /\ current <= tip
          /\ poll' = IF poll.latest + 1 > current THEN IdlePoll
                     ELSE [poll EXCEPT !.pc = "fetching",
                              !.fetched = [h \in Height |->
                                 IF InRange(h, poll.latest, current) THEN "pending" ELSE "none"]]
    BY <1>5 DEF ReadTip
  <2>2. poll.pc = "tip" /\ UNCHANGED <<tip, db, txn>>
    BY <1>5 DEF ReadTip
  <2>3. CASE poll.latest + 1 > current
    <3>1. poll' = IdlePoll
      BY <2>1, <2>3
    <3>2. TypeOK'
      BY <2>2, <3>1 DEF TypeOK, PollState, IdlePoll, NothingFetched
    <3> QED
      BY <2>2, <3>1, <3>2, <1>1 DEF IdlePoll, Log!Committed, Log!Height, Log!logVars
  <2>4. CASE ~(poll.latest + 1 > current)
    <3> DEFINE range == [h \in Height |->
                  IF InRange(h, poll.latest, current) THEN "pending" ELSE "none"]
    <3>1. poll' = [poll EXCEPT !.pc = "fetching", !.fetched = range]
      BY <2>1, <2>4
    <3>2. range \in [Height -> {"none", "pending", "ok", "failed"}]
      OBVIOUS
    <3>3. \A h \in Height : range[h] # "none" =>
              poll.latest < h /\ h <= tip /\ h < poll.latest + MaxBlocks
      BY <2>1 DEF InRange, TypeOK, PollState, Height
    <3> HIDE DEF range
    <3>4. /\ poll'.pc = "fetching" /\ poll'.latest = poll.latest
          /\ poll'.fetched = range /\ poll' \in PollState
      BY <3>1, <3>2 DEF TypeOK, PollState
    <3>5. TypeOK'
      BY <2>2, <3>4 DEF TypeOK, PollState
    <3>6. Fetching'
      BY <2>2, <3>3, <3>4 DEF Fetching
    <3>7. (db = Log!Committed(n))' /\ (db = Log!Committed(poll.latest))'
      BY <2>2, <3>4, <1>1 DEF Log!Committed, Log!Height
    <3> QED
      BY <2>2, <3>4, <3>5, <3>6, <3>7 DEF Log!logVars
  <2> QED BY <2>3, <2>4
<1>6. ASSUME NEW h \in Height, FetchOk(h) \/ FetchFails(h)
      PROVE  IInv' /\ [Log!Next]_(Log!logVars)
  <2>1. /\ poll.pc = "fetching" /\ poll.fetched[h] = "pending"
        /\ UNCHANGED <<tip, db, txn>>
    BY <1>6 DEF FetchOk, FetchFails
  <2>2. PICK a \in {"ok", "failed"} : poll' = [poll EXCEPT !.fetched[h] = a]
    BY <1>6 DEF FetchOk, FetchFails
  <2>3. TypeOK'
    BY <2>1, <2>2 DEF TypeOK, PollState
  <2>4. poll'.pc = "fetching" /\ poll'.latest = poll.latest
    BY <2>1, <2>2 DEF TypeOK, PollState
  <2>5. Fetching'
    BY <2>1, <2>2 DEF TypeOK, PollState, Fetching, Height
  <2> QED
    BY <2>1, <2>3, <2>4, <2>5, <1>1 DEF TypeOK, PollState, Log!Committed, Log!Height, Log!logVars
<1>7. CASE Gathered
  <2>1. poll.pc = "fetching" /\ UNCHANGED <<tip, db>>
    BY <1>7 DEF Gathered
  <2>2. PICK upto \in poll.latest..MaxHeight :
          /\ \A h \in Height : poll.latest < h /\ h <= upto => poll.fetched[h] = "ok"
          /\ upto + 1 \in Height => poll.fetched[upto + 1] # "ok"
          /\ IF upto = poll.latest
             THEN poll' = IdlePoll /\ UNCHANGED txn
             ELSE /\ poll' = [poll EXCEPT !.pc = "saving", !.upto = upto]
                  /\ txn' = [saved |-> 0, rows |-> db]
    BY <1>7 DEF Gathered
  <2>3. CASE upto = poll.latest
    <3>1. poll' = IdlePoll /\ UNCHANGED txn
      BY <2>2, <2>3
    <3>2. TypeOK'
      BY <2>1, <3>1 DEF TypeOK, PollState, IdlePoll, NothingFetched
    <3> QED
      BY <2>1, <3>1, <3>2, <1>1 DEF IdlePoll, Log!Committed, Log!Height, Log!logVars
  <2>4. CASE upto # poll.latest
    <3>1. poll' = [poll EXCEPT !.pc = "saving", !.upto = upto] /\ txn' = [saved |-> 0, rows |-> db]
      BY <2>2, <2>4
    <3>2. upto \in Height /\ poll.latest < upto /\ upto <= MaxHeight
      BY <2>4 DEF TypeOK, PollState, Height
    <3>3. TypeOK'
      <4>1. txn' \in [saved : 0..8, rows : Rows]
        BY <3>1 DEF TypeOK, PollState
      <4>2. poll' \in PollState
        <5>1. upto \in 0..MaxHeight
          BY <3>2 DEF Height
        <5> QED BY <3>1, <5>1 DEF TypeOK, PollState
      <4> QED BY <2>1, <4>1, <4>2 DEF TypeOK, PollState
    <3>4. poll'.pc = "saving" /\ poll'.latest = poll.latest /\ poll'.upto = upto
          /\ poll'.fetched = poll.fetched
      BY <3>1 DEF TypeOK, PollState
    <3>5. upto <= tip /\ upto < poll.latest + MaxBlocks
      BY <2>1, <2>2, <3>2 DEF Fetching
    <3>6. BatchIsContiguous'
      <4> SUFFICES ASSUME NEW h \in Height
                   PROVE  ToCommit(h)' <=> (poll.latest < h /\ h <= upto)
        BY <3>4 DEF BatchIsContiguous
      <4>1. ToCommit(h)' <=> (poll.fetched[h] = "ok" /\ h <= upto)
        BY <3>4 DEF ToCommit
      <4>2. poll.fetched[h] = "ok" => poll.latest < h
        BY <2>1 DEF Fetching
      <4> QED BY <4>1, <4>2, <2>2
    <3>7. (txn.rows = Written(poll.latest, poll.upto, txn.saved))'
      BY <2>1, <3>1, <3>4 DEF TypeOK, PollState, Written, Log!Committed, Log!Height, Table, Height
    <3>8. Saving'
      BY <2>1, <3>2, <3>4, <3>5, <3>6, <3>7 DEF Saving
    <3> QED
      BY <2>1, <3>3, <3>4, <3>8, <1>1 DEF TypeOK, PollState, Log!Committed, Log!Height, Log!logVars
  <2> QED BY <2>3, <2>4
<1>8. CASE SaveTable
  <2>1. /\ poll.pc = "saving" /\ txn.saved < 8 /\ UNCHANGED <<tip, db, poll>>
        /\ txn'.saved = txn.saved + 1
        /\ txn' = [saved |-> txn.saved + 1,
               rows  |-> [txn.rows EXCEPT ![txn.saved + 1] = [h \in Height |->
                             IF ~ToCommit(h) THEN txn.rows[txn.saved + 1][h]
                             ELSE IF txn.saved + 1 \in Appended
                                  THEN txn.rows[txn.saved + 1][h] + 1 ELSE 1]]]
    BY <1>8 DEF SaveTable
  <2>2. Saving
    BY <2>1
  <2>3. (txn.rows = Written(poll.latest, poll.upto, txn.saved))'
    <3> DEFINE new == [h \in Height |->
                          IF ~ToCommit(h) THEN txn.rows[txn.saved + 1][h]
                          ELSE IF txn.saved + 1 \in Appended
                               THEN txn.rows[txn.saved + 1][h] + 1 ELSE 1]
    <3>1. txn.saved + 1 \in Table
      BY <2>1 DEF TypeOK, PollState, Table
    <3>2. \A h \in Height : new[h] = IF h <= poll.upto THEN 1 ELSE 0
      <4> SUFFICES ASSUME NEW h \in Height
                   PROVE  new[h] = IF h <= poll.upto THEN 1 ELSE 0
        OBVIOUS
      <4>1. txn.rows[txn.saved + 1][h] = IF h <= poll.latest THEN 1 ELSE 0
        BY <2>2, <3>1 DEF Saving, Written, TypeOK, PollState
      <4>2. ToCommit(h) <=> (poll.latest < h /\ h <= poll.upto)
        BY <2>1, <2>2 DEF Saving, BatchIsContiguous
      <4>3. h \in Nat /\ poll.latest \in Nat /\ poll.upto \in Nat /\ poll.latest < poll.upto
        BY <2>2 DEF Saving, TypeOK, PollState, Height
      <4> QED BY <4>1, <4>2, <4>3
    <3>3. txn'.rows = [txn.rows EXCEPT ![txn.saved + 1] = new]
      BY <2>1
    <3>4. txn'.rows = Written(poll.latest, poll.upto, txn.saved + 1)
      <4> HIDE DEF new
      <4>1. new = [h \in Height |-> IF h <= poll.upto THEN 1 ELSE 0]
        BY <3>2 DEF new
      <4> QED
        BY <2>2, <3>1, <3>3, <4>1 DEF Saving, Written, Table, TypeOK, PollState
    <3> QED BY <2>1, <3>4
  <2>4. Saving'
    BY <2>1, <2>2, <2>3 DEF Saving, BatchIsContiguous, ToCommit
  <2>5. txn' \in [saved : 0..8, rows : Rows]
    <3>1. txn'.rows \in Rows
      <4>1. \A n_, m, k : Written(n_, m, k) \in Rows
        BY DEF Written, Rows
      <4> QED BY <2>3, <4>1
    <3>2. txn'.saved \in 0..8
      BY <2>1 DEF TypeOK, PollState
    <3> QED BY <2>1, <3>1, <3>2
  <2>6. TypeOK'
    BY <2>1, <2>5 DEF TypeOK, PollState
  <2> QED
    BY <2>1, <2>4, <2>6, <1>1 DEF TypeOK, PollState, Log!Committed, Log!Height, Log!logVars
<1>9. CASE Commit
  <2>1. /\ poll.pc = "saving" /\ txn.saved = 8 /\ tip' = tip
        /\ db' = txn.rows /\ poll' = IdlePoll /\ txn' = NoTransaction
    BY <1>9 DEF Commit
  <2>2. Saving /\ db = Log!Committed(poll.latest)
    BY <2>1
  <2>3. db' = Log!Committed(poll.upto)
    BY <2>1, <2>2 DEF Saving, Written, Log!Committed, Log!Height, Table, Height
  <2>4. TypeOK'
    BY <2>1 DEF TypeOK, PollState, IdlePoll, NothingFetched, NoTransaction, NoRows, Rows
  <2>5. poll.upto \in 0..tip
    BY <2>2 DEF Saving, TypeOK, PollState, Height
  <2>6. Log!Append
    <3> DEFINE k == poll.upto - poll.latest
    <3>1. k \in 1..(MaxBlocks - 1) /\ poll.latest + k = poll.upto /\ poll.latest \in 0..tip
      BY <2>2 DEF Saving, TypeOK, PollState, Height, IndexerAssumption
    <3> QED
      BY <2>1, <2>2, <2>3, <2>5, <3>1 DEF Log!Append
  <2>7. poll'.pc = "idle"
    BY <2>1 DEF IdlePoll
  <2> QED
    BY <2>1, <2>3, <2>4, <2>5, <2>6, <2>7 DEF Log!Next, Log!Committed, Log!Height
<1>10. CASE UNCHANGED vars
  BY <1>10, <1>1 DEF vars, TypeOK, PollState, Fetching, Saving, BatchIsContiguous, ToCommit, Written,
     Log!Committed, Log!Height, Log!logVars
<1> QED
  BY <1>2, <1>3, <1>4, <1>5, <1>6, <1>7, <1>8, <1>9, <1>10 DEF Next

-----------------------------------------------------------------------------
\* The invariant holds in every reachable state of every instance.
THEOREM Invariant == Spec => []IInv
<1>1. Init => IInv
  BY InitInv, IndexerAssumption
<1>2. IInv /\ [Next]_vars => IInv'
  BY StepInv, IndexerAssumption
<1> QED BY <1>1, <1>2, PTL DEF Spec

\* The locals, the tables and the open transaction keep their types.
THEOREM TypeCorrect == Spec => []TypeOK
<1>1. IInv => TypeOK
  BY DEF IInv
<1> QED BY <1>1, Invariant, PTL

\* A batch that is being written is the gap-free run after the last stored
\* block, whichever fetches of the range failed.
THEOREM Contiguous == Spec => []BatchIsContiguous
<1>1. IInv => BatchIsContiguous
  BY DEF IInv, Saving, BatchIsContiguous
<1> QED BY <1>1, Invariant, PTL

\* fetch_and_cache_blocks and save_block_full_batch implement the block log:
\* no failure or crash between two awaits shows a reader a gap, a block that
\* is missing from one of the tables, or a row inserted twice.
THEOREM Refinement == Spec => ImplementsLog
<1>1. Init => Log!Init
  BY IndexerAssumption DEF Init, Log!Init, NoRows, Log!Committed, Log!Height, Height
<1>2. IInv /\ [Next]_vars => [Log!Next]_(Log!logVars)
  BY StepInv, IndexerAssumption
<1> QED BY <1>1, <1>2, Invariant, PTL DEF Spec, ImplementsLog, Log!Spec
=============================================================================
