------------------------- MODULE EpochLifecycle_proofs -------------------------
(***************************************************************************)
(* For every number of pollers and visitors and every epoch length: what   *)
(* the two epoch functions leave behind in memory and in SQLite agrees,    *)
(* whatever fails, restarts or overlaps between their awaits.              *)
(***************************************************************************)
EXTENDS EpochLifecycle, TLAPS

\* The points inside get_historical_epoch_stats.
History == {"isFinished", "latest", "store", "tipCurrent", "boundary", "tipPast",
            "lookup", "fetchPast", "mark"}

\* The epoch id and the height a coroutine holds were read from a chain that
\* has reached height h.
WasRead(q, h) ==
    /\ q.epoch \in Epoch /\ q.epoch <= EpochAt(h)
    /\ q.tip \in Height /\ q.tip <= h

\* What a coroutine's locals say at each point of its code, when the chain has
\* reached h and the rows st are stored.
Locals(q, h, st) ==
    /\ q.pc = "load" => q.epoch \in Epoch /\ q.epoch <= EpochAt(h)
    /\ q.pc = "epoch" => q.tip \in Height /\ q.tip <= h
    /\ q.pc \in {"isOver", "fetch", "publish"} => WasRead(q, h)
    /\ q.pc \in {"isOver"} \cup History =>
          q.of \in Epoch /\ (q.epoch # None => WasRead(q, h))
    /\ q.pc = "store" => q.latest \in Epoch /\ q.latest <= EpochAt(h)
    /\ q.pc = "publish" => \A m \in q.batch : <<q.epoch, q.tip, m>> \in st
    /\ q.pc = "mark" =>
          /\ q.target \in Height
          /\ q.nobody \/ \E m \in Members : <<q.of, q.target, m>> \in st

\* The chain serves no state of a height it has not reached.
RowsAreReached ==
    \A e \in Epoch, h \in Height, m \in Members : <<e, h, m>> \in stats => h <= height

IInv ==
    /\ TypeOK
    /\ \A c \in Caller : Locals(call[c], height, stats)
    /\ RowsAreReached
    /\ FinishedHasStats
    /\ CurrentDataIsStored
    /\ FollowsTheChain

-----------------------------------------------------------------------------
LEMMA DivMonotone ==
    ASSUME NEW L \in Nat \ {0}, NEW a \in Nat, NEW b \in Nat, a <= b
    PROVE  a \div L \in Nat /\ a \div L <= b \div L
BY SMT

LEMMA DivTimes ==
    ASSUME NEW L \in Nat \ {0}, NEW a \in Nat
    PROVE  (a \div L) * L <= a
BY SMT

\* The epoch of a height is an epoch, and epochs follow the heights.
LEMMA EpochFacts ==
    ASSUME LifecycleAssumption, NEW h \in Height
    PROVE  /\ EpochAt(h) \in Epoch /\ EpochAt(h) \in Nat \ {0}
           /\ \A k \in Height : h <= k => EpochAt(h) <= EpochAt(k)
<1>1. h - 1 \in Nat /\ MaxHeight \in Height /\ h <= MaxHeight
  BY DEF Height, LifecycleAssumption
<1>2. \A k \in Height : h <= k => (h - 1) \div EpochLength <= (k - 1) \div EpochLength
  <2> SUFFICES ASSUME NEW k \in Height, h <= k
               PROVE  (h - 1) \div EpochLength <= (k - 1) \div EpochLength
    OBVIOUS
  <2>1. k - 1 \in Nat /\ h - 1 <= k - 1
    BY <1>1 DEF Height, LifecycleAssumption
  <2> QED BY <1>1, <2>1, DivMonotone DEF LifecycleAssumption
<1>3. \A k \in Height : (k - 1) \div EpochLength \in Nat
  <2> SUFFICES ASSUME NEW k \in Height PROVE (k - 1) \div EpochLength \in Nat
    OBVIOUS
  <2>1. k - 1 \in Nat
    BY DEF Height, LifecycleAssumption
  <2> QED BY <2>1, DivMonotone DEF LifecycleAssumption
<1>4. \A k \in Height : h <= k => EpochAt(h) <= EpochAt(k)
  BY <1>2, <1>3 DEF EpochAt
<1>5. EpochAt(h) \in Nat \ {0} /\ EpochAt(MaxHeight) \in Nat
  BY <1>1, <1>3 DEF EpochAt
<1> QED BY <1>1, <1>4, <1>5 DEF Epoch

\* The heights get_canonical_height computes.
LEMMA TargetFacts ==
    ASSUME LifecycleAssumption, NEW h \in Height
    PROVE  /\ NextPocStart(h) - Offset \in Target
           /\ \A e \in Epoch : e + 1 <= EpochAt(h) => Canonical(e) \in Target
<1> DEFINE q == (h - 1) \div EpochLength
<1>1. h - 1 \in Nat /\ h \in Nat /\ h <= MaxHeight
  BY DEF Height, LifecycleAssumption
<1>2. q \in Nat /\ q * EpochLength <= h - 1
  BY <1>1, DivMonotone, DivTimes DEF LifecycleAssumption
<1>3. EpochAt(h) = q + 1
  BY DEF EpochAt
<1> HIDE DEF q
<1>4. NextPocStart(h) - Offset \in Target
  <2>1. NextPocStart(h) = (q + 1) * EpochLength + 1 - PocLead
    BY <1>2, <1>3 DEF NextPocStart, Effective
  <2>2. (q + 1) * EpochLength = q * EpochLength + EpochLength
    BY <1>2 DEF LifecycleAssumption
  <2> DEFINE m == q * EpochLength
  <2>3. m \in Nat /\ m <= h - 1
    BY <1>2 DEF LifecycleAssumption
  <2> HIDE DEF m
  <2>4. NextPocStart(h) = m + EpochLength + 1 - PocLead
    BY <2>1, <2>2 DEF m
  <2> QED BY <1>1, <2>3, <2>4 DEF LifecycleAssumption, Target
<1>5. ASSUME NEW e \in Epoch, e + 1 <= EpochAt(h) PROVE Canonical(e) \in Target
  <2>1. e \in Nat \ {0} /\ e <= q
    BY <1>2, <1>3, <1>5 DEF Epoch
  <2>2. e * EpochLength <= q * EpochLength /\ e * EpochLength >= EpochLength
    BY <1>2, <2>1 DEF LifecycleAssumption
  <2> DEFINE m == e * EpochLength
             p == q * EpochLength
  <2>3. m \in Nat /\ p \in Nat /\ m <= p /\ p <= h - 1 /\ m >= EpochLength
    BY <1>2, <2>1, <2>2 DEF LifecycleAssumption
  <2>4. Canonical(e) = m + 1 - Offset
    BY <2>1 DEF Canonical, Effective
  <2> HIDE DEF m, p
  <2> QED BY <1>1, <2>3, <2>4 DEF LifecycleAssumption, Target
<1> QED BY <1>4, <1>5

-----------------------------------------------------------------------------
\* What the locals say stays true while the chain grows and rows are added.
LEMMA LocalsStable ==
    ASSUME LifecycleAssumption, NEW q \in Call, NEW h \in Height, NEW k \in Height, h <= k,
           NEW st, NEW more, st \subseteq more, Locals(q, h, st)
    PROVE  Locals(q, k, more)
<1>1. EpochAt(h) \in Nat /\ EpochAt(k) \in Nat /\ EpochAt(h) <= EpochAt(k)
  BY EpochFacts
<1>2. q.epoch \in Nat /\ q.tip \in Nat /\ q.latest \in Nat
  BY EpochFacts DEF Call, Epoch, Height, None
<1>3. WasRead(q, h) => WasRead(q, k)
  BY <1>1, <1>2 DEF WasRead, Height
<1> QED BY <1>1, <1>2, <1>3 DEF Locals, Height

\* A step of coroutine c that adds rows and leaves the others alone.
LEMMA CallUpdate ==
    ASSUME LifecycleAssumption, IInv, NEW c \in Caller, NEW q \in Call,
           call' = [call EXCEPT ![c] = q], height' = height, stats \subseteq stats',
           Locals(q, height, stats')
    PROVE  call' \in [Caller -> Call] /\ \A d \in Caller : Locals(call'[d], height', stats')
<1>1. height \in Height /\ height <= height /\ call \in [Caller -> Call]
  BY DEF IInv, TypeOK, Height
<1>2. ASSUME NEW d \in Caller PROVE Locals(call'[d], height', stats')
  <2>1. Locals(call[d], height, stats) /\ call[d] \in Call
    BY <1>1 DEF IInv
  <2>2. Locals(call[d], height, stats')
    BY <1>1, <2>1, LocalsStable
  <2> QED BY <1>1, <2>2
<1> QED BY <1>1, <1>2

\* Rows once stored stay, and so does what was true because of them.
LEMMA RowsStay ==
    ASSUME FinishedHasStats, CurrentDataIsStored, stats \subseteq stats',
           UNCHANGED <<status, hollow, currentData>>
    PROVE  FinishedHasStats' /\ CurrentDataIsStored'
<1>1. \A e, h : HasRows(e, h) => HasRows(e, h)'
  BY DEF HasRows
<1>2. \A e : Stored(e) \subseteq Stored(e)'
  BY DEF Stored
<1> QED BY <1>1, <1>2 DEF FinishedHasStats, CurrentDataIsStored

\* A step that touches only its own locals.
LEMMA LocalStep ==
    ASSUME LifecycleAssumption, IInv, NEW c \in Caller, NEW q \in Call,
           call' = [call EXCEPT ![c] = q], UNCHANGED <<height, database, memory>>,
           Locals(q, height, stats)
    PROVE  IInv'
<1>1. UNCHANGED <<height, stats, status, hollow, currentEpoch, currentData>>
  BY DEF database, memory
<1>2. call' \in [Caller -> Call] /\ \A d \in Caller : Locals(call'[d], height', stats')
  BY <1>1, CallUpdate
<1>3. TypeOK'
  BY <1>1, <1>2 DEF IInv, TypeOK
<1>4. FinishedHasStats' /\ CurrentDataIsStored'
  BY <1>1, RowsStay DEF IInv
<1> QED BY <1>1, <1>2, <1>3, <1>4 DEF IInv, RowsAreReached, FollowsTheChain

LEMMA IdleOK ==
    ASSUME LifecycleAssumption, NEW h, NEW st
    PROVE  Idle \in Call /\ Locals(Idle, h, st)
BY DEF Idle, Call, None, Locals, History, Target, LifecycleAssumption

\* Returning from get_historical_epoch_stats.
LEMMA DoneOK ==
    ASSUME LifecycleAssumption, IInv, NEW c \in Caller, call[c].pc \in History
    PROVE  /\ Done(c) \in Call
           /\ \A st : Locals(Done(c), height, st)
<1>1. call[c] \in Call /\ Locals(call[c], height, stats)
  BY DEF IInv, TypeOK
<1>2. CASE call[c].epoch = None
  BY <1>2, IdleOK DEF Done
<1>3. CASE call[c].epoch # None
  <2> DEFINE q == [Idle EXCEPT !.pc = "fetch", !.epoch = call[c].epoch, !.tip = call[c].tip]
  <2>1. WasRead(call[c], height)
    BY <1>1, <1>3 DEF Locals
  <2>2. Done(c) = q
    BY <1>3 DEF Done
  <2>3. q \in Call /\ q.pc = "fetch" /\ q.epoch = call[c].epoch /\ q.tip = call[c].tip
    BY <1>1, IdleOK DEF Call, Idle
  <2> HIDE DEF q
  <2>4. ASSUME NEW st PROVE Locals(q, height, st)
    BY <2>1, <2>3 DEF Locals, WasRead, History
  <2> QED BY <2>2, <2>3, <2>4
<1> QED BY <1>2, <1>3

-----------------------------------------------------------------------------
LEMMA InitInv ==
    ASSUME LifecycleAssumption, Init PROVE IInv
<1>1. 1 \in Height /\ EpochAt(1) \in Nat \ {0}
  <2>1. 1 \in Height
    BY DEF Height, LifecycleAssumption
  <2> QED BY <2>1, EpochFacts
<1>2. TypeOK
  BY <1>1, IdleOK DEF Init, TypeOK, Data, NoData, None
<1>3. \A c \in Caller : Locals(call[c], height, stats)
  BY IdleOK DEF Init
<1> QED
  BY <1>1, <1>2, <1>3 DEF Init, IInv, RowsAreReached, FinishedHasStats, CurrentDataIsStored,
     FollowsTheChain, NoData, None

LEMMA ChainInv ==
    ASSUME LifecycleAssumption, IInv, Advance \/ Restart PROVE IInv'
<1>1. CASE Advance
  <2>1. /\ height' = height + 1 /\ height \in Height /\ height' \in Height
        /\ UNCHANGED <<stats, status, hollow, currentEpoch, currentData, call>>
    BY <1>1 DEF Advance, database, memory, IInv, TypeOK, Height, LifecycleAssumption
  <2>2. height <= height' /\ EpochAt(height) <= EpochAt(height')
        /\ EpochAt(height) \in Nat /\ EpochAt(height') \in Nat
    BY <2>1, EpochFacts DEF Height
  <2>3. TypeOK'
    BY <2>1 DEF IInv, TypeOK
  <2>4. ASSUME NEW c \in Caller PROVE Locals(call'[c], height', stats')
    <3>1. call[c] \in Call /\ Locals(call[c], height, stats)
      BY DEF IInv, TypeOK
    <3> QED BY <2>1, <2>2, <3>1, LocalsStable
  <2>5. RowsAreReached'
    BY <2>1, <2>2 DEF IInv, RowsAreReached, Height
  <2>6. FollowsTheChain'
    <3>1. currentEpoch \in Nat /\ currentData.height \in Nat
      BY EpochFacts DEF IInv, TypeOK, Data, Epoch, Height, None
    <3> QED BY <2>1, <2>2, <3>1 DEF IInv, FollowsTheChain, Height
  <2>7. FinishedHasStats' /\ CurrentDataIsStored'
    BY <2>1, RowsStay DEF IInv
  <2> QED BY <2>3, <2>4, <2>5, <2>6, <2>7 DEF IInv
<1>2. CASE Restart
  <2>1. /\ currentEpoch' = None /\ currentData' = NoData
        /\ call' = [c \in Caller |-> Idle] /\ UNCHANGED <<height, stats, status, hollow>>
    BY <1>2 DEF Restart, database
  <2>2. TypeOK'
    BY <2>1, IdleOK DEF IInv, TypeOK, Data, NoData
  <2>3. \A c \in Caller : Locals(call'[c], height', stats')
    BY <2>1, IdleOK
  <2>4. EpochAt(height) \in Nat /\ height \in Nat
    BY EpochFacts DEF IInv, TypeOK, Height
  <2>5. FinishedHasStats' /\ CurrentDataIsStored'
    BY <2>1 DEF IInv, FinishedHasStats, HasRows, CurrentDataIsStored, NoData
  <2> QED
    BY <2>1, <2>2, <2>3, <2>4, <2>5 DEF IInv, RowsAreReached, FollowsTheChain, NoData, None
<1> QED BY <1>1, <1>2

\* get_current_epoch_stats.
LEMMA CurrentInv ==
    ASSUME LifecycleAssumption, IInv, NEW c \in Caller,
           \/ \E reload \in BOOLEAN : CallCurrent(c, reload)
           \/ StartupEpoch(c) \/ StartupLoad(c) \/ ReadHeight(c) \/ ReadEpoch(c)
           \/ IsOver(c) \/ SaveCurrent(c) \/ Publish(c) \/ CurrentFails(c)
    PROVE  IInv'
<1> DEFINE q == call[c]
<1>1. q \in Call /\ Locals(q, height, stats) /\ call \in [Caller -> Call]
  BY DEF IInv, TypeOK
<1>2. height \in Height /\ EpochAt(height) \in Epoch /\ EpochAt(height) \in Nat \ {0}
  BY EpochFacts DEF IInv, TypeOK
<1>3. ASSUME NEW pc \in {"startup", "height"}, Goto(c, pc), UNCHANGED <<height, database, memory>>
      PROVE  IInv'
  <2> DEFINE t == [q EXCEPT !.pc = pc]
  <2>1. call' = [call EXCEPT ![c] = t]
    BY <1>3 DEF Goto
  <2>2. t \in Call /\ t.pc = pc
    BY <1>1 DEF Call
  <2>3. Locals(t, height, stats)
    BY <2>2 DEF Locals, History
  <2> HIDE DEF t
  <2> QED BY <1>3, <2>1, <2>2, <2>3, LocalStep
<1>4. ASSUME NEW reload \in BOOLEAN, CallCurrent(c, reload) PROVE IInv'
  BY <1>3, <1>4 DEF CallCurrent
<1>5. CASE StartupEpoch(c)
  <2>1. CASE Goto(c, "height")
    BY <1>3, <1>5, <2>1 DEF StartupEpoch
  <2>2. CASE call' = [call EXCEPT ![c].pc = "load", ![c].epoch = EpochAt(height)]
    <3> DEFINE t == [q EXCEPT !.pc = "load", !.epoch = EpochAt(height)]
    <3>1. call' = [call EXCEPT ![c] = t]
      BY <1>1, <2>2
    <3>2. t \in Call /\ t.pc = "load" /\ t.epoch = EpochAt(height)
      BY <1>1, <1>2 DEF Call
    <3>3. Locals(t, height, stats)
      BY <1>2, <3>2 DEF Locals, History
    <3>4. UNCHANGED <<height, database, memory>>
      BY <1>5 DEF StartupEpoch
    <3> HIDE DEF t
    <3> QED BY <3>1, <3>2, <3>3, <3>4, LocalStep
  <2> QED BY <1>5, <2>1, <2>2 DEF StartupEpoch
<1>6. CASE StartupLoad(c)
  <2>1. q.pc = "load" /\ UNCHANGED <<height, stats, status, hollow>>
    BY <1>6 DEF StartupLoad, database
  <2>2. CASE call' = [call EXCEPT ![c] = [Idle EXCEPT !.pc = "height"]] /\ UNCHANGED memory
    <3> DEFINE t == [Idle EXCEPT !.pc = "height"]
    <3>1. t \in Call /\ t.pc = "height"
      BY IdleOK DEF Call, Idle
    <3>2. Locals(t, height, stats)
      BY <3>1 DEF Locals, History
    <3>3. call' = [call EXCEPT ![c] = t] /\ UNCHANGED <<height, database, memory>>
      BY <2>1, <2>2 DEF database
    <3> HIDE DEF t
    <3> QED BY <3>1, <3>2, <3>3, LocalStep
  <2>3. ASSUME NEW m \in Stored(q.epoch), NEW h \in Height, h \in Newest(q.epoch, m),
               currentData' = [epoch |-> q.epoch, height |-> h, members |-> Stored(q.epoch)],
               currentEpoch' = q.epoch, call' = [call EXCEPT ![c] = Idle]
        PROVE  IInv'
    <3>1. q.epoch \in Epoch /\ q.epoch <= EpochAt(height) /\ q.epoch # None
      BY <1>1, <2>1 DEF Locals, Epoch, None
    <3>2. m \in Members /\ <<q.epoch, h, m>> \in stats
      BY <2>3 DEF Stored, Newest
    <3>3. h <= height
      BY <3>1, <3>2 DEF IInv, RowsAreReached
    <3>4. call' \in [Caller -> Call] /\ \A d \in Caller : Locals(call'[d], height', stats')
      BY <2>1, <2>3, IdleOK, CallUpdate
    <3> HIDE DEF q
    <3>5. TypeOK'
      <4>1. currentData' \in Data
        BY <2>3, <3>1 DEF Data, Stored
      <4> QED BY <2>1, <2>3, <3>1, <3>4, <4>1 DEF IInv, TypeOK
    <3>6. CurrentDataIsStored'
      BY <2>1, <2>3, <3>2 DEF CurrentDataIsStored, Stored, HasRows
    <3>7. FinishedHasStats'
      BY <2>1 DEF IInv, FinishedHasStats, HasRows
    <3> QED
      BY <2>1, <2>3, <3>1, <3>3, <3>4, <3>5, <3>6, <3>7 DEF IInv, RowsAreReached, FollowsTheChain
  <2> QED BY <1>6, <2>2, <2>3 DEF StartupLoad
<1>7. CASE ReadHeight(c)
  <2> DEFINE t == [q EXCEPT !.pc = "epoch", !.tip = height]
  <2>1. call' = [call EXCEPT ![c] = t] /\ UNCHANGED <<height, database, memory>>
    BY <1>1, <1>7 DEF ReadHeight
  <2>2. t \in Call /\ t.pc = "epoch" /\ t.tip = height
    BY <1>1, <1>2 DEF Call
  <2>3. Locals(t, height, stats)
    BY <1>2, <2>2 DEF Locals, History, Height
  <2> HIDE DEF t
  <2> QED BY <2>1, <2>2, <2>3, LocalStep
<1>8. CASE ReadEpoch(c)
  <2> DEFINE e == EpochAt(height)
             old == IF currentEpoch = None THEN e - 1
                    ELSE IF e > currentEpoch THEN currentEpoch ELSE None
             pc == IF old = None THEN "fetch" ELSE "isOver"
             t == [q EXCEPT !.epoch = e, !.of = old, !.pc = pc]
  <2>1. q.pc = "epoch" /\ UNCHANGED <<height, database, memory>>
        /\ call' = [call EXCEPT ![c].epoch = e, ![c].of = old, ![c].pc = pc]
    BY <1>8 DEF ReadEpoch
  <2>2. old \in Epoch \cup {None}
    <3>1. currentEpoch \in Epoch \cup {None}
      BY DEF IInv, TypeOK
    <3>2. EpochAt(MaxHeight) \in Nat
      <4>1. MaxHeight \in Height
        BY DEF Height, LifecycleAssumption
      <4> QED BY <4>1, EpochFacts
    <3> HIDE DEF e
    <3>3. e \in Epoch /\ e \in Nat \ {0}
      BY <1>2 DEF e
    <3>4. e - 1 \in Epoch \cup {None}
      BY <3>2, <3>3 DEF Epoch, None
    <3> QED BY <3>1, <3>4
  <2> HIDE DEF old
  <2>3. call' = [call EXCEPT ![c] = t]
    BY <1>1, <2>1
  <2>4. t \in Call /\ t.pc = pc /\ t.epoch = e /\ t.of = old /\ t.tip = q.tip
    BY <1>1, <1>2, <2>2 DEF Call
  <2>5. WasRead(t, height)
    BY <1>1, <1>2, <2>1, <2>4 DEF WasRead, Locals
  <2> HIDE DEF t
  <2>6. Locals(t, height, stats)
    <3>1. CASE old = None
      <4>1. t.pc = "fetch"
        BY <2>4, <3>1
      <4> QED BY <2>5, <4>1 DEF Locals, History
    <3>2. CASE old # None
      <4>1. t.pc = "isOver" /\ t.of \in Epoch
        BY <2>2, <2>4, <3>2
      <4> QED BY <2>5, <4>1 DEF Locals, History
    <3> QED BY <3>1, <3>2
  <2> QED BY <2>1, <2>3, <2>4, <2>6, LocalStep
<1>9. CASE IsOver(c)
  <2> DEFINE pc == IF status[call[c].of] # None THEN "fetch" ELSE "isFinished"
             t == [q EXCEPT !.pc = pc]
  <2>1. q.pc = "isOver" /\ UNCHANGED <<height, database, memory>> /\ call' = [call EXCEPT ![c] = t]
    BY <1>9 DEF IsOver, Goto
  <2>2. pc \in {"fetch", "isFinished"}
    OBVIOUS
  <2> HIDE DEF pc
  <2>3. t \in Call /\ t.pc = pc /\ t.epoch = q.epoch /\ t.of = q.of /\ t.tip = q.tip
    BY <1>1, <2>2 DEF Call
  <2>4. Locals(t, height, stats)
    BY <1>1, <2>1, <2>2, <2>3 DEF Locals, History, WasRead
  <2> HIDE DEF t
  <2> QED BY <2>1, <2>3, <2>4, LocalStep
<1>10. CASE SaveCurrent(c)
  <2>1. PICK batch \in SUBSET Members :
          /\ stats' = stats \cup {<<q.epoch, q.tip, m>> : m \in batch}
          /\ call' = [call EXCEPT ![c].pc = "publish", ![c].batch = batch]
    BY <1>10 DEF SaveCurrent, Gathered
  <2> DEFINE t == [q EXCEPT !.pc = "publish", !.batch = batch]
  <2>2. /\ q.pc = "fetch" /\ UNCHANGED <<height, status, hollow, currentEpoch, currentData>>
        /\ call' = [call EXCEPT ![c] = t]
    BY <1>1, <1>10, <2>1 DEF SaveCurrent, memory
  <2>3. WasRead(q, height)
    BY <1>1, <2>2 DEF Locals
  <2>4. t \in Call /\ t.pc = "publish" /\ t.epoch = q.epoch /\ t.tip = q.tip /\ t.batch = batch
    BY <1>1 DEF Call
  <2> HIDE DEF t
  <2>5. \A m \in batch : <<q.epoch, q.tip, m>> \in stats'
    BY <2>1
  <2>6. Locals(t, height, stats')
    BY <2>3, <2>4, <2>5 DEF Locals, History, WasRead
  <2>7. call' \in [Caller -> Call] /\ \A d \in Caller : Locals(call'[d], height', stats')
    BY <2>1, <2>2, <2>4, <2>6, CallUpdate
  <2>8. q.epoch \in Epoch /\ q.tip \in Height /\ q.tip <= height
    BY <2>3 DEF WasRead
  <2> HIDE DEF q
  <2>9. TypeOK' /\ RowsAreReached'
    <3>1. stats' \subseteq Epoch \X Height \X Members
      BY <2>1, <2>8 DEF IInv, TypeOK
    <3>2. RowsAreReached'
      BY <2>1, <2>2, <2>8 DEF IInv, RowsAreReached
    <3> QED BY <2>2, <2>7, <3>1, <3>2 DEF IInv, TypeOK
  <2>10. FinishedHasStats' /\ CurrentDataIsStored'
    BY <2>1, <2>2, RowsStay DEF IInv
  <2> QED BY <2>2, <2>7, <2>9, <2>10 DEF IInv, FollowsTheChain
<1>11. CASE Publish(c)
  <2>1. /\ q.pc = "publish" /\ currentEpoch' = q.epoch
        /\ currentData' = [epoch |-> q.epoch, height |-> q.tip, members |-> q.batch]
        /\ call' = [call EXCEPT ![c] = Idle] /\ UNCHANGED <<height, stats, status, hollow>>
    BY <1>11 DEF Publish, Response, database
  <2>2. /\ WasRead(q, height) /\ q.epoch # None /\ q.batch \subseteq Members
        /\ \A m \in q.batch : <<q.epoch, q.tip, m>> \in stats
    BY <1>1, <2>1 DEF Locals, WasRead, Epoch, None, Call
  <2>3. call' \in [Caller -> Call] /\ \A d \in Caller : Locals(call'[d], height', stats')
    BY <2>1, IdleOK, CallUpdate
  <2> HIDE DEF q
  <2>4. TypeOK'
    <3>1. currentData' \in Data
      BY <2>1, <2>2 DEF Data, WasRead
    <3> QED BY <2>1, <2>2, <2>3, <3>1 DEF IInv, TypeOK, WasRead
  <2>5. CurrentDataIsStored'
    BY <2>1, <2>2 DEF CurrentDataIsStored, Stored, HasRows, WasRead
  <2>6. FinishedHasStats'
    BY <2>1 DEF IInv, FinishedHasStats, HasRows
  <2> QED
    BY <2>1, <2>2, <2>3, <2>4, <2>5, <2>6 DEF IInv, RowsAreReached, FollowsTheChain, WasRead
<1>12. CASE CurrentFails(c)
  BY <1>12, IdleOK, LocalStep DEF CurrentFails
<1> QED
  BY <1>4, <1>5, <1>6, <1>7, <1>8, <1>9, <1>10, <1>11, <1>12

\* get_historical_epoch_stats.
LEMMA HistoryInv ==
    ASSUME LifecycleAssumption, IInv, NEW c \in Caller,
           \/ \E e \in Epoch, h \in AskedHeights \cup {None} : CallHistory(c, e, h)
           \/ ReadFinished(c) \/ ReadLatest(c) \/ StoreLatest(c) \/ TipCurrent(c)
           \/ Boundary(c) \/ TipPast(c) \/ Lookup(c) \/ SavePast(c) \/ MarkEpochFinished(c) \/ HistoryFails(c)
    PROVE  IInv'
<1> DEFINE q == call[c]
<1>1. q \in Call /\ Locals(q, height, stats) /\ call \in [Caller -> Call]
  BY DEF IInv, TypeOK
<1>2. height \in Height /\ EpochAt(height) \in Epoch /\ EpochAt(height) \in Nat \ {0}
  BY EpochFacts DEF IInv, TypeOK
<1>3. height \in Target
  BY <1>2 DEF Height, Target, LifecycleAssumption
\* A step that goes on inside the function with the same epochs.
<1>4. ASSUME q.pc \in History, NEW t \in Call, t.pc \in History \ {"mark", "store"},
             t.epoch = q.epoch, t.tip = q.tip, t.of = q.of, NEW st
      PROVE  Locals(t, height, st)
  BY <1>1, <1>4 DEF Locals, History, WasRead
<1>5. ASSUME NEW e \in Epoch, NEW h \in AskedHeights \cup {None}, CallHistory(c, e, h) PROVE IInv'
  <2> DEFINE t == [Idle EXCEPT !.pc = "isFinished", !.of = e, !.asked = h]
  <2>1. call' = [call EXCEPT ![c] = t] /\ UNCHANGED <<height, database, memory>>
    BY <1>5 DEF CallHistory
  <2>2. h \in Height \cup {None}
    BY DEF LifecycleAssumption, Height
  <2>3. t \in Call /\ t.pc = "isFinished" /\ t.of = e /\ t.epoch = None
    BY <2>2, IdleOK DEF Call, Idle
  <2>4. Locals(t, height, stats)
    BY <2>3 DEF Locals, History
  <2> HIDE DEF t
  <2> QED BY <2>1, <2>3, <2>4, LocalStep
<1>6. CASE ReadFinished(c)
  <2> DEFINE pc == IF currentEpoch = None THEN "latest" ELSE IsCurrent(call[c].of, currentEpoch)
             b == status[call[c].of] # None
             t == [q EXCEPT !.wasFinished = b, !.pc = pc]
  <2>1. q.pc = "isFinished" /\ UNCHANGED <<height, database, memory>>
        /\ call' = [call EXCEPT ![c] = t]
    BY <1>1, <1>6 DEF ReadFinished
  <2>2. pc \in {"latest", "tipCurrent", "boundary"} /\ b \in BOOLEAN
    BY DEF IsCurrent
  <2> HIDE DEF pc, b
  <2>3. t \in Call /\ t.pc = pc /\ t.epoch = q.epoch /\ t.tip = q.tip /\ t.of = q.of
    BY <1>1, <2>2 DEF Call
  <2> HIDE DEF t
  <2>4. Locals(t, height, stats)
    BY <1>4, <2>1, <2>2, <2>3 DEF History
  <2> QED BY <2>1, <2>3, <2>4, LocalStep
<1>7. CASE ReadLatest(c)
  <2> DEFINE t == [q EXCEPT !.pc = "store", !.latest = EpochAt(height), !.target = StandIn]
  <2>1. q.pc = "latest" /\ UNCHANGED <<height, database, memory>>
        /\ call' = [call EXCEPT ![c] = t]
    BY <1>1, <1>7 DEF ReadLatest
  <2>2. StandIn \in Target
    BY <1>2, TargetFacts DEF StandIn
  <2>3. /\ t \in Call /\ t.pc = "store" /\ t.epoch = q.epoch /\ t.tip = q.tip /\ t.of = q.of
        /\ t.latest = EpochAt(height)
    BY <1>1, <1>2, <2>2 DEF Call
  <2> HIDE DEF t
  <2>4. Locals(t, height, stats)
    BY <1>1, <1>2, <2>1, <2>3 DEF Locals, History, WasRead
  <2> QED BY <2>1, <2>3, <2>4, LocalStep
<1>8. CASE StoreLatest(c)
  <2> DEFINE pc == IsCurrent(call[c].of, q.latest)
             t == [q EXCEPT !.pc = pc, !.latest = None]
  <2>1. /\ q.pc = "store" /\ currentEpoch' = q.latest
        /\ UNCHANGED <<height, stats, status, hollow, currentData>>
        /\ call' = [call EXCEPT ![c] = t]
    BY <1>1, <1>8 DEF StoreLatest, database
  <2>2. /\ pc \in {"tipCurrent", "boundary"}
        /\ q.latest \in Epoch /\ q.latest <= EpochAt(height)
    BY <1>1, <2>1 DEF IsCurrent, Locals
  <2> HIDE DEF pc
  <2>3. t \in Call /\ t.pc = pc /\ t.epoch = q.epoch /\ t.tip = q.tip /\ t.of = q.of
    BY <1>1, <2>2 DEF Call
  <2> HIDE DEF t
  <2>4. Locals(t, height, stats')
    BY <1>4, <2>1, <2>2, <2>3 DEF History
  <2>5. call' \in [Caller -> Call] /\ \A d \in Caller : Locals(call'[d], height', stats')
    BY <2>1, <2>3, <2>4, CallUpdate
  <2>6. TypeOK'
    BY <2>1, <2>2, <2>5 DEF IInv, TypeOK
  <2>7. FinishedHasStats' /\ CurrentDataIsStored'
    BY <2>1, RowsStay DEF IInv
  <2>8. q.latest # None
    BY <2>2 DEF Epoch, None
  <2> QED
    BY <2>1, <2>2, <2>5, <2>6, <2>7, <2>8 DEF IInv, RowsAreReached, FollowsTheChain
<1>9. CASE TipCurrent(c)
  <2> DEFINE target == IF call[c].asked # None THEN call[c].asked ELSE height
             t == [q EXCEPT !.pc = "lookup", !.target = target]
  <2>1. q.pc = "tipCurrent" /\ UNCHANGED <<height, database, memory>>
        /\ call' = [call EXCEPT ![c] = t]
    BY <1>1, <1>9 DEF TipCurrent
  <2>2. target \in Target
    BY <1>1, <1>3 DEF Call, Height, None, Target, LifecycleAssumption
  <2> HIDE DEF target
  <2>3. t \in Call /\ t.pc = "lookup" /\ t.epoch = q.epoch /\ t.tip = q.tip /\ t.of = q.of
    BY <1>1, <2>2 DEF Call
  <2> HIDE DEF t
  <2>4. Locals(t, height, stats)
    BY <1>4, <2>1, <2>3 DEF History
  <2> QED BY <2>1, <2>3, <2>4, LocalStep
<1>10. CASE Boundary(c)
  <2>1. q.pc = "boundary" /\ UNCHANGED <<height, database, memory>>
    BY <1>10 DEF Boundary
  <2>2. q.of \in Epoch
    BY <1>1, <2>1 DEF Locals, History
  <2>3. PICK target \in Target :
          call' = [call EXCEPT ![c].pc = "tipPast", ![c].target = target]
    <3> DEFINE standIn == IF call[c].target # 0 THEN call[c].target ELSE StandIn
    <3>1. standIn \in Target
      BY <1>1, <1>2, TargetFacts DEF StandIn, Call
    <3> HIDE DEF standIn
    <3>2. \/ /\ q.of + 1 <= EpochAt(height)
             /\ call' = [call EXCEPT ![c].pc = "tipPast", ![c].target = Canonical(q.of)]
          \/ call' = [call EXCEPT ![c].pc = "tipPast", ![c].target = standIn]
      BY <1>10 DEF Boundary, standIn
    <3> QED BY <1>2, <2>2, <3>1, <3>2, TargetFacts
  <2> DEFINE t == [q EXCEPT !.pc = "tipPast", !.target = target]
  <2>4. call' = [call EXCEPT ![c] = t]
    BY <1>1, <2>3
  <2>5. t \in Call /\ t.pc = "tipPast" /\ t.epoch = q.epoch /\ t.tip = q.tip /\ t.of = q.of
    BY <1>1 DEF Call
  <2> HIDE DEF t
  <2>6. Locals(t, height, stats)
    BY <1>4, <2>1, <2>5 DEF History
  <2> QED BY <2>1, <2>4, <2>5, <2>6, LocalStep
<1>11. CASE TipPast(c)
  <2> DEFINE canonical == Lower(call[c].target, height)
             target == IF q.asked = None \/ q.asked >= canonical THEN canonical ELSE q.asked
             t == [q EXCEPT !.pc = "lookup", !.target = target]
  <2>1. q.pc = "tipPast" /\ UNCHANGED <<height, database, memory>>
        /\ \/ call' = [call EXCEPT ![c] = Done(c)]
           \/ call' = [call EXCEPT ![c] = t]
    BY <1>1, <1>11 DEF TipPast
  <2>2. canonical \in Target
    BY <1>1, <1>3 DEF Lower, Call
  <2> HIDE DEF canonical
  <2>3. target \in Target
    BY <1>1, <2>2 DEF Call, Height, None, Target, LifecycleAssumption
  <2> HIDE DEF target
  <2>4. t \in Call /\ t.pc = "lookup" /\ t.epoch = q.epoch /\ t.tip = q.tip /\ t.of = q.of
    BY <1>1, <2>3 DEF Call
  <2> HIDE DEF t
  <2>5. Locals(t, height, stats)
    BY <1>4, <2>1, <2>4 DEF History
  <2>6. Done(c) \in Call /\ Locals(Done(c), height, stats)
    BY <2>1, DoneOK DEF History
  <2> QED BY <2>1, <2>4, <2>5, <2>6, LocalStep
<1>12. CASE Lookup(c)
  <2> DEFINE t == [q EXCEPT !.pc = "fetchPast"]
             m == [q EXCEPT !.pc = "mark"]
  <2>1. q.pc = "lookup" /\ UNCHANGED <<height, database, memory>>
        /\ \/ call' = [call EXCEPT ![c] = t]
           \/ call' = [call EXCEPT ![c] = Done(c)]
           \/ HasRows(q.of, q.target) /\ call' = [call EXCEPT ![c] = m]
    BY <1>12 DEF Lookup
  <2>2. t \in Call /\ t.pc = "fetchPast" /\ t.epoch = q.epoch /\ t.tip = q.tip /\ t.of = q.of
    BY <1>1 DEF Call
  <2>3. /\ m \in Call /\ m.pc = "mark" /\ m.epoch = q.epoch /\ m.tip = q.tip /\ m.of = q.of
        /\ m.target = q.target
    BY <1>1 DEF Call
  <2> HIDE DEF t, m
  <2>4. Locals(t, height, stats)
    BY <1>4, <2>1, <2>2 DEF History
  <2>5. ASSUME HasRows(q.of, q.target) PROVE Locals(m, height, stats)
    <3>1. PICK a \in Members : <<q.of, q.target, a>> \in stats
      BY <2>5 DEF HasRows
    <3>2. q.target \in Height
      BY <3>1 DEF IInv, TypeOK
    <3>3. q.of \in Epoch /\ (q.epoch # None => WasRead(q, height))
      BY <1>1, <2>1 DEF Locals, History
    <3> QED BY <2>3, <3>1, <3>2, <3>3 DEF Locals, History, WasRead
  <2>6. Done(c) \in Call /\ Locals(Done(c), height, stats)
    BY <2>1, DoneOK DEF History
  <2> QED BY <2>1, <2>2, <2>3, <2>4, <2>5, <2>6, LocalStep
<1>13. CASE SavePast(c)
  <2>1. PICK batch \in SUBSET Members :
          /\ stats' = stats \cup {<<q.of, q.target, m>> : m \in batch}
          /\ \/ call' = [call EXCEPT ![c] = [q EXCEPT !.pc = "mark", !.nobody = (batch = {})]]
             \/ call' = [call EXCEPT ![c] = Done(c)]
    BY <1>13 DEF SavePast, Gathered
  <2> DEFINE m == [q EXCEPT !.pc = "mark", !.nobody = (batch = {})]
  <2>2. /\ q.pc = "fetchPast" /\ q.target \in 1..height
        /\ UNCHANGED <<height, status, hollow, currentEpoch, currentData>>
    BY <1>13 DEF SavePast, memory
  <2>3. /\ m \in Call /\ m.pc = "mark" /\ m.epoch = q.epoch /\ m.tip = q.tip /\ m.of = q.of
        /\ m.target = q.target /\ m.nobody = (batch = {})
    BY <1>1 DEF Call
  <2>4. q.of \in Epoch /\ q.target \in Height /\ q.target <= height
    BY <1>1, <1>2, <2>2 DEF Locals, History, Height
  <2>5. Locals(m, height, stats')
    <3>1. m.nobody \/ \E a \in Members : <<q.of, q.target, a>> \in stats'
      BY <2>1, <2>3
    <3>2. q.epoch # None => WasRead(q, height)
      BY <1>1, <2>2 DEF Locals, History
    <3> HIDE DEF m
    <3> QED BY <2>3, <2>4, <3>1, <3>2 DEF Locals, History, WasRead
  <2>6. Done(c) \in Call /\ Locals(Done(c), height, stats')
    BY <2>2, DoneOK DEF History
  <2>7. call' = [call EXCEPT ![c] = m] \/ call' = [call EXCEPT ![c] = Done(c)]
    BY <2>1
  <2> HIDE DEF m
  <2>8. call' \in [Caller -> Call] /\ \A d \in Caller : Locals(call'[d], height', stats')
    BY <2>1, <2>2, <2>3, <2>5, <2>6, <2>7, CallUpdate
  <2> HIDE DEF q
  <2>9. TypeOK' /\ RowsAreReached'
    <3>1. stats' \subseteq Epoch \X Height \X Members
      BY <2>1, <2>4 DEF IInv, TypeOK
    <3>2. RowsAreReached'
      BY <2>1, <2>2, <2>4 DEF IInv, RowsAreReached
    <3> QED BY <2>2, <2>8, <3>1, <3>2 DEF IInv, TypeOK
  <2>10. FinishedHasStats' /\ CurrentDataIsStored'
    BY <2>1, <2>2, RowsStay DEF IInv
  <2> QED BY <2>2, <2>8, <2>9, <2>10 DEF IInv, FollowsTheChain
<1>14. CASE MarkEpochFinished(c)
  <2>1. /\ q.pc = "mark" /\ status' = [status EXCEPT ![q.of] = q.target]
        /\ hollow' = IF q.nobody THEN hollow \cup {q.of} ELSE hollow \ {q.of}
        /\ call' = [call EXCEPT ![c] = Done(c)]
        /\ UNCHANGED <<height, stats, currentEpoch, currentData>>
    BY <1>14 DEF MarkEpochFinished, memory
  <2>2. /\ q.of \in Epoch /\ q.target \in Height
        /\ q.nobody \/ HasRows(q.of, q.target)
    BY <1>1, <2>1 DEF Locals, History, HasRows
  <2>3. call' \in [Caller -> Call] /\ \A d \in Caller : Locals(call'[d], height', stats')
    BY <2>1, DoneOK, CallUpdate DEF History
  <2>4. PICK of \in Epoch, target \in Height : of = q.of /\ target = q.target
    BY <2>2
  <2> HIDE DEF q
  <2>5. TypeOK'
    BY <2>1, <2>2, <2>3 DEF IInv, TypeOK
  <2>6. FinishedHasStats'
    <3> SUFFICES ASSUME NEW e \in Epoch, status'[e] # None
                 PROVE  (HasRows(e, status[e]) \/ e \in hollow)'
      BY DEF FinishedHasStats
    <3>1. CASE e = of
      <4>1. status'[e] = target
        BY <2>1, <2>4, <3>1 DEF IInv, TypeOK
      <4>2. HasRows(of, target) \/ e \in hollow'
        BY <2>1, <2>2, <2>4, <3>1
      <4> QED BY <2>1, <3>1, <4>1, <4>2 DEF HasRows
    <3>2. CASE e # of
      <4>1. status'[e] = status[e] /\ (e \in hollow => e \in hollow')
        BY <2>1, <2>4, <3>2 DEF IInv, TypeOK
      <4>2. HasRows(e, status[e]) \/ e \in hollow
        BY <4>1 DEF IInv, FinishedHasStats
      <4> QED BY <2>1, <4>1, <4>2 DEF HasRows
    <3> QED BY <3>1, <3>2
  <2>7. CurrentDataIsStored'
    BY <2>1 DEF IInv, CurrentDataIsStored, Stored, HasRows
  <2> QED BY <2>1, <2>3, <2>5, <2>6, <2>7 DEF IInv, RowsAreReached, FollowsTheChain
<1>15. CASE HistoryFails(c)
  <2>1. q.pc \in History /\ call' = [call EXCEPT ![c] = Done(c)]
        /\ UNCHANGED <<height, database, memory>>
    BY <1>15 DEF HistoryFails, History
  <2> QED BY <2>1, DoneOK, LocalStep
<1> QED
  BY <1>5, <1>6, <1>7, <1>8, <1>9, <1>10, <1>11, <1>12, <1>13, <1>14, <1>15

LEMMA StepInv ==
    ASSUME LifecycleAssumption, IInv, [Next]_vars PROVE IInv'
<1>1. CASE Next
  BY <1>1, ChainInv, CurrentInv, HistoryInv DEF Next, Poll, Visit, Step, Caller
<1>2. CASE UNCHANGED vars
  <2>1. UNCHANGED <<height, stats, status, hollow, currentEpoch, currentData, call>>
    BY <1>2 DEF vars
  <2>2. FinishedHasStats' /\ CurrentDataIsStored'
    BY <2>1, RowsStay DEF IInv
  <2> QED BY <2>1, <2>2 DEF IInv, TypeOK, RowsAreReached, FollowsTheChain
<1> QED BY <1>1, <1>2

-----------------------------------------------------------------------------
\* The invariant holds in every reachable state of every instance.
THEOREM Invariant == Spec => []IInv
<1>1. Init => IInv
  BY InitInv, LifecycleAssumption
<1>2. IInv /\ [Next]_vars => IInv'
  BY StepInv, LifecycleAssumption
<1> QED BY <1>1, <1>2, PTL DEF Spec

\* The tables, the memory and the locals of the coroutines keep their types.
THEOREM TypeCorrect == Spec => []TypeOK
<1>1. IInv => TypeOK
  BY DEF IInv
<1> QED BY <1>1, Invariant, PTL

\* save_stats_batch before mark_epoch_finished: no crash, failure or overlap of
\* callers leaves a finished epoch without statistics at its finish height,
\* unless the call that marked it had itself found nobody to store.
THEOREM FinishedEpochsHaveStats == Spec => []FinishedHasStats
<1>1. IInv => FinishedHasStats
  BY DEF IInv
<1> QED BY <1>1, Invariant, PTL

\* Every participant served from memory as current has rows in the database,
\* whichever participants a fetch had to leave out.
THEOREM ServedDataIsStored == Spec => []CurrentDataIsStored
<1>1. IInv => CurrentDataIsStored
  BY DEF IInv
<1> QED BY <1>1, Invariant, PTL

\* No order of answers lets the service report an epoch or a height that the
\* chain has not reached.
THEOREM NeverAheadOfTheChain == Spec => []FollowsTheChain
<1>1. IInv => FollowsTheChain
  BY DEF IInv
<1> QED BY <1>1, Invariant, PTL
=============================================================================
