--------------------------- MODULE Batcher_proofs ---------------------------
(***************************************************************************)
(* Theorems about Batcher, for every set of satellites, every row cap and  *)
(* every choice of failures.                                               *)
(*                                                                         *)
(* BatcherInv is the inductive invariant.  Two of its parts are there only *)
(* for the induction: a buffer holds rows of its own partition that were   *)
(* appended, and the record in hand may follow the rows appended so far.   *)
(***************************************************************************)
EXTENDS Batcher, FiniteSetTheorems, TLAPS

BuffersOwnTheirRows ==
  \A k \in Partitions : \A r \in buffers[k].rows :
    PartitionOf(r) = k /\ r \in appended

InHandMayFollow == bpc = "accept" => MayFollow(appended, inHand)

BatcherInv ==
  /\ BatcherTypeOK
  /\ IsFiniteSet(appended)
  /\ BuffersOwnTheirRows
  /\ InHandMayFollow
  /\ PartitionPurity
  /\ NoRowDropped
  /\ OnlyLateRowsBehind

-----------------------------------------------------------------------------
(* Records, partitions and the store *)

LEMMA RecordFacts ==
  ASSUME NEW r \in Records
  PROVE  /\ r.id \in Nat /\ r.sat \in Sats /\ r.hour \in Hours /\ r.hour \in Nat
         /\ PartitionOf(r) \in Partitions
         /\ PartitionOf(r).sat = r.sat /\ PartitionOf(r).hour = r.hour
<1>1. r.id \in 1..MaxRecords /\ r.sat \in Sats /\ r.hour \in Hours
  BY DEF Records
<1>2. r.id \in Nat
  BY <1>1
<1>3. r.hour \in Nat
  BY <1>1, ArchiveAssumption, Zenon
<1> QED BY <1>1, <1>2, <1>3 DEF Partitions, PartitionOf

LEMMA PartitionFacts ==
  ASSUME NEW k \in Partitions
  PROVE  k.sat \in Sats /\ k.hour \in Nat
  BY ArchiveAssumption DEF Partitions

\* A put keeps the bucket a store, and adds its rows under its key.
LEMMA PutFacts ==
  ASSUME NEW s, IsStore(s), NEW key \in ObjectKeys, NEW rows \in SUBSET Records
  PROVE  /\ IsStore(Put(s, key, rows))
         /\ DOMAIN Put(s, key, rows) = DOMAIN s \cup {key}
         /\ Put(s, key, rows)[key] = rows
         /\ \A f \in DOMAIN s : f # key => Put(s, key, rows)[f] = s[f]
  BY DEF IsStore, Put

LEMMA RowsAreFinite ==
  ASSUME BatcherInv, NEW k \in Partitions
  PROVE  /\ buffers[k] \in [rows : SUBSET Records, part : Nat]
         /\ IsFiniteSet(buffers[k].rows)
         /\ Cardinality(buffers[k].rows) \in Nat
<1>1. buffers[k].rows \subseteq appended
  BY DEF BatcherInv, BuffersOwnTheirRows
<1>2. IsFiniteSet(buffers[k].rows)
  BY <1>1, FS_Subset DEF BatcherInv
<1> QED BY <1>2, FS_CardinalityType DEF BatcherInv, BatcherTypeOK

-----------------------------------------------------------------------------
(* The two halves of _flush_buffer *)

LEMMA WriteKeeps ==
  ASSUME BatcherInv, NEW k \in Partitions, WriteBuffer(k)
  PROVE  /\ IsStore(store') /\ everPut' \subseteq Records
         /\ PartitionPurity'
         /\ everPut \cup buffers[k].rows = everPut'
<1>1. <<k, buffers[k].part>> \in ObjectKeys /\ buffers[k].rows \in SUBSET Records
  BY RowsAreFinite DEF ObjectKeys
<1>2. IsStore(store) /\ everPut \subseteq Records
  BY DEF BatcherInv, BatcherTypeOK
<1>3. IsStore(store')
  BY <1>1, <1>2, PutFacts DEF WriteBuffer
<1>4. PartitionPurity'
  <2> DEFINE key == <<k, buffers[k].part>>
  <2> SUFFICES ASSUME NEW f \in DOMAIN store', NEW r \in store'[f]
               PROVE  PartitionOf(r) = f[1]
    BY DEF PartitionPurity
  <2>1. /\ DOMAIN store' = DOMAIN store \cup {key}
        /\ store'[key] = buffers[k].rows
        /\ \A g \in DOMAIN store : g # key => store'[g] = store[g]
    BY DEF WriteBuffer, Put
  <2>2. key[1] = k
    OBVIOUS
  <2>3. CASE f = key
    <3>1. r \in buffers[k].rows
      BY <2>1, <2>3
    <3> QED BY <2>2, <2>3, <3>1 DEF BatcherInv, BuffersOwnTheirRows
  <2>4. CASE f # key
    <3>1. f \in DOMAIN store /\ r \in store[f]
      BY <2>1, <2>4
    <3> QED BY <3>1 DEF BatcherInv, PartitionPurity
  <2> QED BY <2>3, <2>4
<1> QED BY <1>1, <1>2, <1>3, <1>4 DEF WriteBuffer

LEMMA FlushKeeps ==
  ASSUME BatcherInv, NEW k \in Partitions, FlushBuffer(k), appended' = appended
  PROVE  /\ buffers' \in [Partitions -> [rows : SUBSET Records, part : Nat]]
         /\ stats' \in [rowsBuffered : Nat, rowsFlushed : Nat, filesWritten : Nat]
         /\ BuffersOwnTheirRows' /\ NoRowDropped' /\ OnlyLateRowsBehind'
<1> USE DEF FlushBuffer
<1>1. \A j \in Partitions : buffers'[j] = IF j = k THEN EmptyBuffer ELSE buffers[j]
  BY DEF BatcherInv, BatcherTypeOK
<1>2. \A j \in Partitions : buffers'[j].rows = IF j = k THEN {} ELSE buffers[j].rows
  BY <1>1 DEF EmptyBuffer
<1>3. buffers' \in [Partitions -> [rows : SUBSET Records, part : Nat]]
  BY <1>1 DEF BatcherInv, BatcherTypeOK, EmptyBuffer
<1>4. stats' \in [rowsBuffered : Nat, rowsFlushed : Nat, filesWritten : Nat]
  <2>1. Cardinality(buffers[k].rows) \in Nat
    BY RowsAreFinite
  <2>2. stats \in [rowsBuffered : Nat, rowsFlushed : Nat, filesWritten : Nat]
    BY DEF BatcherInv, BatcherTypeOK
  <2>3. stats' = [rowsBuffered |-> stats.rowsBuffered,
                  rowsFlushed  |-> stats.rowsFlushed + Cardinality(buffers[k].rows),
                  filesWritten |-> stats.filesWritten + 1]
    BY <2>2
  <2> QED BY <2>1, <2>2, <2>3
<1>5. BuffersOwnTheirRows'
  BY <1>2 DEF BatcherInv, BuffersOwnTheirRows
<1>6. NoRowDropped'
  <2> SUFFICES ASSUME NEW r \in appended, r \notin everPut' PROVE r \in Held'
    BY DEF NoRowDropped
  <2>1. r \notin everPut /\ r \notin buffers[k].rows
    BY WriteKeeps
  <2>2. PICK j \in Partitions : r \in buffers[j].rows
    BY <2>1 DEF BatcherInv, NoRowDropped, Held
  <2> QED BY <1>2, <2>1, <2>2 DEF Held
<1>7. OnlyLateRowsBehind'
  BY <1>2 DEF BatcherInv, OnlyLateRowsBehind
<1> QED BY <1>3, <1>4, <1>5, <1>6, <1>7

-----------------------------------------------------------------------------
(* One lemma per action *)

LEMMA AcceptKeeps ==
  ASSUME BatcherInv, NEW r \in Records, Accept(r)
  PROVE  BatcherInv'
<1> USE DEF Accept, AcceptCall
<1>1. BatcherTypeOK'
  BY BatcherAssumption DEF BatcherInv, BatcherTypeOK
<1>2. InHandMayFollow'
  BY DEF InHandMayFollow, MayFollow
<1> QED
  BY <1>1, <1>2
  DEF BatcherInv, BuffersOwnTheirRows, PartitionPurity, NoRowDropped, Held,
      OnlyLateRowsBehind

\* A flush inside a call leaves the call where it is, or ends an accept().
LEMMA FlushStepKeeps ==
  ASSUME BatcherInv, NEW k \in Partitions, FlushBuffer(k), appended' = appended,
         \/ bpc' = bpc /\ inHand' = inHand
         \/ bpc' = "idle" /\ inHand' = NoRecord
  PROVE  BatcherInv'
<1>1. WriteBuffer(k)
  BY DEF FlushBuffer
<1>2. BatcherTypeOK'
  BY <1>1, FlushKeeps, WriteKeeps DEF BatcherInv, BatcherTypeOK
<1>3. InHandMayFollow'
  BY DEF BatcherInv, InHandMayFollow, MayFollow
<1> QED
  BY <1>1, <1>2, <1>3, FlushKeeps, WriteKeeps DEF BatcherInv

LEMMA CapFlushKeeps ==
  ASSUME BatcherInv, CapFlush
  PROVE  BatcherInv'
<1>1. inHand \in Records
  BY DEF CapFlush, BatcherInv, BatcherTypeOK
<1> QED BY <1>1, RecordFacts, FlushStepKeeps DEF CapFlush

LEMMA SinkRaisesKeeps ==
  ASSUME BatcherInv, NEW k \in Partitions, SinkRaises(k)
  PROVE  BatcherInv'
<1> USE DEF SinkRaises
<1>1. CASE WriteBuffer(k)
  <2>1. BatcherTypeOK'
    BY <1>1, WriteKeeps DEF BatcherInv, BatcherTypeOK
  <2>2. NoRowDropped'
    BY <1>1, WriteKeeps DEF BatcherInv, NoRowDropped, Held
  <2> QED
    BY <1>1, <2>1, <2>2, WriteKeeps
    DEF BatcherInv, BuffersOwnTheirRows, InHandMayFollow, OnlyLateRowsBehind
<1>2. CASE UNCHANGED <<store, everPut>>
  BY <1>2
  DEF BatcherInv, BatcherTypeOK, BuffersOwnTheirRows, InHandMayFollow,
      PartitionPurity, NoRowDropped, Held, OnlyLateRowsBehind
<1> QED BY <1>1, <1>2

LEMMA AppendRowKeeps ==
  ASSUME BatcherInv, AppendRow
  PROVE  BatcherInv'
<1> DEFINE r == inHand
           p == PartitionOf(inHand)
<1>1. r \in Records /\ p \in Partitions /\ p.sat = r.sat /\ p.hour = r.hour
  BY RecordFacts DEF AppendRow, BatcherInv, BatcherTypeOK
<1>2. /\ buffers' = [buffers EXCEPT ![p].rows = buffers[p].rows \cup {r}]
      /\ appended' = appended \cup {r}
      /\ store' = store /\ everPut' = everPut
      /\ bpc = "accept"
      /\ \/ bpc' = "cap" /\ inHand' = r
         \/ bpc' = "idle" /\ inHand' = NoRecord
  BY DEF AppendRow
<1> HIDE DEF r, p
<1>3. \A k \in Partitions :
        buffers'[k].rows = IF k = p THEN buffers[k].rows \cup {r} ELSE buffers[k].rows
  BY <1>1, <1>2 DEF BatcherInv, BatcherTypeOK
<1>4. BatcherTypeOK'
  <2>1. buffers' \in [Partitions -> [rows : SUBSET Records, part : Nat]]
    BY <1>1, <1>2 DEF BatcherInv, BatcherTypeOK
  <2>2. stats' \in [rowsBuffered : Nat, rowsFlushed : Nat, filesWritten : Nat]
    BY DEF AppendRow, BatcherInv, BatcherTypeOK
  <2> QED
    BY <1>1, <1>2, <2>1, <2>2, BatcherAssumption DEF BatcherInv, BatcherTypeOK
<1>5. IsFiniteSet(appended')
  BY <1>2, FS_AddElement DEF BatcherInv
<1>6. BuffersOwnTheirRows'
  BY <1>1, <1>2, <1>3 DEF BatcherInv, BuffersOwnTheirRows, p, r
<1>7. InHandMayFollow'
  BY <1>2 DEF InHandMayFollow
<1>8. PartitionPurity'
  BY <1>2 DEF BatcherInv, PartitionPurity
<1>9. NoRowDropped'
  <2>1. r \in Held'
    BY <1>1, <1>3 DEF Held
  <2>2. Held \subseteq Held'
    BY <1>3 DEF Held
  <2> QED BY <1>2, <2>1, <2>2 DEF BatcherInv, NoRowDropped
<1>10. OnlyLateRowsBehind'
  <2> SUFFICES ASSUME NEW k \in Partitions, NEW q \in buffers'[k].rows,
                      NEW s \in appended', s.sat = k.sat, s.hour > k.hour
               PROVE  q.id > s.id
    BY DEF OnlyLateRowsBehind
  <2>1. \A t \in appended : t.id < r.id
    BY <1>2 DEF BatcherInv, InHandMayFollow, MayFollow, r
  <2>2. q \in Records /\ s \in Records
    BY <1>1, <1>2, <1>3 DEF BatcherInv, BatcherTypeOK
  <2>3. q.id \in Nat /\ s.id \in Nat /\ s.hour \in Nat /\ k.hour \in Nat
    BY <2>2, RecordFacts, PartitionFacts
  <2>4. CASE s = r
    \* The new row cannot be newer than an open buffer: that one was stale.
    <3>1. k # p
      BY <1>1, <2>3, <2>4
    <3>2. q \in buffers[k].rows
      BY <1>3, <3>1
    <3>3. k \in StaleKeys(inHand)
      BY <2>3, <2>4, <3>2 DEF StaleKeys, OpenKeys, r
    <3> QED BY <3>3 DEF AppendRow
  <2>5. CASE s # r /\ q = r
    BY <1>2, <2>1, <2>3, <2>5
  <2>6. CASE s # r /\ q # r
    BY <1>2, <1>3, <2>6 DEF BatcherInv, OnlyLateRowsBehind
  <2> QED BY <2>4, <2>5, <2>6
<1> QED BY <1>4, <1>5, <1>6, <1>7, <1>8, <1>9, <1>10 DEF BatcherInv

LEMMA InternalStepKeeps ==
  ASSUME BatcherInv, InternalStep
  PROVE  BatcherInv'
<1>1. CASE AppendRow
  BY <1>1, AppendRowKeeps
<1>2. CASE CapFlush
  BY <1>2, CapFlushKeeps
<1>3. CASE DrainDone
  BY <1>3
  DEF DrainDone, BatcherInv, BatcherTypeOK, BuffersOwnTheirRows,
      InHandMayFollow, PartitionPurity, NoRowDropped, Held, OnlyLateRowsBehind
<1>4. ASSUME NEW k \in Partitions, CloseStale(k) \/ Drain(k)
      PROVE  BatcherInv'
  BY <1>4, FlushStepKeeps DEF CloseStale, Drain
<1>5. ASSUME NEW k \in Partitions, SinkRaises(k)
      PROVE  BatcherInv'
  BY <1>5, SinkRaisesKeeps
<1> QED BY <1>1, <1>2, <1>3, <1>4, <1>5 DEF InternalStep

LEMMA FlushAllCallKeeps ==
  ASSUME BatcherInv, FlushAllCall
  PROVE  BatcherInv'
  BY DEF FlushAllCall, BatcherInv, BatcherTypeOK, BuffersOwnTheirRows,
         InHandMayFollow, PartitionPurity, NoRowDropped, Held, OnlyLateRowsBehind

LEMMA BatcherStutters ==
  ASSUME BatcherInv, UNCHANGED bvars
  PROVE  BatcherInv'
  BY DEF bvars, BatcherInv, BatcherTypeOK, BuffersOwnTheirRows, InHandMayFollow,
         MayFollow, PartitionPurity, NoRowDropped, Held, OnlyLateRowsBehind

LEMMA BatcherInitInv == BatcherInit => BatcherInv
<1> SUFFICES ASSUME BatcherInit PROVE BatcherInv
  OBVIOUS
<1>1. buffers = [k \in Partitions |-> [rows |-> {}, part |-> 0]]
  BY DEF BatcherInit, NoBuffers, EmptyBuffer
<1>2. DOMAIN store = {}
  BY DEF BatcherInit, EmptyStore
<1>3. BatcherTypeOK
  BY <1>1, <1>2 DEF BatcherInit, BatcherTypeOK, IsStore, NoStats
<1> QED
  BY <1>1, <1>2, <1>3, FS_EmptySet
  DEF BatcherInit, BatcherInv, BuffersOwnTheirRows, InHandMayFollow,
      PartitionPurity, NoRowDropped, OnlyLateRowsBehind

-----------------------------------------------------------------------------
(* The invariant, and the properties it implies *)

THEOREM BatcherInvariant == BatcherSpec => []BatcherInv
<1>1. BatcherInv /\ [BatcherNext]_bvars => BatcherInv'
  BY InternalStepKeeps, FlushAllCallKeeps, AcceptKeeps, BatcherStutters
  DEF BatcherNext
<1> QED BY <1>1, BatcherInitInv, PTL DEF BatcherSpec

\* The batcher's state is well formed.
THEOREM BatcherTyping == BatcherSpec => []BatcherTypeOK
  BY BatcherInvariant, PTL DEF BatcherInv

\* No failure of a write costs a row the batcher had taken: it is still
\* buffered, or was in the bucket at least once.
THEOREM BatcherDropsNoRow == BatcherSpec => []NoRowDropped
  BY BatcherInvariant, PTL DEF BatcherInv

\* An object of the bucket holds rows of its own partition only.
THEOREM BatcherKeepsPartitionsPure == BatcherSpec => []PartitionPurity
  BY BatcherInvariant, PTL DEF BatcherInv

\* Rows in an hour behind their satellite's newest are late rows.
THEOREM BatcherLeavesOnlyLateRowsBehind == BatcherSpec => []OnlyLateRowsBehind
  BY BatcherInvariant, PTL DEF BatcherInv

-----------------------------------------------------------------------------
(* The row cap: only the buffer the running accept() is about to flush     *)
(* may have reached it.                                                    *)

CapInv ==
  /\ BatcherInv
  /\ BelowCapBetweenCalls
  /\ bpc = "cap" =>
       \A k \in Partitions :
         k # PartitionOf(inHand) => Cardinality(buffers[k].rows) < MaxRows

LEMMA EmptyIsBelowCap == Cardinality({}) < MaxRows
  BY FS_EmptySet, BatcherAssumption

\* What a flush leaves in the buffers
LEMMA FlushedRows ==
  ASSUME BatcherInv, NEW k \in Partitions, FlushBuffer(k)
  PROVE  \A j \in Partitions :
           buffers'[j].rows = IF j = k THEN {} ELSE buffers[j].rows
<1>1. \A j \in Partitions : buffers'[j] = IF j = k THEN EmptyBuffer ELSE buffers[j]
  BY DEF FlushBuffer, BatcherInv, BatcherTypeOK
<1> QED BY <1>1 DEF EmptyBuffer

\* What an append leaves in the buffers
LEMMA AppendedRows ==
  ASSUME BatcherInv, AppendRow
  PROVE  /\ inHand \in Records /\ PartitionOf(inHand) \in Partitions
         /\ \A j \in Partitions :
              buffers'[j].rows = IF j = PartitionOf(inHand) THEN buffers[j].rows \cup {inHand}
                                 ELSE buffers[j].rows
<1> DEFINE p == PartitionOf(inHand)
<1>1. inHand \in Records /\ p \in Partitions
  BY RecordFacts DEF AppendRow, BatcherInv, BatcherTypeOK
<1>2. buffers' = [buffers EXCEPT ![p].rows = buffers[p].rows \cup {inHand}]
  BY DEF AppendRow
<1> HIDE DEF p
<1>3. \A j \in Partitions :
        buffers'[j].rows = IF j = p THEN buffers[j].rows \cup {inHand} ELSE buffers[j].rows
  BY <1>1, <1>2 DEF BatcherInv, BatcherTypeOK
<1> QED BY <1>1, <1>3 DEF p

LEMMA CapStep == CapInv /\ BatcherInv' /\ [BatcherNext]_bvars => CapInv'
<1> SUFFICES ASSUME CapInv, BatcherInv', [BatcherNext]_bvars PROVE CapInv'
  OBVIOUS
<1>1. BatcherInv
  BY DEF CapInv
<1>2. CASE AppendRow
  <2> DEFINE p == PartitionOf(inHand)
             full == Cardinality(buffers'[p].rows) >= MaxRows
  <2>1. \A j \in Partitions : j # p => Cardinality(buffers'[j].rows) < MaxRows
    BY <1>1, <1>2, AppendedRows DEF CapInv, BelowCapBetweenCalls, AppendRow
  <2>2. Cardinality(buffers'[p].rows) \in Nat
    <3>1. IsFiniteSet(buffers[p].rows) /\ p \in Partitions
      BY <1>1, <1>2, AppendedRows, RowsAreFinite
    <3> QED BY <1>1, <1>2, <3>1, AppendedRows, FS_AddElement, FS_CardinalityType
  <2>3. /\ bpc' = IF full THEN "cap" ELSE "idle"
        /\ full => inHand' = inHand
    <3>1. buffers'[p].rows = buffers[p].rows \cup {inHand}
      BY <1>1, <1>2, AppendedRows
    <3> QED BY <1>2, <3>1 DEF AppendRow
  <2> HIDE DEF p
  <2>4. ~full => Cardinality(buffers'[p].rows) < MaxRows
    BY <2>2, BatcherAssumption
  <2> HIDE DEF full
  <2>5. BelowCapBetweenCalls'
    BY <2>1, <2>3, <2>4 DEF BelowCapBetweenCalls
  <2>6. bpc' = "cap" => inHand' = inHand
    BY <2>3
  <2> QED BY <2>1, <2>5, <2>6 DEF CapInv, p
<1>3. ASSUME NEW k \in Partitions, FlushBuffer(k), bpc' = bpc, inHand' = inHand PROVE CapInv'
  BY <1>1, <1>3, FlushedRows, EmptyIsBelowCap DEF CapInv, BelowCapBetweenCalls
<1>4. CASE CapFlush
  <2>1. /\ FlushBuffer(PartitionOf(inHand)) /\ PartitionOf(inHand) \in Partitions
        /\ bpc = "cap" /\ bpc' = "idle"
    BY <1>1, <1>4, RecordFacts DEF CapFlush, BatcherInv, BatcherTypeOK
  <2> QED BY <1>1, <2>1, FlushedRows, EmptyIsBelowCap DEF CapInv, BelowCapBetweenCalls
<1>5. ASSUME NEW k \in Partitions, SinkRaises(k) PROVE CapInv'
  BY <1>5 DEF SinkRaises, CapInv, BelowCapBetweenCalls
<1>6. CASE DrainDone \/ FlushAllCall
  BY <1>6 DEF DrainDone, FlushAllCall, CapInv, BelowCapBetweenCalls
<1>7. ASSUME NEW r \in Records, Accept(r) PROVE CapInv'
  BY <1>7 DEF Accept, AcceptCall, CapInv, BelowCapBetweenCalls
<1>8. CASE UNCHANGED bvars
  BY <1>8 DEF bvars, CapInv, BelowCapBetweenCalls
<1> QED
  BY <1>2, <1>3, <1>4, <1>5, <1>6, <1>7, <1>8
  DEF BatcherNext, InternalStep, CloseStale, Drain

\* Between calls every buffer is below the row cap.
THEOREM BatcherStaysBelowCap == BatcherSpec => []BelowCapBetweenCalls
<1>1. BatcherInit => CapInv
  BY BatcherInitInv, EmptyIsBelowCap
  DEF CapInv, BatcherInit, BelowCapBetweenCalls, NoBuffers, EmptyBuffer
<1>2. CapInv => BelowCapBetweenCalls
  BY DEF CapInv
<1> QED BY <1>1, <1>2, CapStep, BatcherInvariant, PTL DEF BatcherSpec

-----------------------------------------------------------------------------
(* The statistics.  Buffers are disjoint, and the row of the running       *)
(* accept() is in none of them, so the rows held are counted one by one.   *)

LEMMA HeldIsFinite ==
  ASSUME BatcherInv
  PROVE  IsFiniteSet(Held) /\ Cardinality(Held) \in Nat
<1>1. Held \subseteq appended
  BY DEF BatcherInv, BuffersOwnTheirRows, Held
<1> QED BY <1>1, FS_Subset, FS_CardinalityType DEF BatcherInv

LEMMA FlushBalances ==
  ASSUME BatcherInv, StatsBalance, NEW k \in Partitions, FlushBuffer(k)
  PROVE  StatsBalance'
<1>1. Held' = Held \ buffers[k].rows /\ buffers[k].rows \subseteq Held
  BY FlushedRows DEF Held, BatcherInv, BuffersOwnTheirRows
<1>2. Cardinality(Held') = Cardinality(Held) - Cardinality(buffers[k].rows)
  <2>1. Held \cap buffers[k].rows = buffers[k].rows
    BY <1>1
  <2> QED BY <1>1, <2>1, HeldIsFinite, FS_Difference
<1>3. /\ stats'.rowsBuffered = stats.rowsBuffered
      /\ stats'.rowsFlushed = stats.rowsFlushed + Cardinality(buffers[k].rows)
      /\ stats.rowsBuffered \in Nat /\ stats.rowsFlushed \in Nat
  BY DEF FlushBuffer, BatcherInv, BatcherTypeOK
<1>4. Cardinality(Held) \in Nat /\ Cardinality(buffers[k].rows) \in Nat
  BY HeldIsFinite, RowsAreFinite
<1> QED BY <1>2, <1>3, <1>4 DEF StatsBalance

LEMMA AppendBalances ==
  ASSUME BatcherInv, StatsBalance, AppendRow
  PROVE  StatsBalance'
<1>1. inHand \notin Held
  <2>1. \A q \in appended : q.id < inHand.id
    BY DEF AppendRow, BatcherInv, InHandMayFollow, MayFollow
  <2>2. inHand \notin appended
    <3>1. inHand.id \in Nat
      BY AppendedRows, RecordFacts
    <3> QED BY <2>1, <3>1
  <2> QED BY <2>2 DEF Held, BatcherInv, BuffersOwnTheirRows
<1>2. Held' = Held \cup {inHand}
  BY AppendedRows DEF Held
<1>3. Cardinality(Held') = Cardinality(Held) + 1
  BY <1>1, <1>2, HeldIsFinite, FS_AddElement
<1>4. /\ stats'.rowsBuffered = stats.rowsBuffered + 1
      /\ stats'.rowsFlushed = stats.rowsFlushed
      /\ stats.rowsBuffered \in Nat /\ stats.rowsFlushed \in Nat
  BY DEF AppendRow, BatcherInv, BatcherTypeOK
<1> QED BY <1>3, <1>4, HeldIsFinite DEF StatsBalance

LEMMA StatsStep == BatcherInv /\ StatsBalance /\ [BatcherNext]_bvars => StatsBalance'
<1> SUFFICES ASSUME BatcherInv, StatsBalance, [BatcherNext]_bvars PROVE StatsBalance'
  OBVIOUS
<1>1. CASE AppendRow
  BY <1>1, AppendBalances
<1>2. ASSUME NEW k \in Partitions, CloseStale(k) \/ Drain(k) PROVE StatsBalance'
  BY <1>2, FlushBalances DEF CloseStale, Drain
<1>3. CASE CapFlush
  <2>1. PartitionOf(inHand) \in Partitions
    BY <1>3, RecordFacts DEF CapFlush, BatcherInv, BatcherTypeOK
  <2> QED BY <1>3, <2>1, FlushBalances DEF CapFlush
<1>4. ASSUME NEW k \in Partitions, SinkRaises(k) PROVE StatsBalance'
  BY <1>4 DEF SinkRaises, StatsBalance, Held
<1>5. CASE DrainDone \/ FlushAllCall
  BY <1>5 DEF DrainDone, FlushAllCall, StatsBalance, Held
<1>6. ASSUME NEW r \in Records, Accept(r) PROVE StatsBalance'
  BY <1>6 DEF Accept, AcceptCall, StatsBalance, Held
<1>7. CASE UNCHANGED bvars
  BY <1>7 DEF bvars, StatsBalance, Held
<1> QED
  BY <1>1, <1>2, <1>3, <1>4, <1>5, <1>6, <1>7 DEF BatcherNext, InternalStep

\* Nothing is held and nothing was counted where there are no buffers yet.
LEMMA FreshBalances ==
  ASSUME buffers = NoBuffers, stats = NoStats
  PROVE  StatsBalance
<1>1. Held = {}
  BY DEF Held, NoBuffers, EmptyBuffer
<1> QED BY <1>1, FS_EmptySet DEF StatsBalance, NoStats

\* The statistics balance at every moment.
THEOREM BatcherStatsBalance == BatcherSpec => []StatsBalance
<1>1. BatcherInit => StatsBalance
  BY FreshBalances DEF BatcherInit
<1> QED BY <1>1, StatsStep, BatcherInvariant, BatcherInitInv, PTL DEF BatcherSpec

-----------------------------------------------------------------------------
(* For in-order traffic below the row cap, Batcher implements              *)
(* DurableArchive, whatever writes fail.                                   *)
(*                                                                         *)
(* The argument: every object is part 0 of its partition, so the archive   *)
(* is safe exactly as long as no partition is written twice.  A partition  *)
(* that was written has been passed: a later hour of its satellite was     *)
(* seen, or the batcher is shutting down; in-order traffic never returns   *)
(* to a passed partition, so its buffer stays empty.                       *)

Passed(k) ==
  \/ bpc \in {"drain", "closed"}
  \/ \E r \in appended : r.sat = k.sat /\ r.hour > k.hour
  \/ bpc = "accept" /\ inHand.sat = k.sat /\ inHand.hour > k.hour

PartsAreZero ==
  /\ \A k \in Partitions : buffers[k].part = 0
  /\ \A f \in DOMAIN store : f[2] = 0

WrittenMeansPassed ==
  bpc # "raised" =>
    \A k \in Partitions :
      <<k, 0>> \in DOMAIN store => buffers[k].rows = {} /\ Passed(k)

OnlyAppendedStored == \A f \in DOMAIN store : store[f] \subseteq appended

WriteOnceInv ==
  /\ PartsAreZero
  /\ WrittenMeansPassed
  /\ OnlyAppendedStored
  /\ bpc # "cap"

-----------------------------------------------------------------------------
\* What writing the buffer of k does to the bucket.
LEMMA WriteFacts ==
  ASSUME BatcherInv, WriteOnceInv, NEW k \in Partitions, WriteBuffer(k)
  PROVE  /\ DOMAIN store' = DOMAIN store \cup {<<k, 0>>}
         /\ store'[<<k, 0>>] = buffers[k].rows
         /\ \A f \in DOMAIN store : f # <<k, 0>> => store'[f] = store[f]
         /\ \A f \in DOMAIN store' : f[2] = 0
         /\ \A f \in DOMAIN store' : store'[f] \subseteq appended
<1>1. buffers[k].part = 0
  BY DEF WriteOnceInv, PartsAreZero
<1>2. store' = Put(store, <<k, 0>>, buffers[k].rows)
  BY <1>1 DEF WriteBuffer
<1>3. /\ DOMAIN store' = DOMAIN store \cup {<<k, 0>>}
      /\ store'[<<k, 0>>] = buffers[k].rows
      /\ \A f \in DOMAIN store : f # <<k, 0>> => store'[f] = store[f]
  BY <1>2 DEF Put
<1>4. \A f \in DOMAIN store' : f[2] = 0
  BY <1>3 DEF WriteOnceInv, PartsAreZero
<1>5. buffers[k].rows \subseteq appended
  BY DEF BatcherInv, BuffersOwnTheirRows
<1>6. \A f \in DOMAIN store' : store'[f] \subseteq appended
  BY <1>3, <1>5 DEF WriteOnceInv, OnlyAppendedStored
<1> QED BY <1>3, <1>4, <1>6

\* Writing an open buffer is a step of DurableArchive: its partition was not
\* written before, so nothing is replaced.
LEMMA WriteStores ==
  ASSUME BatcherInv, WriteOnceInv, bpc # "raised",
         NEW k \in OpenKeys, WriteBuffer(k), appended' = appended
  PROVE  Durable!Store
<1>1. k \in Partitions /\ buffers[k].rows # {}
  BY DEF OpenKeys
<1>2. <<k, 0>> \notin DOMAIN store
  BY <1>1 DEF WriteOnceInv, WrittenMeansPassed
<1>3. RowsIn(store) \subseteq RowsIn(store')
  <2>1. /\ DOMAIN store \subseteq DOMAIN store'
        /\ \A f \in DOMAIN store : store'[f] = store[f]
    BY <1>1, <1>2, WriteFacts
  <2> QED BY <2>1 DEF RowsIn
<1>4. RowsIn(store') \subseteq appended
  BY <1>1, WriteFacts DEF RowsIn
<1> QED BY <1>3, <1>4 DEF Durable!Store

\* A flush inside a call keeps the invariant: the flushed partition is passed.
LEMMA FlushKeepsWriteOnce ==
  ASSUME BatcherInv, WriteOnceInv, NEW k \in Partitions, FlushBuffer(k), Passed(k),
         bpc \in {"accept", "drain"}, UNCHANGED <<bpc, inHand, appended>>
  PROVE  WriteOnceInv'
<1>1. WriteBuffer(k)
  BY DEF FlushBuffer
<1>2. \A j \in Partitions : buffers'[j] = IF j = k THEN EmptyBuffer ELSE buffers[j]
  BY DEF FlushBuffer, BatcherInv, BatcherTypeOK
<1>3. PartsAreZero'
  <2>1. \A f \in DOMAIN store' : f[2] = 0
    BY <1>1, WriteFacts
  <2>2. \A j \in Partitions : buffers'[j].part = 0
    BY <1>2 DEF WriteOnceInv, PartsAreZero, EmptyBuffer
  <2> QED BY <2>1, <2>2 DEF PartsAreZero
<1>4. \A j \in Partitions : Passed(j) => Passed(j)'
  BY DEF Passed
<1>5. WrittenMeansPassed'
  <2> SUFFICES ASSUME NEW j \in Partitions, <<j, 0>> \in DOMAIN store'
               PROVE  buffers'[j].rows = {} /\ Passed(j)'
    BY DEF WrittenMeansPassed
  <2>1. CASE j = k
    BY <1>2, <1>4, <2>1 DEF EmptyBuffer
  <2>2. CASE j # k
    <3>1. <<j, 0>> # <<k, 0>> /\ DOMAIN store' = DOMAIN store \cup {<<k, 0>>}
      BY <1>1, <2>2, WriteFacts
    <3>2. <<j, 0>> \in DOMAIN store
      BY <3>1
    <3> QED BY <1>2, <1>4, <2>2, <3>2 DEF WriteOnceInv, WrittenMeansPassed
  <2> QED BY <2>1, <2>2
<1>6. OnlyAppendedStored'
  BY <1>1, WriteFacts DEF OnlyAppendedStored
<1> QED BY <1>3, <1>5, <1>6 DEF WriteOnceInv

\* An append does not return to a written partition and does not fill one.
LEMMA AppendKeepsWriteOnce ==
  ASSUME InOrderTraffic, BatcherInv, WriteOnceInv, AppendRow
  PROVE  WriteOnceInv' /\ Durable!Take(inHand) /\ inHand \in Records
<1> DEFINE p == PartitionOf(inHand)
           same == {q \in appended : PartitionOf(q) = p}
<1>1. inHand \in Records /\ p \in Partitions /\ p.sat = inHand.sat /\ p.hour = inHand.hour
  BY RecordFacts DEF AppendRow, BatcherInv, BatcherTypeOK
<1>2. /\ \A q \in appended : q.id < inHand.id
      /\ \A q \in appended : q.sat = inHand.sat => q.hour <= inHand.hour
      /\ Cardinality(same) + 1 < MaxRows
  BY DEF AppendRow, BatcherInv, InHandMayFollow, MayFollow, InOrderTraffic
<1>3. inHand \notin appended
  BY <1>1, <1>2, RecordFacts
<1>4. <<p, 0>> \notin DOMAIN store
  <2> SUFFICES ASSUME <<p, 0>> \in DOMAIN store PROVE FALSE
    OBVIOUS
  <2>1. Passed(p)
    BY <1>1 DEF AppendRow, WriteOnceInv, WrittenMeansPassed
  <2>2. \A q \in appended : q.hour \in Nat
    BY RecordFacts DEF BatcherInv, BatcherTypeOK
  <2>3. inHand.hour \in Nat
    BY <1>1, RecordFacts
  <2> QED BY <1>1, <1>2, <2>1, <2>2, <2>3 DEF Passed, AppendRow
<1>5. Cardinality(buffers[p].rows \cup {inHand}) < MaxRows
  <2>1. buffers[p].rows \in SUBSET same
    BY <1>1 DEF BatcherInv, BuffersOwnTheirRows
  <2>2. IsFiniteSet(same)
    BY FS_Subset DEF BatcherInv
  <2>3. /\ IsFiniteSet(buffers[p].rows)
        /\ Cardinality(buffers[p].rows) <= Cardinality(same)
        /\ Cardinality(buffers[p].rows) \in Nat /\ Cardinality(same) \in Nat
    BY <2>1, <2>2, FS_Subset, FS_CardinalityType
  <2>4. Cardinality(buffers[p].rows \cup {inHand}) <= Cardinality(buffers[p].rows) + 1
    <3>1. Cardinality(buffers[p].rows \cup {inHand})
            = IF inHand \in buffers[p].rows THEN Cardinality(buffers[p].rows)
              ELSE Cardinality(buffers[p].rows) + 1
      BY <2>3, FS_AddElement
    <3> QED BY <2>3, <3>1
  <2>5. Cardinality(buffers[p].rows \cup {inHand}) \in Nat
    BY <2>3, FS_AddElement, FS_CardinalityType
  <2> QED BY <1>2, <2>3, <2>4, <2>5, BatcherAssumption
<1>6. bpc' = "idle"
  <2>1. Cardinality(buffers[p].rows \cup {inHand}) \in Nat
    BY <1>1, RowsAreFinite, FS_AddElement, FS_CardinalityType
  <2> QED BY <1>5, <2>1, BatcherAssumption DEF AppendRow
<1>7. /\ buffers' = [buffers EXCEPT ![p].rows = buffers[p].rows \cup {inHand}]
      /\ appended' = appended \cup {inHand} /\ store' = store
  BY DEF AppendRow
<1> HIDE DEF p
<1>8. PartsAreZero'
  BY <1>1, <1>7 DEF BatcherInv, BatcherTypeOK, WriteOnceInv, PartsAreZero
<1>9. WrittenMeansPassed'
  <2> SUFFICES ASSUME NEW k \in Partitions, <<k, 0>> \in DOMAIN store
               PROVE  buffers'[k].rows = {} /\ Passed(k)'
    BY <1>7 DEF WrittenMeansPassed
  <2>1. k # p
    BY <1>4
  <2>2. buffers'[k] = buffers[k]
    BY <1>1, <1>7, <2>1 DEF BatcherInv, BatcherTypeOK
  <2>3. buffers[k].rows = {} /\ Passed(k)
    BY DEF AppendRow, WriteOnceInv, WrittenMeansPassed
  <2>4. Passed(k)'
    BY <1>7, <2>3 DEF Passed, AppendRow
  <2> QED BY <2>2, <2>3, <2>4
<1>10. OnlyAppendedStored'
  BY <1>7 DEF WriteOnceInv, OnlyAppendedStored
<1> QED
  BY <1>1, <1>3, <1>6, <1>7, <1>8, <1>9, <1>10 DEF WriteOnceInv, Durable!Take

\* A write that raises, stored or not: afterwards nothing is promised about
\* the buffers, because the batcher is not used again.
LEMMA RaiseKeepsWriteOnce ==
  ASSUME BatcherInv, WriteOnceInv, NEW k \in Partitions, SinkRaises(k)
  PROVE  WriteOnceInv' /\ (Durable!Store \/ UNCHANGED <<appended, store>>)
<1>1. CASE WriteBuffer(k)
  <2>1. k \in OpenKeys
    BY DEF SinkRaises, FlushDue, StaleKeys, WriteOnceInv
  <2>2. bpc # "raised"
    BY DEF SinkRaises, FlushDue
  <2>3. Durable!Store
    BY <1>1, <2>1, <2>2, WriteStores DEF SinkRaises
  <2>4. WriteOnceInv'
    BY <1>1, WriteFacts
    DEF SinkRaises, WriteOnceInv, PartsAreZero, WrittenMeansPassed, OnlyAppendedStored
  <2> QED BY <2>3, <2>4
<1>2. CASE UNCHANGED <<store, everPut>>
  BY <1>2
  DEF SinkRaises, WriteOnceInv, PartsAreZero, WrittenMeansPassed, OnlyAppendedStored
<1> QED BY <1>1, <1>2 DEF SinkRaises

-----------------------------------------------------------------------------
\* Every step keeps the invariant and is a step of DurableArchive.
LEMMA WriteOnceStep ==
  ASSUME InOrderTraffic, BatcherInv, WriteOnceInv, [BatcherNext]_bvars
  PROVE  WriteOnceInv' /\ [Durable!Next]_(Durable!avars)
<1> USE DEF Durable!avars
<1>1. CASE AppendRow
  BY <1>1, AppendKeepsWriteOnce DEF Durable!Next
<1>2. CASE CapFlush
  BY <1>2 DEF CapFlush, WriteOnceInv
<1>3. ASSUME NEW k \in Partitions, CloseStale(k)
      PROVE  WriteOnceInv' /\ Durable!Store
  <2>1. k \in OpenKeys /\ Passed(k)
    BY <1>3 DEF CloseStale, StaleKeys, Passed, OpenKeys
  <2> QED
    BY <1>3, <2>1, FlushKeepsWriteOnce, WriteStores DEF CloseStale, FlushBuffer
<1>4. ASSUME NEW k \in Partitions, Drain(k)
      PROVE  WriteOnceInv' /\ Durable!Store
  <2>1. Passed(k)
    BY <1>4 DEF Drain, Passed
  <2> QED
    BY <1>4, <2>1, FlushKeepsWriteOnce, WriteStores DEF Drain, FlushBuffer
<1>5. ASSUME NEW k \in Partitions, SinkRaises(k)
      PROVE  WriteOnceInv' /\ (Durable!Store \/ UNCHANGED <<appended, store>>)
  BY <1>5, RaiseKeepsWriteOnce
<1>6. CASE DrainDone \/ FlushAllCall \/ UNCHANGED bvars
  BY <1>6
  DEF DrainDone, FlushAllCall, bvars, WriteOnceInv, PartsAreZero,
      WrittenMeansPassed, Passed, OnlyAppendedStored
<1>7. ASSUME NEW r \in Records, Accept(r)
      PROVE  WriteOnceInv' /\ UNCHANGED <<appended, store>>
  BY <1>7
  DEF Accept, AcceptCall, WriteOnceInv, PartsAreZero, WrittenMeansPassed,
      Passed, OnlyAppendedStored
<1>8. UNCHANGED <<appended, store>> => UNCHANGED <<appended, RowsIn(store)>>
  BY DEF RowsIn
<1>9. DrainDone \/ FlushAllCall \/ UNCHANGED bvars => UNCHANGED <<appended, store>>
  BY DEF DrainDone, FlushAllCall, bvars
<1> QED
  BY <1>1, <1>2, <1>3, <1>4, <1>5, <1>6, <1>7, <1>8, <1>9
  DEF BatcherNext, InternalStep, Durable!Next

LEMMA WriteOnceInit == BatcherInit => WriteOnceInv /\ Durable!Init
<1> SUFFICES ASSUME BatcherInit PROVE WriteOnceInv /\ Durable!Init
  OBVIOUS
<1>1. DOMAIN store = {}
  BY DEF BatcherInit, EmptyStore
<1>2. \A k \in Partitions : buffers[k].part = 0
  BY DEF BatcherInit, NoBuffers, EmptyBuffer
<1>3. RowsIn(store) = {}
  BY <1>1 DEF RowsIn
<1> QED
  BY <1>1, <1>2, <1>3
  DEF BatcherInit, WriteOnceInv, PartsAreZero, WrittenMeansPassed,
      OnlyAppendedStored, Durable!Init

\* For in-order traffic below the row cap the batcher implements the durable
\* archive: every row is taken once, only taken rows are archived, and no
\* later flush, nor a failed one, makes the archive lose a row.
THEOREM BatcherImplementsDurableArchive ==
  ASSUME InOrderTraffic
  PROVE  BatcherSpec => ImplementsDurableArchive
<1>1. BatcherInit => Durable!Init /\ WriteOnceInv
  BY WriteOnceInit
<1>2. BatcherInv /\ WriteOnceInv /\ [BatcherNext]_bvars
        => WriteOnceInv' /\ [Durable!Next]_(Durable!avars)
  BY WriteOnceStep
<1> QED
  BY <1>1, <1>2, BatcherInvariant, PTL
  DEF BatcherSpec, ImplementsDurableArchive, Durable!Spec

-----------------------------------------------------------------------------
\* What was once stored is still there, as no object is written twice.
PutStays == everPut \subseteq RowsIn(store)

LEMMA BatcherStepPuts ==
  ASSUME InOrderTraffic, BatcherInv, WriteOnceInv, [BatcherNext]_bvars, PutStays
  PROVE  PutStays'
<1>1. RowsIn(store) \subseteq RowsIn(store')
  <2>1. [Durable!Next]_(Durable!avars)
    BY WriteOnceStep
  <2> QED BY <2>1 DEF Durable!Next, Durable!Store, Durable!Take, Durable!avars
<1>2. ASSUME NEW k \in Partitions, WriteBuffer(k)
      PROVE  buffers[k].rows \subseteq RowsIn(store')
  <2>1. <<k, 0>> \in DOMAIN store' /\ store'[<<k, 0>>] = buffers[k].rows
    BY <1>2, WriteFacts
  <2> QED BY <2>1 DEF RowsIn
<1>3. ASSUME NEW k \in Partitions, WriteBuffer(k)
      PROVE  PutStays'
  BY <1>1, <1>2, <1>3 DEF PutStays, WriteBuffer
<1>4. CASE UNCHANGED <<store, everPut>>
  BY <1>4 DEF PutStays, RowsIn
<1>5. ASSUME NEW k \in Partitions, CloseStale(k) \/ Drain(k) \/ SinkRaises(k)
      PROVE  PutStays'
  BY <1>3, <1>4, <1>5 DEF CloseStale, Drain, SinkRaises, FlushBuffer
<1>6. CASE AppendRow \/ DrainDone \/ FlushAllCall \/ UNCHANGED bvars
  BY <1>4, <1>6 DEF AppendRow, DrainDone, FlushAllCall, bvars
<1>7. CASE CapFlush
  BY <1>7 DEF CapFlush, WriteOnceInv
<1>8. ASSUME NEW r \in Records, Accept(r)
      PROVE  PutStays'
  BY <1>4, <1>8 DEF Accept, AcceptCall
<1> QED BY <1>5, <1>6, <1>7, <1>8 DEF BatcherNext, InternalStep

\* flush_all returns with no buffer open.
ClosedMeansEmpty == bpc = "closed" => OpenKeys = {}

LEMMA ClosedStep ==
  ASSUME ClosedMeansEmpty, [BatcherNext]_bvars
  PROVE  ClosedMeansEmpty'
<1>1. ASSUME NEW k \in Partitions, CloseStale(k) \/ Drain(k) \/ SinkRaises(k)
      PROVE  bpc' # "closed"
  BY <1>1 DEF CloseStale, Drain, SinkRaises
<1>2. AppendRow \/ CapFlush \/ FlushAllCall => bpc' # "closed"
  BY DEF AppendRow, CapFlush, FlushAllCall
<1>3. \A r \in Records : Accept(r) => bpc' # "closed"
  BY DEF Accept, AcceptCall
<1>4. DrainDone \/ UNCHANGED bvars => ClosedMeansEmpty'
  BY DEF DrainDone, bvars, ClosedMeansEmpty, OpenKeys
<1> QED BY <1>1, <1>2, <1>3, <1>4 DEF ClosedMeansEmpty, BatcherNext, InternalStep

\* After flush_all returned, a reader of the bucket sees every row the batcher
\* took, whichever of its writes came from which call.
THEOREM BatcherArchivesAllWhenClosed ==
  ASSUME InOrderTraffic
  PROVE  BatcherSpec => []ClosedMeansArchived
<1> DEFINE Inv == BatcherInv /\ WriteOnceInv /\ PutStays /\ ClosedMeansEmpty
<1>1. BatcherInit => Inv
  BY BatcherInitInv, WriteOnceInit
  DEF BatcherInit, PutStays, ClosedMeansEmpty
<1>2. Inv /\ [BatcherNext]_bvars => Inv'
  <2> SUFFICES ASSUME Inv, [BatcherNext]_bvars PROVE Inv'
    OBVIOUS
  <2>1. BatcherInv'
    BY InternalStepKeeps, FlushAllCallKeeps, AcceptKeeps, BatcherStutters
    DEF BatcherNext
  <2> QED BY <2>1, WriteOnceStep, BatcherStepPuts, ClosedStep
<1>3. Inv => ClosedMeansArchived
  <2> SUFFICES ASSUME Inv, bpc = "closed" PROVE appended \subseteq RowsIn(store)
    BY DEF ClosedMeansArchived
  <2>1. Held = {}
    BY DEF ClosedMeansEmpty, OpenKeys, Held
  <2> QED BY <2>1 DEF BatcherInv, NoRowDropped, PutStays
<1> QED BY <1>1, <1>2, <1>3, PTL DEF BatcherSpec

=============================================================================
