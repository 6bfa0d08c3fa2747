------------------------------ MODULE Batcher ------------------------------
(***************************************************************************)
(* ParquetBatcher (src/orbit_ops/pipeline/batcher.py): one open buffer per *)
(* (satellite, sim-hour), flushed when a later hour of the satellite       *)
(* arrives, when it reaches the row cap, or at shutdown.                   *)
(*                                                                         *)
(* accept() and flush_all() make one archive write per buffer they flush;  *)
(* every write is a step of its own, because every write may raise and end *)
(* the call half way.  After an exception the batcher is not used again:   *)
(* its only caller, TelemetryConsumer.run, closes the source and leaves.   *)
(* The order in which one call flushes several buffers is the dict's       *)
(* insertion order in the code and any order here.                         *)
(***************************************************************************)
EXTENDS Archive, FiniteSets

CONSTANTS MaxRows,      \* max_rows_per_batch
          Failures,     \* which of the following this instance includes
          NoRecord      \* inHand when no accept() is running

\* "sink":  a write of the archive raises
\* "late":  a record is older (in sim-hours) than one seen for its satellite
\* "dense": a partition receives MaxRows records or more

ASSUME BatcherAssumption ==
  /\ MaxRows \in Nat \ {0}
  /\ NoRecord \notin Records

VARIABLES buffers,   \* _buffers: a partition without a buffer has EmptyBuffer
          store,     \* the objects in the bucket
          stats,     \* BatcherStats (bytes_written is left out)
          bpc,       \* which call is running, and how far it is
          inHand,    \* the record of the running accept()
          appended,  \* history: records appended to a buffer by this batcher
          everPut    \* history: rows that were in some stored object

bvars  == <<buffers, store, stats, bpc, inHand, appended, everPut>>

EmptyBuffer == [rows |-> {}, part |-> 0]
NoStats     == [rowsBuffered |-> 0, rowsFlushed |-> 0, filesWritten |-> 0]

OpenKeys == {k \in Partitions : buffers[k].rows # {}}
Held     == UNION {buffers[k].rows : k \in Partitions}

\* Mutant of StaleKeys: an off-by-one keeps the previous hour open.
StaleKeysSkippingAnHour(r) ==
  {k \in OpenKeys : k.sat = r.sat /\ k.hour + 1 < r.hour}

\* Mutant of StaleKeys: an off-by-one closes the current hour with every row.
StaleKeysWithCurrent(r) ==
  {k \in OpenKeys : k.sat = r.sat /\ k.hour <= r.hour}

\* The buffers _close_stale_buffers_for_sat flushes before r is appended.
StaleKeys(r) == {k \in OpenKeys : k.sat = r.sat /\ k.hour < r.hour}

NoBuffers == [k \in Partitions |-> EmptyBuffer]

BatcherInit ==
  /\ buffers = NoBuffers /\ stats = NoStats
  /\ bpc = "idle" /\ inHand = NoRecord
  /\ store = EmptyStore
  /\ appended = {} /\ everPut = {}

\* A new process constructs its own batcher; the bucket stays.
NewBatcher ==
  /\ buffers' = NoBuffers /\ stats' = NoStats
  /\ bpc' = "idle" /\ inHand' = NoRecord
  /\ appended' = {}
  /\ UNCHANGED <<store, everPut>>

-----------------------------------------------------------------------------
(* _flush_buffer: the write comes first, the bookkeeping only after it      *)
(* returned.  The part counter is advanced on a buffer that is then dropped *)
(* from the dict, so the next buffer of the partition starts at 0 again.    *)
(* (Buffers in the dict are never empty, so its early return is not taken.) *)

\* Mutant of WriteBuffer: the key is taken from the record that caused the flush.
WriteBufferUnderNewKey(k) ==
  LET key == IF inHand = NoRecord THEN k ELSE PartitionOf(inHand)
  IN /\ store' = Put(store, <<key, buffers[k].part>>, buffers[k].rows)
     /\ everPut' = everPut \cup buffers[k].rows

\* Mutant of WriteBuffer: parts are numbered by the batcher's file count.
WriteBufferNumberedByFiles(k) ==
  /\ store' = Put(store, <<k, stats.filesWritten>>, buffers[k].rows)
  /\ everPut' = everPut \cup buffers[k].rows

WriteBuffer(k) ==
  /\ store' = Put(store, <<k, buffers[k].part>>, buffers[k].rows)
  /\ everPut' = everPut \cup buffers[k].rows

\* Mutant of FlushBuffer: the rows are cleared before they are counted.
FlushBufferCountsCleared(k) ==
  /\ WriteBuffer(k)
  /\ stats' = [stats EXCEPT !.filesWritten = @ + 1]
  /\ buffers' = [buffers EXCEPT ![k] = EmptyBuffer]

FlushBuffer(k) ==
  /\ WriteBuffer(k)
  /\ stats' = [stats EXCEPT !.rowsFlushed = @ + Cardinality(buffers[k].rows),
                            !.filesWritten = @ + 1]
  /\ buffers' = [buffers EXCEPT ![k] = EmptyBuffer]

-----------------------------------------------------------------------------
(* accept(record) *)

AcceptCall(r) ==
  /\ bpc = "idle"
  /\ bpc' = "accept"
  /\ inHand' = r
  /\ UNCHANGED <<buffers, store, stats, appended, everPut>>

CloseStale(k) ==
  /\ bpc = "accept"
  /\ k \in StaleKeys(inHand)
  /\ FlushBuffer(k)
  /\ UNCHANGED <<bpc, inHand, appended>>

\* Mutant of AppendRow: the row cap is exceeded before the buffer is flushed.
AppendRowPastCap ==
  /\ bpc = "accept"
  /\ StaleKeys(inHand) = {}
  /\ LET k    == PartitionOf(inHand)
         rows == buffers[k].rows \cup {inHand}
         full == Cardinality(rows) > MaxRows
     IN /\ buffers' = [buffers EXCEPT ![k].rows = rows]
        /\ bpc' = IF full THEN "cap" ELSE "idle"
        /\ inHand' = IF full THEN inHand ELSE NoRecord
  /\ appended' = appended \cup {inHand}
  /\ stats' = [stats EXCEPT !.rowsBuffered = @ + 1]
  /\ UNCHANGED <<store, everPut>>

\* Appends to the partition's buffer; a full buffer is flushed next.
AppendRow ==
  /\ bpc = "accept"
  /\ StaleKeys(inHand) = {}
  /\ LET k    == PartitionOf(inHand)
         rows == buffers[k].rows \cup {inHand}
         full == Cardinality(rows) >= MaxRows
     IN /\ buffers' = [buffers EXCEPT ![k].rows = rows]
        /\ bpc' = IF full THEN "cap" ELSE "idle"
        /\ inHand' = IF full THEN inHand ELSE NoRecord
  /\ appended' = appended \cup {inHand}
  /\ stats' = [stats EXCEPT !.rowsBuffered = @ + 1]
  /\ UNCHANGED <<store, everPut>>

\* Mutant of CapFlush: accept() goes on with the record it has flushed.
CapFlushGoesOn ==
  /\ bpc = "cap"
  /\ FlushBuffer(PartitionOf(inHand))
  /\ bpc' = "idle"
  /\ UNCHANGED <<inHand, appended>>

CapFlush ==
  /\ bpc = "cap"
  /\ FlushBuffer(PartitionOf(inHand))
  /\ bpc' = "idle"
  /\ inHand' = NoRecord
  /\ UNCHANGED appended

-----------------------------------------------------------------------------
(* flush_all(), called once, at shutdown *)

FlushAllCall ==
  /\ bpc = "idle"
  /\ bpc' = "drain"
  /\ UNCHANGED <<buffers, store, stats, inHand, appended, everPut>>

Drain(k) ==
  /\ bpc = "drain"
  /\ k \in OpenKeys
  /\ FlushBuffer(k)
  /\ UNCHANGED <<bpc, inHand, appended>>

\* Mutant of DrainDone: the loop ends one buffer early.
DrainDoneOneShort ==
  /\ bpc = "drain"
  /\ Cardinality(OpenKeys) <= 1
  /\ bpc' = "closed"
  /\ UNCHANGED <<buffers, store, stats, inHand, appended, everPut>>

DrainDone ==
  /\ bpc = "drain"
  /\ OpenKeys = {}
  /\ bpc' = "closed"
  /\ UNCHANGED <<buffers, store, stats, inHand, appended, everPut>>

-----------------------------------------------------------------------------
(* sink.write raises out of whichever call is running.  The object may have *)
(* been stored all the same (the answer was lost).  Nothing after the write *)
(* in _flush_buffer runs; a record in hand that was not appended is gone.   *)

FlushDue(k) ==
  \/ bpc = "accept" /\ k \in StaleKeys(inHand)
  \/ bpc = "cap" /\ k = PartitionOf(inHand)
  \/ bpc = "drain" /\ k \in OpenKeys

\* Mutant of SinkRaises: _flush_buffer drops the buffer before it writes.
SinkRaisesAfterClear(k) ==
  /\ "sink" \in Failures
  /\ FlushDue(k)
  /\ WriteBuffer(k) \/ UNCHANGED <<store, everPut>>
  /\ bpc' = "raised"
  /\ inHand' = NoRecord
  /\ buffers' = [buffers EXCEPT ![k] = EmptyBuffer]
  /\ UNCHANGED <<stats, appended>>

SinkRaises(k) ==
  /\ "sink" \in Failures
  /\ FlushDue(k)
  /\ WriteBuffer(k) \/ UNCHANGED <<store, everPut>>
  /\ bpc' = "raised"
  /\ inHand' = NoRecord
  /\ UNCHANGED <<buffers, stats, appended>>

-----------------------------------------------------------------------------
(* The caller.  Ids say in which order the records were offered.            *)

MayFollow(rows, r) ==
  /\ \A q \in rows : q.id < r.id
  /\ "late" \in Failures
       \/ \A q \in rows : q.sat = r.sat => q.hour <= r.hour
  /\ "dense" \in Failures
       \/ Cardinality({q \in rows : PartitionOf(q) = PartitionOf(r)}) + 1 < MaxRows

Accept(r) == MayFollow(appended, r) /\ AcceptCall(r)

InternalStep ==
  \/ AppendRow
  \/ CapFlush
  \/ DrainDone
  \/ \E k \in Partitions : CloseStale(k) \/ Drain(k) \/ SinkRaises(k)

BatcherNext == InternalStep \/ FlushAllCall \/ \E r \in Records : Accept(r)

BatcherSpec == BatcherInit /\ [][BatcherNext]_bvars

-----------------------------------------------------------------------------
(* Properties *)

\* The batcher's state is well formed; a record is in hand exactly while
\* accept() runs.
BatcherTypeOK ==
  /\ buffers \in [Partitions -> [rows : SUBSET Records, part : Nat]]
  /\ IsStore(store)
  /\ stats \in [rowsBuffered : Nat, rowsFlushed : Nat, filesWritten : Nat]
  /\ bpc \in {"idle", "accept", "cap", "drain", "raised", "closed"}
  /\ inHand \in Records \cup {NoRecord}
  /\ (bpc \in {"accept", "cap"}) <=> (inHand # NoRecord)
  /\ appended \subseteq Records
  /\ everPut \subseteq Records

\* Every row the batcher took is still in a buffer, or reached the bucket at
\* least once: a write that raises costs no buffered row, because
\* _flush_buffer writes before it clears.
NoRowDropped == appended \subseteq Held \cup everPut

\* An object holds only rows of the partition its key names, whichever call
\* caused the flush (a row of one hour closes buffers of other hours).
PartitionPurity ==
  \A f \in DOMAIN store : \A r \in store[f] : PartitionOf(r) = f[1]

\* A buffer of an hour that is not its satellite's newest holds only rows that
\* were accepted after every row of the newer hours: accepting an hour leaves
\* nothing older open (_close_stale_buffers_for_sat), so an old buffer is made
\* of late rows only, and in-order traffic has one open hour per satellite.
OnlyLateRowsBehind ==
  \A k \in Partitions : \A q \in buffers[k].rows : \A r \in appended :
    r.sat = k.sat /\ r.hour > k.hour => q.id > r.id

\* No buffer is at the row cap between calls: accept() flushes it at once.
BelowCapBetweenCalls ==
  bpc \in {"idle", "accept"} =>
    \A k \in Partitions : Cardinality(buffers[k].rows) < MaxRows

\* BatcherStats balance at every moment, also after a write that raised: a
\* row counted as buffered is counted as flushed or is still held.
StatsBalance ==
  stats.rowsBuffered = stats.rowsFlushed + Cardinality(Held)

\* "Bytes in are bytes out": after flush_all, a reader of the bucket sees every
\* row the batcher took.  True of the traffic the primary flush rule is for
\* (InOrderTraffic), where every partition is written once.
ClosedMeansArchived == bpc = "closed" => appended \subseteq RowsIn(store)

\* At every moment: rows are taken once, only taken rows are archived, and the
\* archive never loses a row to a later write (DurableArchive).
Durable == INSTANCE DurableArchive WITH Rows <- Records, accepted <- appended,
                                        archived <- RowsIn(store)
ImplementsDurableArchive == Durable!Spec

\* Sim-time in order per satellite, and no partition as large as the row cap.
InOrderTraffic == "late" \notin Failures /\ "dense" \notin Failures

=============================================================================
