------------------------------ MODULE Archive ------------------------------
(***************************************************************************)
(* The Parquet archive: an object store addressed by Hive-style keys       *)
(*     sat_id=<X>/date=<D>/hour=<H>/part-<NNNN>.parquet                    *)
(* (src/orbit_ops/pipeline/storage.py, batcher.py).  A store is a function *)
(* from the keys that hold an object to the rows of that object.           *)
(*                                                                         *)
(* A row carries what the pipeline's control depends on: its identity      *)
(* (which accepted record, or which Kafka offset, it came from), its       *)
(* satellite, and the absolute sim-hour its timestamp falls in.  The pair  *)
(* (date, hour) of the key is that one number: ISO dates compare as the    *)
(* code compares them, lexicographically with the hour.                    *)
(***************************************************************************)
EXTENDS Naturals

CONSTANTS Sats,        \* satellite ids
          Hours,       \* absolute sim-hours
          MaxRecords   \* bound: identities of records

ASSUME ArchiveAssumption == Hours \subseteq Nat /\ MaxRecords \in Nat

Records    == [id : 1..MaxRecords, sat : Sats, hour : Hours]
Partitions == [sat : Sats, hour : Hours]

\* _BufferKey.from_record: the partition bucket of a row.
PartitionOf(r) == [sat |-> r.sat, hour |-> r.hour]

\* _BufferKey.s3_key: a partition and a part number name one object.
ObjectKeys == Partitions \X Nat

EmptyStore == [f \in {} |-> {}]

\* S3ParquetWriter.write: put_object creates the object or replaces it whole.
Put(store, key, rows) ==
  [f \in DOMAIN store \cup {key} |-> IF f = key THEN rows ELSE store[f]]

\* What a reader of the bucket (the dbt models' glob over part files) sees.
RowsIn(store) == UNION {store[f] : f \in DOMAIN store}

IsStore(store) ==
  /\ DOMAIN store \subseteq ObjectKeys
  /\ \A f \in DOMAIN store : store[f] \subseteq Records
=============================================================================
