--------------------------- MODULE DurableArchive ---------------------------
(***************************************************************************)
(* What the write path promises its readers, without partitions, buffers   *)
(* or files: a row is accepted once, only accepted rows are archived, and  *)
(* the archive never loses one.  Batcher implements it for the traffic its *)
(* primary flush rule is meant for (src/orbit_ops/pipeline/batcher.py).    *)
(***************************************************************************)
CONSTANT Rows

VARIABLES accepted,   \* rows the writer has taken
          archived    \* rows a reader of the archive sees

avars == <<accepted, archived>>

Init == accepted = {} /\ archived = {}

Take(r) ==
  /\ r \notin accepted
  /\ accepted' = accepted \cup {r}
  /\ UNCHANGED archived

Store ==
  /\ archived \subseteq archived'
  /\ archived' \subseteq accepted
  /\ UNCHANGED accepted

Next == Store \/ \E r \in Rows : Take(r)

Spec == Init /\ [][Next]_avars
=============================================================================
