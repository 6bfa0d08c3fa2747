-------------------------- MODULE Consumer_proofs --------------------------
(***************************************************************************)
(* One process of Consumer drives its batcher the way Batcher is specified *)
(* to be driven, for every topic: it offers records in topic order, each   *)
(* once.  What is proved of Batcher therefore holds inside the consumer.   *)
(***************************************************************************)
EXTENDS Consumer, Batcher_proofs

LogTyped ==
  /\ log \in Seq(Messages) /\ Len(log) <= MaxRecords
  /\ position \in Nat /\ position <= Len(log)
  /\ life \in Nat

\* Publishers respect the order and density this instance assumes.
LogInOrder == \A o \in 1..Len(log) : IsRow(o) => MayFollow(RowsUpTo(o - 1), Row(o))

\* The batcher has seen rows of the topic up to the one in hand.
AppendedPolled ==
  /\ appended \subseteq RowsUpTo(position)
  /\ cpc = "dispatch" => position > 0 /\ appended \subseteq RowsUpTo(position - 1)
  /\ bpc \in {"accept", "cap"} /\ cpc # "off" =>
       /\ cpc = "accept"
       /\ position > 0 /\ IsRow(position) /\ inHand = Row(position)

\* Before the first process there is nothing for it to construct anew.
FirstProcessFresh ==
  life = 0 =>
    /\ cpc = "off" /\ committed = 0
    /\ buffers = NoBuffers /\ stats = NoStats
    /\ bpc = "idle" /\ inHand = NoRecord /\ appended = {}

DriverInv == LogTyped /\ LogInOrder /\ AppendedPolled /\ FirstProcessFresh

-----------------------------------------------------------------------------
(* The topic *)

LEMMA RowFacts ==
  ASSUME LogTyped, NEW o \in 1..Len(log), IsRow(o)
  PROVE  Row(o) \in Records /\ Row(o).id = o
<1>1. log[o] \in Messages
  BY DEF LogTyped
<1>2. log[o].sat \in Sats /\ log[o].hour \in Hours
  BY <1>1 DEF Messages, IsRow
<1>3. o \in 1..MaxRecords
  BY ArchiveAssumption DEF LogTyped
<1> QED BY <1>2, <1>3 DEF Row, Records

LEMMA RowsUpToFinite ==
  ASSUME NEW n \in Nat
  PROVE  IsFiniteSet(RowsUpTo(n))
<1> DEFINE S == {p \in 1..n : IsRow(p)}
           f == [o \in S |-> Row(o)]
<1>1. IsFiniteSet(S)
  <2>1. IsFiniteSet(1..n)
    BY FS_Interval
  <2> QED BY <2>1, FS_Subset
<1>2. f \in Surjection(S, RowsUpTo(n))
  BY DEF Surjection, RowsUpTo
<1> HIDE DEF S, f
<1> QED BY <1>1, <1>2, FS_Surjection

LEMMA RowsUpToNext ==
  ASSUME NEW n \in Nat, n > 0, IsRow(n)
  PROVE  RowsUpTo(n) = RowsUpTo(n - 1) \cup {Row(n)}
<1>1. 1..n = (1..(n - 1)) \cup {n}
  OBVIOUS
<1> QED BY <1>1 DEF RowsUpTo

\* A record may follow part of the rows if it may follow all of them.
LEMMA MayFollowPart ==
  ASSUME NEW rows, IsFiniteSet(rows), NEW part \in SUBSET rows, NEW r,
         MayFollow(rows, r)
  PROVE  MayFollow(part, r)
<1> DEFINE Same(s) == {q \in s : PartitionOf(q) = PartitionOf(r)}
<1>1. Same(part) \in SUBSET Same(rows) /\ IsFiniteSet(Same(rows))
  BY FS_Subset
<1>2. /\ Cardinality(Same(part)) <= Cardinality(Same(rows))
      /\ Cardinality(Same(part)) \in Nat /\ Cardinality(Same(rows)) \in Nat
  BY <1>1, FS_Subset, FS_CardinalityType
<1>3. Cardinality(Same(rows)) + 1 < MaxRows => Cardinality(Same(part)) + 1 < MaxRows
  BY <1>2, BatcherAssumption
<1> QED BY <1>3 DEF MayFollow

\* Publishing changes nothing that was on the topic before.
LEMMA PublishAppends ==
  ASSUME LogTyped, NEW m \in Messages, Publish(m)
  PROVE  /\ Len(log) \in Nat
         /\ log' = Append(log, m) /\ Len(log') = Len(log) + 1
         /\ log'[Len(log) + 1] = m
         /\ \A o \in 1..Len(log) : IsRow(o)' = IsRow(o) /\ Row(o)' = Row(o)
         /\ \A n \in 0..Len(log) : RowsUpTo(n)' = RowsUpTo(n)
<1>1. /\ log \in Seq(Messages) /\ Len(log) \in Nat
      /\ log' = Append(log, m) /\ Len(log') = Len(log) + 1
      /\ \A o \in 1..Len(log) : log'[o] = log[o]
      /\ log'[Len(log) + 1] = m
  BY DEF LogTyped, Publish
<1>2. \A o \in 1..Len(log) : IsRow(o)' = IsRow(o) /\ Row(o)' = Row(o)
  BY <1>1 DEF IsRow, Row
<1>3. ASSUME NEW n \in 0..Len(log)
      PROVE  RowsUpTo(n)' = RowsUpTo(n)
  <2>1. 1..n \subseteq 1..Len(log)
    BY <1>1
  <2>2. RowsUpTo(n)' = {Row(o)' : o \in {p \in 1..n : IsRow(p)'}}
    BY DEF RowsUpTo
  <2>3. {p \in 1..n : IsRow(p)'} = {p \in 1..n : IsRow(p)}
    BY <1>2, <2>1
  <2> QED BY <1>2, <2>1, <2>2, <2>3 DEF RowsUpTo
<1> QED BY <1>1, <1>2, <1>3

\* So it keeps what is known of the topic, and appends a row that may follow.
LEMMA PublishKeeps ==
  ASSUME DriverInv, NEW m \in Messages, Publish(m)
  PROVE  DriverInv'
<1>1. /\ log \in Seq(Messages) /\ Len(log) \in Nat
      /\ log' = Append(log, m) /\ Len(log') = Len(log) + 1
      /\ log'[Len(log) + 1] = m
  BY PublishAppends DEF DriverInv, LogTyped
<1>2. LogTyped'
  BY <1>1, ArchiveAssumption DEF DriverInv, LogTyped, Publish, control
<1>3. \A o \in 1..Len(log) : IsRow(o)' = IsRow(o) /\ Row(o)' = Row(o)
  BY PublishAppends DEF DriverInv
<1>4. \A n \in 0..Len(log) : RowsUpTo(n)' = RowsUpTo(n)
  BY PublishAppends DEF DriverInv
<1>5. LogInOrder'
  <2> SUFFICES ASSUME NEW o \in 1..Len(log'), IsRow(o)'
               PROVE  MayFollow(RowsUpTo(o - 1)', Row(o)')
    BY DEF LogInOrder, MayFollow
  <2>1. CASE o \in 1..Len(log)
    <3>1. o - 1 \in 0..Len(log)
      BY <1>1, <2>1
    <3>2. RowsUpTo(o - 1)' = RowsUpTo(o - 1) /\ IsRow(o) /\ Row(o)' = Row(o)
      BY <1>3, <1>4, <2>1, <3>1
    <3> QED BY <2>1, <3>2 DEF DriverInv, LogInOrder
  <2>2. CASE o = Len(log) + 1
    <3>1. o - 1 = Len(log) /\ Len(log) \in 0..Len(log)
      BY <1>1, <2>2
    <3>2. RowsUpTo(o - 1)' = RowsUpTo(Len(log))
      BY <1>4, <3>1
    <3>3. m.kind = "row" /\ Row(o)' = [id |-> Len(log) + 1, sat |-> m.sat, hour |-> m.hour]
      BY <1>1, <2>2 DEF IsRow, Row
    <3> QED BY <3>2, <3>3 DEF Publish
  <2> QED BY <1>1, <2>1, <2>2
<1>6. AppendedPolled'
  <2>1. position' = position /\ position \in 0..Len(log)
        /\ UNCHANGED <<appended, cpc, bpc, inHand>>
    BY <1>1 DEF DriverInv, LogTyped, Publish, control, bvars
  <2>2. RowsUpTo(position)' = RowsUpTo(position)
    BY <1>4, <2>1 DEF RowsUpTo, Row, IsRow
  <2>3. position > 0 => /\ RowsUpTo(position - 1)' = RowsUpTo(position - 1)
                        /\ IsRow(position)' = IsRow(position)
                        /\ Row(position)' = Row(position)
    <3> SUFFICES ASSUME position > 0
                 PROVE  /\ RowsUpTo(position - 1)' = RowsUpTo(position - 1)
                        /\ IsRow(position)' = IsRow(position)
                        /\ Row(position)' = Row(position)
      OBVIOUS
    <3>1. position - 1 \in 0..Len(log) /\ position \in 1..Len(log)
      BY <1>1, <2>1
    <3> QED BY <1>3, <1>4, <2>1, <3>1 DEF RowsUpTo, Row, IsRow
  <2> QED BY <2>1, <2>2, <2>3 DEF DriverInv, AppendedPolled
<1>7. FirstProcessFresh'
  BY DEF DriverInv, FirstProcessFresh, Publish, control, bvars
<1> QED BY <1>2, <1>5, <1>6, <1>7 DEF DriverInv

-----------------------------------------------------------------------------
(* The consumer's own steps *)

\* Steps that leave the topic and the position alone keep what is said of them.
LEMMA TopicUnchanged ==
  ASSUME DriverInv, UNCHANGED <<log, position, life>>
  PROVE  /\ LogTyped' /\ LogInOrder'
         /\ \A n : RowsUpTo(n)' = RowsUpTo(n)
         /\ IsRow(position)' = IsRow(position) /\ Row(position)' = Row(position)
<1>1. \A o : IsRow(o)' = IsRow(o) /\ Row(o)' = Row(o)
  BY DEF IsRow, Row
<1>2. \A n : RowsUpTo(n)' = RowsUpTo(n)
  BY DEF RowsUpTo, IsRow, Row
<1>3. LogInOrder'
  BY <1>1, <1>2 DEF DriverInv, LogInOrder, MayFollow
<1> QED BY <1>1, <1>2, <1>3 DEF DriverInv, LogTyped, IsRow, Row

\* What a step of the batcher can do to the record in hand.
LEMMA InternalStepOnHand ==
  ASSUME InternalStep
  PROVE  /\ \/ appended' = appended
            \/ bpc = "accept" /\ appended' = appended \cup {inHand}
         /\ bpc' \in {"accept", "cap"} => bpc \in {"accept", "cap"} /\ inHand' = inHand
<1>1. ASSUME NEW k \in Partitions, CloseStale(k) \/ Drain(k) \/ SinkRaises(k)
      PROVE  /\ appended' = appended
             /\ bpc' \in {"accept", "cap"} => bpc \in {"accept", "cap"} /\ inHand' = inHand
  BY <1>1 DEF CloseStale, Drain, SinkRaises
<1>2. CASE AppendRow
  BY <1>2 DEF AppendRow
<1>3. CASE CapFlush \/ DrainDone
  BY <1>3 DEF CapFlush, DrainDone
<1> QED BY <1>1, <1>2, <1>3 DEF InternalStep

LEMMA BatcherRunsKeeps ==
  ASSUME DriverInv, BatcherRuns
  PROVE  DriverInv'
<1>1. /\ UNCHANGED <<log, position, life, cpc>>
      /\ cpc \in {"accept", "drain"} /\ InternalStep
  BY DEF BatcherRuns, control
<1>2. LogTyped' /\ LogInOrder' /\ RowsUpTo(position)' = RowsUpTo(position)
      /\ IsRow(position)' = IsRow(position) /\ Row(position)' = Row(position)
  BY <1>1, TopicUnchanged
<1>3. AppendedPolled'
  <2>1. appended' \subseteq RowsUpTo(position)
    <3>1. CASE appended' = appended
      BY <3>1 DEF DriverInv, AppendedPolled
    <3>2. CASE bpc = "accept" /\ appended' = appended \cup {inHand}
      <4>1. position > 0 /\ IsRow(position) /\ inHand = Row(position)
        BY <1>1, <3>2 DEF DriverInv, AppendedPolled
      <4>2. inHand \in RowsUpTo(position)
        BY <4>1, RowsUpToNext DEF DriverInv, LogTyped
      <4> QED BY <3>2, <4>2 DEF DriverInv, AppendedPolled
    <3> QED BY <1>1, <3>1, <3>2, InternalStepOnHand
  <2> QED BY <1>1, <1>2, <2>1, InternalStepOnHand DEF DriverInv, AppendedPolled
<1>4. FirstProcessFresh'
  BY <1>1 DEF DriverInv, FirstProcessFresh
<1> QED BY <1>2, <1>3, <1>4 DEF DriverInv

LEMMA DispatchRowOffers ==
  ASSUME DriverInv, IsFiniteSet(appended), DispatchRow
  PROVE  DriverInv' /\ Row(position) \in Records /\ Accept(Row(position))
<1>1. /\ UNCHANGED <<log, position, life, appended>>
      /\ cpc = "dispatch" /\ IsRow(position) /\ AcceptCall(Row(position))
      /\ cpc' = "accept" /\ bpc' = "accept" /\ inHand' = Row(position)
  BY DEF DispatchRow, AcceptCall, control
<1>2. position \in 1..Len(log) /\ position \in Nat /\ position > 0
  BY <1>1 DEF DriverInv, LogTyped, AppendedPolled
<1>3. Row(position) \in Records
  BY <1>1, <1>2, RowFacts DEF DriverInv
<1>4. MayFollow(appended, Row(position))
  <2>1. MayFollow(RowsUpTo(position - 1), Row(position))
    BY <1>1, <1>2 DEF DriverInv, LogInOrder
  <2>2. appended \in SUBSET RowsUpTo(position - 1)
    BY <1>1 DEF DriverInv, AppendedPolled
  <2>3. IsFiniteSet(RowsUpTo(position - 1))
    BY <1>2, RowsUpToFinite
  <2> QED BY <2>1, <2>2, <2>3, MayFollowPart
<1>5. AppendedPolled'
  BY <1>1, <1>2, TopicUnchanged DEF DriverInv, AppendedPolled
<1>6. FirstProcessFresh'
  BY <1>1 DEF DriverInv, FirstProcessFresh
<1> QED BY <1>1, <1>3, <1>4, <1>5, <1>6, TopicUnchanged DEF DriverInv, Accept

LEMMA PollMessageKeeps ==
  ASSUME DriverInv, PollMessage
  PROVE  DriverInv'
<1>1. /\ UNCHANGED <<log, life, bvars>> /\ position' = position + 1
      /\ cpc = "poll" /\ cpc' = "dispatch" /\ position < Len(log)
  BY DEF PollMessage
<1>2. RowsUpTo(position)' = RowsUpTo(position') /\ RowsUpTo(position - 1)' = RowsUpTo(position' - 1)
  BY <1>1 DEF RowsUpTo, IsRow, Row
<1>3. /\ position \in Nat /\ position' \in Nat /\ position' - 1 = position
      /\ position' > 0 /\ position' <= Len(log)
  BY <1>1 DEF DriverInv, LogTyped
<1>4. AppendedPolled'
  <2>1. RowsUpTo(position) \subseteq RowsUpTo(position')
    <3>1. 1..position \subseteq 1..(position + 1)
      BY <1>3
    <3> QED BY <1>1, <3>1 DEF RowsUpTo
  <2>2. appended' \subseteq RowsUpTo(position) /\ bpc' = bpc
    BY <1>1 DEF DriverInv, AppendedPolled, bvars
  <2>3. bpc \notin {"accept", "cap"}
    BY <1>1 DEF DriverInv, AppendedPolled
  <2> QED BY <1>2, <1>3, <2>1, <2>2, <2>3 DEF AppendedPolled
<1>5. LogTyped' /\ LogInOrder'
  BY <1>1, <1>3 DEF DriverInv, LogTyped, LogInOrder, IsRow, Row, RowsUpTo, MayFollow
<1>6. FirstProcessFresh'
  BY <1>1 DEF DriverInv, FirstProcessFresh
<1> QED BY <1>4, <1>5, <1>6 DEF DriverInv

\* The steps that touch neither the topic, nor the position, nor the batcher.
QuietStep ==
  \/ RequestStop \/ AutoCommit \/ Kill \/ EnterPoll \/ DispatchBad
  \/ DispatchPoison \/ AcceptReturns \/ FlushAllReturns \/ BatcherRaises \/ Close

LEMMA QuietStepKeeps ==
  ASSUME DriverInv, QuietStep \/ UNCHANGED cvars
  PROVE  DriverInv' /\ UNCHANGED bvars
<1>1. /\ UNCHANGED <<bvars, log, position, life>>
      /\ cpc' # "dispatch" \/ cpc' = cpc
      /\ cpc' = cpc \/ cpc' = "off" \/ bpc \notin {"accept", "cap"}
      /\ life = 0 => cpc' = "off" /\ committed' = committed
  BY DEF QuietStep, RequestStop, AutoCommit, Kill, EnterPoll, DispatchBad,
         DispatchPoison, AcceptReturns, FlushAllReturns, BatcherRaises, Close,
         control, cvars, DriverInv, AppendedPolled, FirstProcessFresh
<1>2. AppendedPolled'
  BY <1>1, TopicUnchanged DEF DriverInv, AppendedPolled, bvars
<1>3. FirstProcessFresh'
  BY <1>1 DEF DriverInv, FirstProcessFresh, bvars
<1> QED BY <1>1, <1>2, <1>3, TopicUnchanged DEF DriverInv

\* The two ways out of the loop into flush_all, and a poll without a message.
LEMMA LeaveLoopKeeps ==
  ASSUME DriverInv, LeaveLoop \/ PollNothing
  PROVE  DriverInv' /\ (FlushAllCall \/ UNCHANGED bvars)
<1>1. /\ UNCHANGED <<log, position, life, appended>>
      /\ cpc \in {"loop", "poll"} /\ cpc' \in {"loop", "drain"}
      /\ FlushAllCall \/ UNCHANGED bvars
  BY DEF LeaveLoop, PollNothing, FlushAllCall, control, bvars
<1>2. bpc' \notin {"accept", "cap"}
  BY <1>1 DEF FlushAllCall, bvars, DriverInv, AppendedPolled
<1>3. AppendedPolled'
  BY <1>1, <1>2, TopicUnchanged DEF DriverInv, AppendedPolled
<1>4. FirstProcessFresh'
  BY <1>1 DEF DriverInv, FirstProcessFresh
<1> QED BY <1>1, <1>3, <1>4, TopicUnchanged DEF DriverInv

\* The first process constructs the batcher the specification starts with.
LEMMA FirstStartKeeps ==
  ASSUME MaxLives <= 1, DriverInv, Start
  PROVE  DriverInv' /\ UNCHANGED bvars
<1>1. life = 0 /\ life' = 1
  BY ConsumerAssumption DEF Start, DriverInv, LogTyped
<1>2. UNCHANGED bvars
  BY <1>1 DEF Start, NewBatcher, DriverInv, FirstProcessFresh, bvars
<1>3. log' = log /\ appended' = {} /\ cpc' = "loop" /\ bpc' = "idle"
  BY DEF Start, NewBatcher
<1>4. position' \in Nat /\ position' <= Len(log)
  BY <1>1, ConsumerAssumption DEF Start, DriverInv, LogTyped, FirstProcessFresh
<1>5. LogTyped' /\ LogInOrder'
  BY <1>1, <1>3, <1>4 DEF DriverInv, LogTyped, LogInOrder, IsRow, Row, RowsUpTo, MayFollow
<1>6. AppendedPolled' /\ FirstProcessFresh'
  BY <1>1, <1>3 DEF AppendedPolled, FirstProcessFresh
<1> QED BY <1>2, <1>5, <1>6 DEF DriverInv

-----------------------------------------------------------------------------
LEMMA DriverInit == Init => DriverInv /\ BatcherInit
<1> SUFFICES ASSUME Init PROVE DriverInv
  BY DEF Init
<1>1. log = <<>> /\ Len(log) = 0
  BY DEF Init
<1>2. LogTyped /\ LogInOrder
  BY <1>1, ArchiveAssumption DEF Init, LogTyped, LogInOrder
<1>3. AppendedPolled /\ FirstProcessFresh
  BY DEF Init, BatcherInit, AppendedPolled, FirstProcessFresh
<1> QED BY <1>2, <1>3 DEF DriverInv

LEMMA DriverStep ==
  ASSUME MaxLives <= 1, DriverInv, BatcherInv, [Next]_cvars
  PROVE  DriverInv' /\ [BatcherNext]_bvars
<1>1. CASE DispatchRow
  BY <1>1, DispatchRowOffers DEF BatcherInv, BatcherNext
<1>2. CASE BatcherRuns
  BY <1>2, BatcherRunsKeeps DEF BatcherRuns, BatcherNext
<1>3. CASE PollMessage
  BY <1>3, PollMessageKeeps DEF PollMessage
<1>4. CASE LeaveLoop \/ PollNothing
  BY <1>4, LeaveLoopKeeps DEF BatcherNext
<1>5. CASE Start
  BY <1>5, FirstStartKeeps
<1>6. CASE QuietStep \/ UNCHANGED cvars
  BY <1>6, QuietStepKeeps
<1>7. ASSUME NEW m \in Messages, Publish(m)
      PROVE  DriverInv' /\ UNCHANGED bvars
  BY <1>7, PublishKeeps DEF Publish
<1> QED
  BY <1>1, <1>2, <1>3, <1>4, <1>5, <1>6, <1>7 DEF Next, ConsumerStep, QuietStep

\* One consumer process implements Batcher's specification: whatever is on the
\* topic, and whenever it is stopped, killed or a write fails, it offers the
\* batcher rows in topic order, each once, and flushes it at most once.
THEOREM ConsumerImplementsBatcher ==
  ASSUME MaxLives <= 1
  PROVE  Spec => BatcherSpec
<1>1. Init => DriverInv /\ BatcherInv /\ BatcherInit
  BY DriverInit, BatcherInitInv
<1>2. DriverInv /\ BatcherInv /\ [Next]_cvars
        => DriverInv' /\ BatcherInv' /\ [BatcherNext]_bvars
  <2>1. BatcherInv /\ [BatcherNext]_bvars => BatcherInv'
    BY InternalStepKeeps, FlushAllCallKeeps, AcceptKeeps, BatcherStutters
    DEF BatcherNext
  <2> QED BY <2>1, DriverStep
<1> QED BY <1>1, <1>2, PTL DEF Spec, BatcherSpec

\* So one consumer process over an in-order topic implements the durable
\* archive, with any number of failing writes, stops and kills.
THEOREM ConsumerImplementsDurableArchive ==
  ASSUME MaxLives <= 1, InOrderTraffic
  PROVE  Spec => ImplementsDurableArchive
  BY ConsumerImplementsBatcher, BatcherImplementsDurableArchive, PTL

-----------------------------------------------------------------------------
(* Without failures, nothing that is committed can get lost.               *)

Calm ==
  /\ MaxLives <= 1 /\ FromBeginning
  /\ Failures = {} /\ "crash" \notin Faults /\ "poison" \notin Kinds

CommittedPolled ==
  /\ committed \in Nat /\ committed <= position
  /\ start = 0
  /\ life = 0 => position = 0

\* Every row polled was appended, or is the one being handed over.
PolledTaken ==
  \A r \in RowsUpTo(position) :
    \/ r \in appended
    \/ cpc = "dispatch" /\ IsRow(position) /\ r = Row(position)
    \/ bpc = "accept" /\ r = inHand

\* The process ends only after flush_all has emptied the buffers.
EndsFlushed ==
  /\ bpc # "raised"
  /\ bpc = "closed" => OpenKeys = {}
  /\ cpc = "close" \/ (cpc = "off" /\ life > 0) => bpc = "closed"

CalmInv == CommittedPolled /\ PolledTaken /\ EndsFlushed /\ PutStays

LEMMA CalmImpliesKept ==
  ASSUME DriverInv, BatcherInv, CalmInv
  PROVE  CommittedRowsKept
<1> SUFFICES ASSUME NEW o \in 1..committed, IsRow(o)
             PROVE  Row(o) \in RowsIn(store) \cup InFlight
  BY DEF CommittedRowsKept
<1>1. o \in 1..position
  BY DEF CalmInv, CommittedPolled, DriverInv, LogTyped
<1>2. Row(o) \in RowsUpTo(position) /\ position > 0
  BY <1>1 DEF RowsUpTo, DriverInv, LogTyped
<1>3. life > 0
  BY <1>2 DEF CalmInv, CommittedPolled, DriverInv, LogTyped
<1>4. CASE Row(o) \in appended
  <2>1. Row(o) \in Held \cup RowsIn(store)
    BY <1>4 DEF BatcherInv, NoRowDropped, CalmInv, PutStays
  <2>2. cpc = "off" => Held = {}
    BY <1>3 DEF CalmInv, EndsFlushed, OpenKeys, Held
  <2> QED BY <2>1, <2>2 DEF InFlight
<1>5. CASE cpc = "dispatch" /\ IsRow(position) /\ Row(o) = Row(position)
  BY <1>5 DEF InFlight
<1>6. CASE bpc = "accept" /\ Row(o) = inHand
  <2>1. cpc # "off"
    BY <1>3, <1>6 DEF CalmInv, EndsFlushed
  <2>2. inHand # NoRecord
    BY <1>6 DEF BatcherInv, BatcherTypeOK
  <2> QED BY <1>6, <2>1, <2>2 DEF InFlight
<1> QED BY <1>2, <1>4, <1>5, <1>6 DEF CalmInv, PolledTaken

LEMMA CalmBatcherRuns ==
  ASSUME Calm, DriverInv, BatcherInv, CalmInv, BatcherRuns
  PROVE  CommittedPolled' /\ PolledTaken' /\ EndsFlushed'
<1>1. /\ UNCHANGED <<log, position, start, life, cpc, committed>>
      /\ cpc \in {"accept", "drain"} /\ InternalStep
  BY DEF BatcherRuns, control
<1>2. CommittedPolled'
  BY <1>1 DEF CalmInv, CommittedPolled
<1>3. /\ appended \subseteq appended'
      /\ bpc = "accept" => inHand \in appended' \/ (bpc' = "accept" /\ inHand' = inHand)
      /\ bpc' # "raised"
      /\ bpc' = "closed" => OpenKeys' = {}
  <2>1. ASSUME NEW k \in Partitions, CloseStale(k) \/ Drain(k)
        PROVE  appended' = appended /\ bpc' = bpc /\ inHand' = inHand /\ bpc \in {"accept", "drain"}
    BY <2>1 DEF CloseStale, Drain
  <2>2. \A k \in Partitions : ~SinkRaises(k)
    BY DEF Calm, SinkRaises
  <2>3. CASE AppendRow
    BY <2>3 DEF AppendRow
  <2>4. CASE CapFlush
    BY <2>4 DEF CapFlush
  <2>5. CASE DrainDone
    BY <2>5 DEF DrainDone, OpenKeys
  <2> QED BY <1>1, <2>1, <2>2, <2>3, <2>4, <2>5 DEF InternalStep
<1>4. PolledTaken'
  BY <1>1, <1>3, TopicUnchanged DEF CalmInv, PolledTaken
<1>5. EndsFlushed'
  BY <1>1, <1>3 DEF CalmInv, EndsFlushed
<1> QED BY <1>2, <1>4, <1>5

\* In a calm instance the process does not end through an exception.
LEMMA CalmNeverRaises ==
  ASSUME Calm, DriverInv, CalmInv
  PROVE  ~Kill /\ ~DispatchPoison /\ ~BatcherRaises
<1>1. ~Kill /\ ~BatcherRaises
  BY DEF Calm, CalmInv, EndsFlushed, Kill, BatcherRaises
<1>2. ASSUME DispatchPoison
      PROVE  FALSE
  <2>1. position \in 1..Len(log) /\ log \in Seq(Messages)
    BY <1>2 DEF DispatchPoison, DriverInv, LogTyped, AppendedPolled
  <2>2. log[position] \in Messages /\ log[position].kind = "poison"
    BY <1>2, <2>1 DEF DispatchPoison
  <2> QED BY <2>2 DEF Messages, Calm
<1> QED BY <1>1, <1>2

LEMMA CalmQuietStep ==
  ASSUME Calm, DriverInv, CalmInv, QuietStep \/ UNCHANGED cvars
  PROVE  CommittedPolled' /\ PolledTaken' /\ EndsFlushed'
<1>1. /\ UNCHANGED <<bvars, log, position, start, life>>
      /\ committed' = committed \/ committed' = NewCommit
      /\ cpc = "dispatch" => cpc' = "dispatch" \/ ~IsRow(position)
      /\ cpc' = cpc \/ (cpc' = "close" /\ bpc = "closed")
           \/ (cpc' = "off" /\ cpc = "close") \/ cpc' \in {"loop", "poll"}
  BY CalmNeverRaises
  DEF QuietStep, RequestStop, AutoCommit, EnterPoll, DispatchBad,
      AcceptReturns, FlushAllReturns, Close, IsRow, control, cvars
<1>2. CommittedPolled'
  BY <1>1 DEF CalmInv, CommittedPolled, NewCommit, DriverInv, LogTyped
<1>3. PolledTaken'
  BY <1>1, TopicUnchanged DEF CalmInv, PolledTaken, bvars
<1>4. EndsFlushed'
  BY <1>1 DEF CalmInv, EndsFlushed, bvars, OpenKeys
<1> QED BY <1>2, <1>3, <1>4

LEMMA CalmPollMessage ==
  ASSUME DriverInv, CalmInv, PollMessage
  PROVE  CommittedPolled' /\ PolledTaken' /\ EndsFlushed'
<1>1. /\ UNCHANGED <<log, life, start, committed, bvars>>
      /\ position' = position + 1 /\ position \in Nat
      /\ cpc = "poll" /\ cpc' = "dispatch"
  BY DEF PollMessage, DriverInv, LogTyped
<1>2. CommittedPolled'
  BY <1>1 DEF CalmInv, CommittedPolled, DriverInv, FirstProcessFresh
<1>3. ASSUME NEW r \in RowsUpTo(position)'
      PROVE  r \in RowsUpTo(position) \/ (IsRow(position') /\ r = Row(position'))
  <2>1. PICK o \in 1..(position + 1) : IsRow(o) /\ r = Row(o)
    BY <1>1, <1>3 DEF RowsUpTo, IsRow, Row
  <2>2. o \in 1..position \/ o = position'
    BY <1>1, <2>1
  <2> QED BY <2>1, <2>2 DEF RowsUpTo
<1>4. PolledTaken'
  BY <1>1, <1>3 DEF CalmInv, PolledTaken, bvars, IsRow, Row
<1>5. EndsFlushed'
  BY <1>1 DEF CalmInv, EndsFlushed, bvars, OpenKeys
<1> QED BY <1>2, <1>4, <1>5

\* Handing a row over, and the ways into flush_all.
LEMMA CalmCalls ==
  ASSUME DriverInv, CalmInv, DispatchRow \/ LeaveLoop \/ PollNothing
  PROVE  CommittedPolled' /\ PolledTaken' /\ EndsFlushed'
<1>1. UNCHANGED <<log, position, start, life, committed, appended, buffers>>
  BY DEF DispatchRow, LeaveLoop, PollNothing, AcceptCall, FlushAllCall, control, bvars
<1>2. CommittedPolled'
  BY <1>1 DEF CalmInv, CommittedPolled
<1>3. RowsUpTo(position)' = RowsUpTo(position)
  BY <1>1, TopicUnchanged
<1>4. CASE DispatchRow
  <2>1. /\ cpc = "dispatch" /\ cpc' = "accept" /\ bpc = "idle" /\ bpc' = "accept"
        /\ inHand' = Row(position)
    BY <1>4 DEF DispatchRow, AcceptCall
  <2>2. PolledTaken' /\ EndsFlushed'
    BY <1>1, <1>3, <2>1 DEF CalmInv, PolledTaken, EndsFlushed
  <2> QED BY <1>2, <2>2
<1>5. CASE LeaveLoop \/ PollNothing
  <2>1. /\ cpc \in {"loop", "poll"} /\ cpc' \in {"loop", "drain"}
        /\ inHand' = inHand
        /\ bpc' = bpc \/ (bpc = "idle" /\ bpc' = "drain")
    BY <1>5 DEF LeaveLoop, PollNothing, FlushAllCall, bvars
  <2>2. PolledTaken' /\ EndsFlushed'
    BY <1>1, <1>3, <2>1 DEF CalmInv, PolledTaken, EndsFlushed, OpenKeys
  <2> QED BY <1>2, <2>2
<1> QED BY <1>4, <1>5

LEMMA CalmStart ==
  ASSUME Calm, DriverInv, CalmInv, Start
  PROVE  CommittedPolled' /\ PolledTaken' /\ EndsFlushed'
<1>1. life = 0 /\ life' = 1
  BY ConsumerAssumption DEF Start, DriverInv, LogTyped, Calm
<1>2. /\ committed' = committed /\ committed = 0
      /\ start' = 0 /\ position' = 0
      /\ cpc' = "loop" /\ bpc' = "idle"
  BY <1>1 DEF Start, NewBatcher, DriverInv, FirstProcessFresh, Calm
<1>3. RowsUpTo(position)' = {}
  BY <1>2 DEF RowsUpTo
<1> QED BY <1>1, <1>2, <1>3 DEF CommittedPolled, PolledTaken, EndsFlushed

LEMMA CalmPublish ==
  ASSUME DriverInv, CalmInv, NEW m \in Messages, Publish(m)
  PROVE  CommittedPolled' /\ PolledTaken' /\ EndsFlushed'
<1>1. /\ UNCHANGED <<bvars, committed, cpc, outcome, control>>
      /\ position' = position /\ position \in 0..Len(log)
  BY PublishAppends DEF Publish, control, DriverInv, LogTyped
<1>2. RowsUpTo(position)' = RowsUpTo(position)
  <2>1. \A n \in 0..Len(log) : RowsUpTo(n)' = RowsUpTo(n)
    BY PublishAppends DEF DriverInv
  <2> QED BY <1>1, <2>1 DEF RowsUpTo, Row, IsRow
<1>3. cpc = "dispatch" => IsRow(position)' = IsRow(position) /\ Row(position)' = Row(position)
  <2>1. cpc = "dispatch" => position \in 1..Len(log)
    BY <1>1 DEF DriverInv, LogTyped, AppendedPolled
  <2>2. \A o \in 1..Len(log) : IsRow(o)' = IsRow(o) /\ Row(o)' = Row(o)
    BY PublishAppends DEF DriverInv
  <2> QED BY <1>1, <2>1, <2>2 DEF Row, IsRow
<1>4. PolledTaken'
  BY <1>1, <1>2, <1>3 DEF CalmInv, PolledTaken, bvars
<1>5. CommittedPolled' /\ EndsFlushed'
  BY <1>1 DEF CalmInv, CommittedPolled, EndsFlushed, bvars, control, OpenKeys
<1> QED BY <1>4, <1>5

LEMMA CalmInit == Init => CalmInv
<1> SUFFICES ASSUME Init PROVE CalmInv
  OBVIOUS
<1>1. RowsUpTo(position) = {} /\ everPut = {}
  BY DEF Init, BatcherInit, RowsUpTo
<1> QED BY <1>1 DEF Init, BatcherInit, CalmInv, CommittedPolled, PolledTaken,
                    EndsFlushed, PutStays

LEMMA CalmStep ==
  ASSUME Calm, DriverInv, BatcherInv, WriteOnceInv, CalmInv, [Next]_cvars
  PROVE  CalmInv'
<1>1. PutStays'
  <2>1. InOrderTraffic /\ MaxLives <= 1
    BY DEF Calm, InOrderTraffic
  <2> QED BY <2>1, DriverStep, BatcherStepPuts DEF CalmInv
<1>2. CommittedPolled' /\ PolledTaken' /\ EndsFlushed'
  <2>1. ASSUME NEW m \in Messages, Publish(m)
        PROVE  CommittedPolled' /\ PolledTaken' /\ EndsFlushed'
    BY <2>1, CalmPublish
  <2> QED
    BY <2>1, CalmQuietStep, CalmPollMessage, CalmCalls, CalmStart, CalmBatcherRuns
    DEF Next, ConsumerStep, QuietStep
<1> QED BY <1>1, <1>2 DEF CalmInv

\* Without failing writes, kills and poisonous messages, a row whose offset is
\* committed is in the archive or in the hands of the running process, although
\* auto-commit runs ahead of the writes: the process never ends before
\* flush_all emptied the buffers, and objects are written once.
THEOREM ConsumerKeepsCommittedRows ==
  ASSUME Calm
  PROVE  Spec => []CommittedRowsKept
<1> DEFINE Inv == DriverInv /\ BatcherInv /\ WriteOnceInv /\ CalmInv
<1>1. Init => Inv
  BY DriverInit, BatcherInitInv, WriteOnceInit, CalmInit
<1>2. Inv /\ [Next]_cvars => Inv'
  <2> SUFFICES ASSUME Inv, [Next]_cvars PROVE Inv'
    OBVIOUS
  <2>1. MaxLives <= 1 /\ InOrderTraffic
    BY DEF Calm, InOrderTraffic
  <2>2. DriverInv' /\ [BatcherNext]_bvars
    BY <2>1, DriverStep
  <2>3. BatcherInv'
    BY <2>2, InternalStepKeeps, FlushAllCallKeeps, AcceptKeeps, BatcherStutters
    DEF BatcherNext
  <2>4. WriteOnceInv'
    BY <2>1, <2>2, WriteOnceStep
  <2> QED BY <2>2, <2>3, <2>4, CalmStep
<1>3. Inv => CommittedRowsKept
  BY CalmImpliesKept
<1> QED BY <1>1, <1>2, <1>3, PTL DEF Spec

=============================================================================
