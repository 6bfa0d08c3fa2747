------------------------ MODULE ConsumerRestart_proofs ------------------------
(***************************************************************************)
(* Consumer with any number of processes one after the other, each with a  *)
(* batcher of its own over the bucket the others left, whatever fails.     *)
(***************************************************************************)
EXTENDS Consumer_proofs

\* Offsets are in order, and none is past the end of the topic.
OffsetsInOrder ==
  /\ committed \in Nat /\ committed <= Len(log)
  /\ start \in Nat /\ start <= position
  /\ cpc = "dispatch" => position > start

\* Which call of the batcher may be running at each point of the loop
CallsInStep ==
  /\ cpc \in {"off", "loop", "poll", "dispatch", "accept", "drain", "close"}
  /\ cpc \in {"loop", "poll", "dispatch"} => bpc = "idle"
  /\ cpc = "accept" => bpc \in {"accept", "cap", "idle", "raised"}
  /\ cpc = "drain" => bpc \in {"drain", "closed", "raised"}
  /\ bpc = "closed" => Held = {}

\* The process has come through its loop with nothing raised.
CameThrough ==
  cpc = "drain" \/ (cpc \in {"close", "off"} /\ outcome = "clean" /\ life > 0)

\* A message polled is counted once its dispatch is over, a row buffered is
\* counted as received once accept() is.
Counted ==
  /\ idle \in Nat /\ received \in Nat /\ decodeErrors \in Nat
  /\ stop \in BOOLEAN /\ life \in 0..MaxLives
  /\ outcome \in {"running", "clean", "raised", "killed"}
  /\ cpc \in {"loop", "poll", "dispatch", "accept", "drain"} => outcome = "running"
  /\ cpc \in {"loop", "poll"} \/ CameThrough => received + decodeErrors = position - start
  /\ cpc \in {"dispatch", "accept"} => received + decodeErrors = position - start - 1
  /\ cpc \in {"loop", "poll", "dispatch"} \/ CameThrough => received = stats.rowsBuffered
  /\ cpc = "accept" /\ bpc = "accept" => received = stats.rowsBuffered
  /\ cpc = "accept" /\ bpc \in {"cap", "idle"} => received + 1 = stats.rowsBuffered
  /\ CameThrough /\ cpc # "drain" => bpc = "closed"

LifeInv ==
  /\ DriverInv /\ CapInv /\ StatsBalance
  /\ OffsetsInOrder /\ CallsInStep /\ Counted

-----------------------------------------------------------------------------
(* A new process, whatever the one before it left behind                   *)

LEMMA FreshBatcher ==
  ASSUME BatcherInv, NewBatcher
  PROVE  CapInv' /\ StatsBalance'
<1>1. /\ buffers' = [k \in Partitions |-> [rows |-> {}, part |-> 0]] /\ stats' = NoStats
      /\ bpc' = "idle" /\ inHand' = NoRecord /\ appended' = {}
      /\ store' = store /\ everPut' = everPut
  BY DEF NewBatcher, NoBuffers, EmptyBuffer
<1>2. \A k \in Partitions : buffers'[k].rows = {}
  BY <1>1
<1>3. BatcherTypeOK'
  <2>1. buffers' \in [Partitions -> [rows : SUBSET Records, part : Nat]]
    BY <1>1
  <2>2. stats' \in [rowsBuffered : Nat, rowsFlushed : Nat, filesWritten : Nat]
    BY <1>1 DEF NoStats
  <2> QED BY <1>1, <2>1, <2>2 DEF BatcherInv, BatcherTypeOK
<1>4. BatcherInv'
  BY <1>1, <1>2, <1>3, FS_EmptySet
  DEF BatcherInv, BuffersOwnTheirRows, InHandMayFollow, PartitionPurity, NoRowDropped,
      OnlyLateRowsBehind
<1>5. BelowCapBetweenCalls'
  BY <1>2, EmptyIsBelowCap DEF BelowCapBetweenCalls
<1>6. StatsBalance'
  <2>1. Held' = {}
    BY <1>2 DEF Held
  <2> QED BY <1>1, <2>1, FS_EmptySet DEF StatsBalance, NoStats
<1> QED BY <1>1, <1>4, <1>5, <1>6 DEF CapInv

LEMMA StartKeeps ==
  ASSUME DriverInv, OffsetsInOrder, Start
  PROVE  DriverInv' /\ NewBatcher
<1>1. /\ log' = log /\ appended' = {} /\ cpc' = "loop" /\ bpc' = "idle"
      /\ life' = life + 1 /\ life \in Nat
  BY DEF Start, NewBatcher, DriverInv, LogTyped
<1>2. position' \in Nat /\ position' <= Len(log)
  BY ConsumerAssumption DEF Start, DriverInv, LogTyped, OffsetsInOrder
<1>3. LogTyped' /\ LogInOrder'
  BY <1>1, <1>2 DEF DriverInv, LogTyped, LogInOrder, IsRow, Row, RowsUpTo, MayFollow
<1>4. AppendedPolled' /\ FirstProcessFresh'
  BY <1>1 DEF AppendedPolled, FirstProcessFresh
<1> QED BY <1>3, <1>4 DEF DriverInv, Start

\* Every step of a consumer, over all its lives, is for its batcher one it may
\* take, or the construction of a new one.
LEMMA AnyStep ==
  ASSUME DriverInv, OffsetsInOrder, BatcherInv, [Next]_cvars
  PROVE  DriverInv' /\ ([BatcherNext]_bvars \/ NewBatcher)
<1>1. CASE DispatchRow
  BY <1>1, DispatchRowOffers DEF BatcherInv, BatcherNext
<1>2. CASE BatcherRuns
  BY <1>2, BatcherRunsKeeps DEF BatcherRuns, BatcherNext
<1>3. CASE PollMessage
  BY <1>3, PollMessageKeeps DEF PollMessage
<1>4. CASE LeaveLoop \/ PollNothing
  BY <1>4, LeaveLoopKeeps DEF BatcherNext
<1>5. CASE Start
  BY <1>5, StartKeeps
<1>6. CASE QuietStep \/ UNCHANGED cvars
  BY <1>6, QuietStepKeeps
<1>7. ASSUME NEW m \in Messages, Publish(m)
      PROVE  DriverInv' /\ UNCHANGED bvars
  BY <1>7, PublishKeeps DEF Publish
<1> QED
  BY <1>1, <1>2, <1>3, <1>4, <1>5, <1>6, <1>7 DEF Next, ConsumerStep, QuietStep

LEMMA BatcherStepKeeps ==
  ASSUME CapInv, StatsBalance, [BatcherNext]_bvars \/ NewBatcher
  PROVE  CapInv' /\ StatsBalance'
<1>1. BatcherInv
  BY DEF CapInv
<1>2. CASE [BatcherNext]_bvars
  <2>1. BatcherInv'
    BY <1>1, <1>2, InternalStepKeeps, FlushAllCallKeeps, AcceptKeeps, BatcherStutters
    DEF BatcherNext
  <2> QED BY <1>1, <1>2, <2>1, CapStep, StatsStep
<1> QED BY <1>1, <1>2, FreshBatcher

LEMMA OffsetsStep ==
  ASSUME DriverInv, OffsetsInOrder, [Next]_cvars
  PROVE  OffsetsInOrder'
<1>1. /\ position \in Nat /\ position <= Len(log) /\ Len(log) \in Nat
      /\ start \in Nat /\ start <= position
      /\ committed \in Nat /\ committed <= Len(log)
  BY DEF DriverInv, LogTyped, OffsetsInOrder
<1>2. CASE \E m \in Messages : Publish(m)
  <2>1. Len(log') = Len(log) + 1 /\ UNCHANGED <<committed, start, position, cpc>>
    BY <1>2, PublishAppends DEF Publish, control, DriverInv
  <2> QED BY <1>1, <2>1 DEF OffsetsInOrder
<1>3. CASE Start
  BY <1>1, <1>3, ConsumerAssumption DEF Start, OffsetsInOrder
<1>4. CASE PollMessage
  BY <1>1, <1>4 DEF PollMessage, OffsetsInOrder
<1>5. CASE AutoCommit \/ Close
  BY <1>1, <1>5 DEF AutoCommit, Close, NewCommit, control, OffsetsInOrder
<1>6. CASE EnterPoll \/ LeaveLoop \/ PollNothing \/ DispatchRow \/ DispatchBad
  BY <1>6 DEF EnterPoll, LeaveLoop, PollNothing, DispatchRow, DispatchBad, control,
              OffsetsInOrder
<1>7. CASE \/ DispatchPoison \/ BatcherRuns \/ AcceptReturns \/ FlushAllReturns
           \/ BatcherRaises \/ RequestStop \/ Kill \/ UNCHANGED cvars
  BY <1>7 DEF DispatchPoison, BatcherRuns, AcceptReturns, FlushAllReturns, BatcherRaises,
              RequestStop, Kill, control, cvars, OffsetsInOrder
<1> QED
  BY <1>2, <1>3, <1>4, <1>5, <1>6, <1>7 DEF Next, ConsumerStep

-----------------------------------------------------------------------------
(* The counters                                                            *)

\* Where a step of the batcher leaves its call, and what it adds to the rows
\* buffered
LEMMA CallProgress ==
  ASSUME BatcherInv, InternalStep
  PROVE  /\ stats.rowsBuffered \in Nat
         /\ \/ /\ bpc = "accept" /\ bpc' \in {"accept", "raised"}
               /\ stats'.rowsBuffered = stats.rowsBuffered
            \/ /\ bpc = "accept" /\ bpc' \in {"cap", "idle"}
               /\ stats'.rowsBuffered = stats.rowsBuffered + 1
            \/ /\ bpc = "cap" /\ bpc' \in {"idle", "raised"}
               /\ stats'.rowsBuffered = stats.rowsBuffered
            \/ /\ bpc = "drain" /\ bpc' \in {"drain", "raised", "closed"}
               /\ stats'.rowsBuffered = stats.rowsBuffered
         /\ bpc' = "closed" => Held' = {}
<1>1. stats \in [rowsBuffered : Nat, rowsFlushed : Nat, filesWritten : Nat]
  BY DEF BatcherInv, BatcherTypeOK
<1>2. \A k : FlushBuffer(k) => stats'.rowsBuffered = stats.rowsBuffered
  BY <1>1 DEF FlushBuffer
<1>3. CASE AppendRow
  BY <1>1, <1>3 DEF AppendRow
<1>4. CASE CapFlush
  BY <1>1, <1>2, <1>4 DEF CapFlush
<1>5. ASSUME NEW k \in Partitions, CloseStale(k)
      PROVE  bpc = "accept" /\ bpc' = "accept" /\ stats'.rowsBuffered = stats.rowsBuffered
  BY <1>2, <1>5 DEF CloseStale
<1>6. ASSUME NEW k \in Partitions, Drain(k)
      PROVE  bpc = "drain" /\ bpc' = "drain" /\ stats'.rowsBuffered = stats.rowsBuffered
  BY <1>2, <1>6 DEF Drain
<1>7. ASSUME NEW k \in Partitions, SinkRaises(k)
      PROVE  /\ bpc \in {"accept", "cap", "drain"} /\ bpc' = "raised"
             /\ stats'.rowsBuffered = stats.rowsBuffered
  BY <1>7 DEF SinkRaises, FlushDue
<1>8. CASE DrainDone
  <2>1. Held' = {}
    BY <1>8 DEF DrainDone, OpenKeys, Held
  <2> QED BY <1>1, <1>8, <2>1 DEF DrainDone
<1> QED
  BY <1>1, <1>3, <1>4, <1>5, <1>6, <1>7, <1>8 DEF InternalStep

LEMMA CallsStep ==
  ASSUME BatcherInv, CallsInStep, [Next]_cvars
  PROVE  CallsInStep'
<1> USE DEF CallsInStep
<1>1. CASE BatcherRuns
  BY <1>1, CallProgress DEF BatcherRuns
<1>2. CASE LeaveLoop \/ PollNothing
  BY <1>2 DEF LeaveLoop, PollNothing, FlushAllCall, bvars, Held
<1>3. CASE DispatchRow
  BY <1>3 DEF DispatchRow, AcceptCall
<1>4. CASE Start
  BY <1>4 DEF Start, NewBatcher
<1>5. CASE EnterPoll \/ PollMessage \/ DispatchBad \/ DispatchPoison \/ AcceptReturns
  BY <1>5 DEF EnterPoll, PollMessage, DispatchBad, DispatchPoison, AcceptReturns, bvars, Held
<1>6. CASE \/ FlushAllReturns \/ BatcherRaises \/ Close \/ RequestStop \/ AutoCommit
           \/ Kill \/ UNCHANGED cvars
  BY <1>6 DEF FlushAllReturns, BatcherRaises, Close, RequestStop, AutoCommit, Kill, cvars,
              bvars, Held
<1>7. CASE \E m \in Messages : Publish(m)
  BY <1>7 DEF Publish, bvars, Held
<1> QED
  BY <1>1, <1>2, <1>3, <1>4, <1>5, <1>6, <1>7 DEF Next, ConsumerStep

LEMMA CountedStep ==
  ASSUME DriverInv, BatcherInv, OffsetsInOrder, CallsInStep, Counted, [Next]_cvars
  PROVE  Counted'
<1> USE DEF Counted, CameThrough, CallsInStep
<1>1. /\ position \in Nat /\ start \in Nat
      /\ stats.rowsBuffered \in Nat /\ life \in Nat
  BY DEF DriverInv, LogTyped, OffsetsInOrder, BatcherInv, BatcherTypeOK
<1>2. CASE BatcherRuns
  <2>1. /\ cpc' = cpc /\ cpc \in {"accept", "drain"}
        /\ UNCHANGED <<outcome, position, start, idle, stop, received, decodeErrors, life>>
    BY <1>2 DEF BatcherRuns, control
  <2> QED BY <1>1, <1>2, <2>1, CallProgress DEF BatcherRuns
<1>3. CASE LeaveLoop \/ PollNothing
  <2>1. /\ stats' = stats /\ cpc \in {"loop", "poll"} /\ cpc' \in {"loop", "drain"}
        /\ idle' \in Nat
        /\ UNCHANGED <<outcome, position, start, stop, received, decodeErrors, life>>
    BY <1>3 DEF LeaveLoop, PollNothing, FlushAllCall, control, bvars
  <2> QED BY <1>1, <2>1
<1>4. CASE DispatchRow
  <2>1. /\ stats' = stats /\ cpc = "dispatch" /\ cpc' = "accept" /\ bpc' = "accept"
        /\ UNCHANGED <<outcome, position, start, idle, stop, received, decodeErrors, life>>
    BY <1>4 DEF DispatchRow, AcceptCall, control
  <2> QED BY <1>1, <2>1
<1>5. CASE Start
  <2>1. /\ stats'.rowsBuffered = 0 /\ cpc' = "loop" /\ outcome' = "running"
        /\ position' = start' /\ received' = 0 /\ decodeErrors' = 0
        /\ idle' = 0 /\ stop' = FALSE /\ life' = life + 1 /\ life < MaxLives
    BY <1>5 DEF Start, NewBatcher, NoStats
  <2>2. start' \in Nat
    <3>1. Len(log) \in Nat
      BY DEF DriverInv, LogTyped
    <3> QED BY <1>5, <3>1, ConsumerAssumption DEF Start, OffsetsInOrder
  <2>3. stop' \in BOOLEAN
    BY <2>1, Zenon
  <2>4. life' \in 0..MaxLives
    BY <1>1, <2>1, ConsumerAssumption
  <2>5. position' - start' = 0
    <3>1. PICK s \in Nat : start' = s /\ position' = s
      BY <2>1, <2>2
    <3>2. s - s = 0
      OBVIOUS
    <3> QED BY <3>1, <3>2, Zenon
  <2> QED BY <2>1, <2>3, <2>4, <2>5
<1>6. CASE PollMessage
  <2>1. /\ stats' = stats /\ cpc = "poll" /\ cpc' = "dispatch"
        /\ position' = position + 1 /\ idle' = 0
        /\ UNCHANGED <<outcome, start, stop, received, decodeErrors, life>>
    BY <1>6 DEF PollMessage, bvars
  <2> QED BY <1>1, <2>1
<1>7. CASE DispatchBad
  <2>1. /\ stats' = stats /\ cpc = "dispatch" /\ cpc' = "loop"
        /\ decodeErrors' = decodeErrors + 1
        /\ UNCHANGED <<outcome, position, start, idle, stop, received, life>>
    BY <1>7 DEF DispatchBad, bvars
  <2> QED BY <1>1, <2>1
<1>8. CASE AcceptReturns
  <2>1. /\ stats' = stats /\ cpc = "accept" /\ bpc = "idle" /\ cpc' = "loop"
        /\ received' = received + 1
        /\ UNCHANGED <<outcome, position, start, idle, stop, decodeErrors, life>>
    BY <1>8 DEF AcceptReturns, bvars
  <2> QED BY <1>1, <2>1
<1>9. CASE FlushAllReturns
  <2>1. /\ UNCHANGED <<stats, bpc>> /\ cpc = "drain" /\ bpc = "closed"
        /\ cpc' = "close" /\ outcome' = "clean"
        /\ UNCHANGED <<position, start, idle, stop, received, decodeErrors, life>>
    BY <1>9 DEF FlushAllReturns, control, bvars
  <2> QED BY <1>1, <2>1
<1>10. CASE DispatchPoison \/ BatcherRaises
  <2>1. /\ cpc' = "close" /\ outcome' = "raised"
        /\ UNCHANGED <<idle, stop, received, decodeErrors, life>>
    BY <1>10 DEF DispatchPoison, BatcherRaises, control
  <2>2. ~CameThrough'
    BY <2>1
  <2> QED BY <1>1, <2>1, <2>2
<1>11. CASE Kill
  <2>1. /\ cpc' = "off" /\ outcome' = "killed"
        /\ UNCHANGED <<idle, stop, received, decodeErrors, life>>
    BY <1>11 DEF Kill, control
  <2> QED BY <1>1, <2>1
<1>12. CASE Close
  <2>1. /\ UNCHANGED <<stats, bpc, outcome>> /\ cpc = "close" /\ cpc' = "off"
        /\ UNCHANGED <<position, start, idle, stop, received, decodeErrors, life>>
    BY <1>12 DEF Close, control, bvars
  <2> QED BY <1>1, <2>1
<1>13. CASE EnterPoll
  <2>1. /\ UNCHANGED <<stats, bpc, outcome>> /\ cpc = "loop" /\ cpc' = "poll"
        /\ UNCHANGED <<position, start, idle, stop, received, decodeErrors, life>>
    BY <1>13 DEF EnterPoll, control, bvars
  <2> QED BY <1>1, <2>1
<1>14. CASE RequestStop
  BY <1>1, <1>14 DEF RequestStop, bvars
<1>15. CASE AutoCommit \/ (\E m \in Messages : Publish(m)) \/ UNCHANGED cvars
  BY <1>1, <1>15 DEF AutoCommit, Publish, cvars, control, bvars
<1> QED
  BY <1>2, <1>3, <1>4, <1>5, <1>6, <1>7, <1>8, <1>9, <1>10, <1>11, <1>12, <1>13, <1>14, <1>15
  DEF Next, ConsumerStep

-----------------------------------------------------------------------------
LEMMA LifeInit == Init => LifeInv
<1> SUFFICES ASSUME Init PROVE LifeInv
  OBVIOUS
<1>1. DriverInv /\ BatcherInv /\ BatcherInit /\ Len(log) = 0
  BY DriverInit, BatcherInitInv DEF Init
<1>2. CapInv /\ StatsBalance
  BY <1>1, FreshBalances, EmptyIsBelowCap
  DEF CapInv, BatcherInit, BelowCapBetweenCalls, NoBuffers, EmptyBuffer
<1>3. OffsetsInOrder /\ CallsInStep
  <2>1. Held = {}
    BY DEF Init, BatcherInit, Held, NoBuffers, EmptyBuffer
  <2> QED BY <1>1, <2>1 DEF Init, BatcherInit, OffsetsInOrder, CallsInStep
<1>4. Counted
  <2>1. stop \in BOOLEAN
    BY Zenon DEF Init
  <2> QED BY <2>1, ConsumerAssumption DEF Init, Counted, CameThrough
<1> QED BY <1>1, <1>2, <1>3, <1>4 DEF LifeInv

LEMMA LifeStep == LifeInv /\ [Next]_cvars => LifeInv'
<1> SUFFICES ASSUME LifeInv, [Next]_cvars PROVE LifeInv'
  OBVIOUS
<1>1. BatcherInv
  BY DEF LifeInv, CapInv
<1>2. DriverInv' /\ CapInv' /\ StatsBalance'
  BY <1>1, AnyStep, BatcherStepKeeps DEF LifeInv
<1> QED BY <1>1, <1>2, OffsetsStep, CallsStep, CountedStep DEF LifeInv

\* The consumer's state is well formed over any number of processes.
THEOREM ConsumerTyping == Spec => []TypeOK
<1>1. LifeInv => TypeOK
  BY DEF LifeInv, CapInv, BatcherInv, DriverInv, LogTyped, OffsetsInOrder, CallsInStep,
         Counted, TypeOK
<1> QED BY <1>1, LifeInit, LifeStep, PTL DEF Spec

\* After an orderly exit the counters of the consumer and of its batcher agree
\* with each other and with the topic: whatever the processes before it did, for
\* every topic, row cap and choice of failures.
THEOREM CleanExitsAddUp == Spec => []CleanExitAccounts
<1>1. LifeInv => CleanExitAccounts
  <2> SUFFICES ASSUME LifeInv, cpc = "off", outcome = "clean", life > 0
               PROVE  /\ received + decodeErrors = position - start
                      /\ received = stats.rowsBuffered
                      /\ received = stats.rowsFlushed
                      /\ Held = {}
    BY DEF CleanExitAccounts
  <2>1. /\ received + decodeErrors = position - start
        /\ received = stats.rowsBuffered /\ Held = {}
    BY DEF LifeInv, Counted, CameThrough, CallsInStep
  <2>2. stats.rowsBuffered = stats.rowsFlushed + 0 /\ stats.rowsFlushed \in Nat
    BY <2>1, FS_EmptySet DEF LifeInv, CapInv, BatcherInv, BatcherTypeOK, StatsBalance
  <2> QED BY <2>1, <2>2
<1> QED BY <1>1, LifeInit, LifeStep, PTL DEF Spec

\* What is proved of one batcher holds of the batchers of all processes: no row
\* taken is dropped, objects stay pure, the cap is kept and the statistics balance.
THEOREM RestartsKeepTheBatcher ==
  Spec => [](NoRowDropped /\ PartitionPurity /\ BelowCapBetweenCalls /\ StatsBalance)
<1>1. LifeInv => NoRowDropped /\ PartitionPurity /\ BelowCapBetweenCalls /\ StatsBalance
  BY DEF LifeInv, CapInv, BatcherInv
<1> QED BY <1>1, LifeInit, LifeStep, PTL DEF Spec

-----------------------------------------------------------------------------
(* Redelivered rows.  A buffer that is flushed is dropped with its part     *)
(* counter, so every object of every process is part 0 of its partition: a  *)
(* row that is flushed again goes to the object it was in.                  *)

LEMMA WriteKeepsParts ==
  ASSUME PartsAreZero, NEW k \in Partitions, WriteBuffer(k)
  PROVE  \A f \in DOMAIN store' : f[2] = 0
<1>1. store' = Put(store, <<k, 0>>, buffers[k].rows)
  BY DEF WriteBuffer, PartsAreZero
<1> QED BY <1>1 DEF Put, PartsAreZero

LEMMA PartsStep ==
  ASSUME BatcherTypeOK, PartsAreZero, [BatcherNext]_bvars \/ NewBatcher
  PROVE  PartsAreZero'
<1>1. \A k \in Partitions : buffers[k].part = 0
  BY DEF PartsAreZero
<1>2. \A f \in DOMAIN store : f[2] = 0
  BY DEF PartsAreZero
<1>3. buffers \in [Partitions -> [rows : SUBSET Records, part : Nat]]
  BY DEF BatcherTypeOK
<1>4. ASSUME NEW k \in Partitions, FlushBuffer(k) PROVE PartsAreZero'
  <2>1. \A f \in DOMAIN store' : f[2] = 0
    BY <1>4, WriteKeepsParts DEF FlushBuffer
  <2>2. \A p \in Partitions : buffers'[p].part = 0
    BY <1>1, <1>3, <1>4 DEF FlushBuffer, EmptyBuffer
  <2> QED BY <2>1, <2>2 DEF PartsAreZero
<1>5. ASSUME NEW k \in Partitions, SinkRaises(k) PROVE PartsAreZero'
  BY <1>1, <1>2, <1>5, WriteKeepsParts DEF SinkRaises, PartsAreZero
<1>6. CASE AppendRow
  <2>1. \A p \in Partitions : buffers'[p].part = 0
    BY <1>1, <1>3, <1>6 DEF AppendRow
  <2> QED BY <1>2, <1>6, <2>1 DEF AppendRow, PartsAreZero
<1>7. CASE CapFlush
  <2>1. PartitionOf(inHand) \in Partitions
    BY <1>7 DEF CapFlush, BatcherTypeOK, PartitionOf, Records, Partitions
  <2> QED BY <1>4, <1>7, <2>1 DEF CapFlush
<1>8. CASE DrainDone \/ FlushAllCall \/ UNCHANGED bvars
  BY <1>1, <1>2, <1>8 DEF DrainDone, FlushAllCall, bvars, PartsAreZero
<1>9. ASSUME NEW r \in Records, Accept(r) PROVE PartsAreZero'
  BY <1>1, <1>2, <1>9 DEF Accept, AcceptCall, PartsAreZero
<1>10. CASE NewBatcher
  BY <1>2, <1>10 DEF NewBatcher, NoBuffers, EmptyBuffer, PartsAreZero
<1> QED
  BY <1>4, <1>5, <1>6, <1>7, <1>8, <1>9, <1>10
  DEF BatcherNext, InternalStep, CloseStale, Drain

\* NoRowTwice for every topic, row cap, choice of failures and number of
\* processes: whatever is polled again after a kill, flushed early or flushed
\* twice, no two objects share a row.
THEOREM NoRowInTwoObjects == Spec => []NoRowTwice
<1>1. Init => PartsAreZero
  BY DEF Init, BatcherInit, NoBuffers, EmptyBuffer, EmptyStore, PartsAreZero
<1>2. LifeInv /\ PartsAreZero /\ [Next]_cvars => PartsAreZero'
  BY AnyStep, PartsStep DEF LifeInv, CapInv, BatcherInv
<1>3. LifeInv /\ PartsAreZero => NoRowTwice
  <2> SUFFICES ASSUME LifeInv, PartsAreZero,
                      NEW f \in DOMAIN store, NEW g \in DOMAIN store, f # g
               PROVE  store[f] \cap store[g] = {}
    BY DEF NoRowTwice
  <2>1. IsStore(store) /\ PartitionPurity
    BY DEF LifeInv, CapInv, BatcherInv, BatcherTypeOK
  <2>2. f \in Partitions \X Nat /\ g \in Partitions \X Nat
    BY <2>1 DEF IsStore, ObjectKeys
  <2>3. f[1] # g[1]
    BY <2>2 DEF PartsAreZero
  <2> QED BY <2>1, <2>3 DEF PartitionPurity
<1> QED BY <1>1, <1>2, <1>3, LifeInit, LifeStep, PTL DEF Spec

=============================================================================
