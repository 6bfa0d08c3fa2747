------------------------------ MODULE Consumer ------------------------------
(***************************************************************************)
(* TelemetryConsumer over KafkaSource (src/orbit_ops/pipeline/consumer.py):*)
(* the loop that polls the topic, decodes a message, hands the record to   *)
(* the batcher, and on shutdown flushes the batcher and closes the source. *)
(* The batcher's steps are Batcher's own actions.                          *)
(*                                                                         *)
(* The topic is a sequence of messages; an offset is a position in it, and *)
(* is the identity of the row its message decodes to.  Offsets are         *)
(* committed in the background up to the last message poll() returned      *)
(* (enable.auto.commit), and once more by close().  A process that ends,   *)
(* by itself or by a kill, loses its memory; a later one starts over from  *)
(* the committed offset.                                                   *)
(***************************************************************************)
EXTENDS Batcher, Sequences

CONSTANTS IdleLimit,      \* idle_polls_before_exit; 0 is None, as in cli.py
          FromBeginning,  \* auto.offset.reset is "earliest"
          Kinds,          \* kinds of messages on the topic
          Faults,         \* which of "crash", "slow" this instance includes
          MaxLives        \* bound: consumer processes, one after the other

\* "crash": the process is killed
\* "slow":  poll() returns None although the topic has more (a rebalance, a
\*          broker error that KafkaSource.poll logs, a fetch that took longer)
ASSUME ConsumerAssumption ==
  /\ IdleLimit \in Nat
  /\ FromBeginning \in BOOLEAN
  /\ Kinds \subseteq {"row", "bad", "poison"}
  /\ MaxLives \in Nat

VARIABLES log,           \* the topic
          position,      \* offset up to which poll() has returned messages
          committed,     \* the group's committed offset; 0 when there is none
          start,         \* the position this process started from
          cpc,           \* where the consumer thread is; "off": no process
          idle,          \* idle_streak
          stop,          \* _stop_requested
          received,      \* ConsumerStats.messages_received
          decodeErrors,  \* ConsumerStats.decode_errors
          outcome,       \* how the last process ended, or "running"
          life           \* number of processes started so far

control == <<position, start, idle, stop, received, decodeErrors, life>>
cvars  == <<bvars, log, committed, cpc, outcome, control>>

\* "row":    decodes to a TelemetryRecord the batcher accepts
\* "bad":    json.loads or TelemetryRecord(**payload) raises what _dispatch
\*           catches (malformed JSON, a missing or unexpected field)
\* "poison": raises something else (bytes that are not UTF-8, a sim_time_iso
\*           that does not parse, which accept() finds out first thing)
Messages == [kind : Kinds \cap {"row"}, sat : Sats, hour : Hours]
              \cup [kind : Kinds \ {"row"}]

IsRow(o)      == log[o].kind = "row"
Row(o)        == [id |-> o, sat |-> log[o].sat, hour |-> log[o].hour]
RowsUpTo(n)   == {Row(o) : o \in {p \in 1..n : IsRow(p)}}

Init ==
  /\ BatcherInit
  /\ log = <<>>
  /\ position = 0 /\ committed = 0 /\ start = 0
  /\ cpc = "off" /\ outcome = "clean" /\ life = 0
  /\ idle = 0 /\ stop = FALSE
  /\ received = 0 /\ decodeErrors = 0

-----------------------------------------------------------------------------
(* Around the consumer: the topic grows, signals arrive, the client library *)
(* commits in the background, processes are killed and started.             *)

Publish(m) ==
  /\ Len(log) < MaxRecords
  /\ m.kind = "row" =>
       MayFollow(RowsUpTo(Len(log)),
                 [id |-> Len(log) + 1, sat |-> m.sat, hour |-> m.hour])
  /\ log' = Append(log, m)
  /\ UNCHANGED <<bvars, committed, cpc, outcome, control>>

RequestStop ==
  /\ cpc # "off" /\ ~stop
  /\ stop' = TRUE
  /\ UNCHANGED <<bvars, log, committed, cpc, outcome, position, start, idle,
                 received, decodeErrors, life>>

\* The offsets poll() handed out, whatever became of the messages since.
NewCommit == IF position > start THEN position ELSE committed

AutoCommit ==
  /\ cpc # "off" /\ committed # NewCommit
  /\ committed' = NewCommit
  /\ UNCHANGED <<bvars, log, cpc, outcome, control>>

Kill ==
  /\ "crash" \in Faults
  /\ cpc # "off"
  /\ cpc' = "off" /\ outcome' = "killed"
  /\ UNCHANGED <<bvars, log, committed, control>>

\* pipeline_consume builds a batcher, a source and a consumer and runs it.
Start ==
  /\ cpc = "off" /\ life < MaxLives
  /\ NewBatcher
  /\ start' = IF committed > 0 THEN committed
              ELSE IF FromBeginning THEN 0 ELSE Len(log)
  /\ position' = start'
  /\ cpc' = "loop" /\ outcome' = "running" /\ life' = life + 1
  /\ idle' = 0 /\ stop' = FALSE
  /\ received' = 0 /\ decodeErrors' = 0
  /\ UNCHANGED <<log, committed>>

-----------------------------------------------------------------------------
(* run() *)

\* while not self._stop_requested
\* Mutant of EnterPoll: the loop does not look at the stop request.
EnterPollAnyway ==
  /\ cpc = "loop"
  /\ cpc' = "poll"
  /\ UNCHANGED <<bvars, log, committed, outcome, control>>

EnterPoll ==
  /\ cpc = "loop" /\ ~stop
  /\ cpc' = "poll"
  /\ UNCHANGED <<bvars, log, committed, outcome, control>>

\* Mutant of LeaveLoop: a stop request returns from run() right away.
LeaveLoopAtOnce ==
  /\ cpc = "loop" /\ stop
  /\ cpc' = "close"
  /\ UNCHANGED <<bvars, log, committed, outcome, control>>

LeaveLoop ==
  /\ cpc = "loop" /\ stop
  /\ cpc' = "drain"
  /\ FlushAllCall
  /\ UNCHANGED <<log, committed, outcome, control>>

PollMessage ==
  /\ cpc = "poll" /\ position < Len(log)
  /\ position' = position + 1
  /\ idle' = 0
  /\ cpc' = "dispatch"
  /\ UNCHANGED <<bvars, log, committed, outcome, start, stop, received,
                 decodeErrors, life>>

\* Mutant of PollNothing: a lost connection resumes from the committed offset.
PollNothingRewinds ==
  /\ cpc = "poll"
  /\ position = Len(log) \/ "slow" \in Faults
  /\ position' = IF committed > start THEN committed ELSE start
  /\ cpc' = "loop"
  /\ UNCHANGED <<bvars, idle, log, committed, outcome, start, stop, received,
                 decodeErrors, life>>

\* Mutant of PollNothing: the idle exit returns instead of breaking out.
PollNothingReturns ==
  /\ cpc = "poll"
  /\ position = Len(log) \/ "slow" \in Faults
  /\ idle' = IF IdleLimit = 0 THEN 0 ELSE idle + 1
  /\ cpc' = IF IdleLimit # 0 /\ idle' >= IdleLimit THEN "close" ELSE "loop"
  /\ UNCHANGED <<bvars, log, committed, outcome, position, start, stop, received,
                 decodeErrors, life>>

\* A poll without a message; without a limit the streak is never looked at.
PollNothing ==
  /\ cpc = "poll"
  /\ position = Len(log) \/ "slow" \in Faults
  /\ idle' = IF IdleLimit = 0 THEN 0 ELSE idle + 1
  /\ IF IdleLimit # 0 /\ idle' >= IdleLimit
     THEN cpc' = "drain" /\ FlushAllCall
     ELSE cpc' = "loop" /\ UNCHANGED bvars
  /\ UNCHANGED <<log, committed, outcome, position, start, stop, received,
                 decodeErrors, life>>

-----------------------------------------------------------------------------
(* _dispatch(): the message in hand is the one at `position` *)

DispatchRow ==
  /\ cpc = "dispatch" /\ IsRow(position)
  /\ AcceptCall(Row(position))
  /\ cpc' = "accept"
  /\ UNCHANGED <<log, committed, outcome, control>>

\* Mutant of DispatchBad: the except clause falls through to the counter.
DispatchBadCounted ==
  /\ cpc = "dispatch" /\ log[position].kind = "bad"
  /\ decodeErrors' = decodeErrors + 1
  /\ received' = received + 1
  /\ cpc' = "loop"
  /\ UNCHANGED <<bvars, log, committed, outcome, position, start, idle, stop, life>>

DispatchBad ==
  /\ cpc = "dispatch" /\ log[position].kind = "bad"
  /\ decodeErrors' = decodeErrors + 1
  /\ cpc' = "loop"
  /\ UNCHANGED <<bvars, log, committed, outcome, position, start, idle, stop,
                 received, life>>

\* The exception leaves run() through its finally clause: no flush_all.
DispatchPoison ==
  /\ cpc = "dispatch" /\ log[position].kind = "poison"
  /\ cpc' = "close" /\ outcome' = "raised"
  /\ UNCHANGED <<bvars, log, committed, control>>

BatcherRuns ==
  /\ cpc \in {"accept", "drain"}
  /\ InternalStep
  /\ UNCHANGED <<log, committed, cpc, outcome, control>>

\* Mutant of AcceptReturns: the loop does not wait for accept() to finish.
AcceptReturnsAtOnce ==
  /\ cpc = "accept"
  /\ received' = received + 1
  /\ cpc' = "loop"
  /\ UNCHANGED <<bvars, log, committed, outcome, position, start, idle, stop,
                 decodeErrors, life>>

AcceptReturns ==
  /\ cpc = "accept" /\ bpc = "idle"
  /\ received' = received + 1
  /\ cpc' = "loop"
  /\ UNCHANGED <<bvars, log, committed, outcome, position, start, idle, stop,
                 decodeErrors, life>>

\* Mutant of FlushAllReturns: the source is closed while buffers are open.
FlushAllReturnsAtOnce ==
  /\ cpc = "drain"
  /\ cpc' = "close" /\ outcome' = "clean"
  /\ UNCHANGED <<bvars, log, committed, control>>

FlushAllReturns ==
  /\ cpc = "drain" /\ bpc = "closed"
  /\ cpc' = "close" /\ outcome' = "clean"
  /\ UNCHANGED <<bvars, log, committed, control>>

BatcherRaises ==
  /\ cpc \in {"accept", "drain"} /\ bpc = "raised"
  /\ cpc' = "close" /\ outcome' = "raised"
  /\ UNCHANGED <<bvars, log, committed, control>>

\* finally: self._source.close(), which commits.
Close ==
  /\ cpc = "close"
  /\ committed' = NewCommit
  /\ cpc' = "off"
  /\ UNCHANGED <<bvars, log, outcome, control>>

ConsumerStep ==
  \/ EnterPoll \/ LeaveLoop \/ PollMessage \/ PollNothing
  \/ DispatchRow \/ DispatchBad \/ DispatchPoison
  \/ BatcherRuns \/ AcceptReturns \/ FlushAllReturns \/ BatcherRaises
  \/ Close

Next ==
  \/ ConsumerStep
  \/ RequestStop \/ AutoCommit \/ Kill \/ Start
  \/ \E m \in Messages : Publish(m)

Spec == Init /\ [][Next]_cvars

\* The thread runs on: poll() has a timeout, a write returns or raises.
FairSpec == Spec /\ WF_cvars(ConsumerStep)

-----------------------------------------------------------------------------
(* Properties *)

\* The consumer's state is well formed, and the batcher is inside a call
\* exactly when the thread waits for it.
TypeOK ==
  /\ BatcherTypeOK
  /\ log \in Seq(Messages) /\ Len(log) <= MaxRecords
  /\ start <= position /\ position <= Len(log) /\ committed <= Len(log)
  /\ start \in Nat /\ position \in Nat /\ committed \in Nat
  /\ cpc \in {"off", "loop", "poll", "dispatch", "accept", "drain", "close"}
  /\ outcome \in {"running", "clean", "raised", "killed"}
  /\ idle \in Nat /\ received \in Nat /\ decodeErrors \in Nat
  /\ life \in 0..MaxLives
  /\ stop \in BOOLEAN
  /\ cpc \in {"loop", "poll", "dispatch"} => bpc = "idle"
  /\ cpc = "dispatch" => position > start

\* Rows the live process still has to store.
InFlight ==
  IF cpc = "off" THEN {}
  ELSE Held \cup {r \in {inHand} : r # NoRecord}
            \cup {Row(o) : o \in {p \in {position} : cpc = "dispatch" /\ IsRow(p)}}

\* Bytes in are bytes out: a row whose offset is committed, and which will
\* therefore never be polled again, is archived or the live process holds it,
\* although auto-commit runs ahead of the archive writes.
CommittedRowsKept ==
  \A o \in 1..committed : IsRow(o) => Row(o) \in RowsIn(store) \cup InFlight

\* "Bytes in are bytes out" as the repository's tests read it: produce, consume
\* to an orderly end, query; every row polled by now is in the archive.
ConsumedIsArchived ==
  cpc = "off" /\ outcome = "clean" => RowsUpTo(position) \subseteq RowsIn(store)

\* A row is never in two objects, whatever was redelivered, flushed early or
\* flushed twice, so readers of the bucket see it once.
NoRowTwice ==
  \A f, g \in DOMAIN store : f # g => store[f] \cap store[g] = {}

\* After an orderly exit the two sets of counters agree with each other and
\* with the topic: every message polled was either counted as a decode error,
\* or counted as received, buffered and flushed.
CleanExitAccounts ==
  cpc = "off" /\ outcome = "clean" /\ life > 0 =>
    /\ received + decodeErrors = position - start
    /\ received = stats.rowsBuffered
    /\ received = stats.rowsFlushed
    /\ Held = {}

\* A message that cannot be made into a row does not end the consumer.
NeverRaises == outcome # "raised"

\* A requested stop ends the process.
StopHonoured == stop ~> cpc = "off"

\* After a stop request, every row in hand or in a buffer gets archived.
StopArchivesHeld ==
  \A o \in 1..MaxRecords :
    (stop /\ \E r \in InFlight : r.id = o) ~> \E r \in RowsIn(store) : r.id = o

=============================================================================
