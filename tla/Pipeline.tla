------------------------------ MODULE Pipeline ------------------------------
(***************************************************************************)
(* The write path end to end: a Producer's topic is the log of a Consumer, *)
(* whose batcher fills the archive.  The two processes share nothing but   *)
(* the topic (src/orbit_ops/cli.py: `sim run`, `pipeline consume`); `log`  *)
(* is the topic as the consumer reads it and follows it in every step.     *)
(* The dbt models read the archive.                                        *)
(***************************************************************************)
EXTENDS Producer, Consumer, Marts

CONSTANTS HourLength,   \* simulated time units per sim-hour
          MinuteLength  \* and per minute bucket of the rollup

ASSUME PipelineAssumption == HourLength \in Nat \ {0} /\ MinuteLength \in Nat \ {0}

\* Mutant of Wire: the hour is taken from the wrong field of the timestamp.
WireWrongField(m) == [kind |-> "row", sat |-> m.sat, hour |-> m.stamp % HourLength]

\* to_json_bytes, then _record_from_payload and _BufferKey.from_record: of a
\* message's payload the consumer's control depends on the hour only.
Wire(m) == [kind |-> "row", sat |-> m.sat, hour |-> m.stamp \div HourLength]

\* The consumer's log is the producer's topic.
OnTheWire(messages) == [i \in DOMAIN messages |-> Wire(messages[i])]

PipelineInit == ProducerInit /\ Init

ConsumerWaits ==
  /\ log' = OnTheWire(topic')
  /\ UNCHANGED <<bvars, committed, cpc, outcome, control>>

ProducerMoves == ProducerNext /\ ConsumerWaits

ConsumerMoves ==
  /\ UNCHANGED pvars
  /\ ConsumerStep \/ RequestStop \/ AutoCommit \/ Kill \/ Start

PipelineNext == ProducerMoves \/ ConsumerMoves

vars == <<pvars, cvars>>

PipelineSpec == PipelineInit /\ [][PipelineNext]_vars

\* Both threads run on, the client delivers, and somebody starts the consumer.
PipelineFairSpec ==
  /\ PipelineSpec
  /\ WF_vars(ProducerStep /\ ConsumerWaits)
  /\ WF_vars(Deliver /\ ConsumerWaits)
  /\ WF_vars(UNCHANGED pvars /\ ConsumerStep)
  /\ WF_vars(UNCHANGED pvars /\ Start)

-----------------------------------------------------------------------------
(* Properties *)

\* One session, of satellites with a name each and of fewer ticks in an hour than
\* the row cap, within the bounds of the consumer's side
OneRun ==
  /\ MaxSessions <= 1 /\ DistinctNames
  /\ HourLength <= TickSeconds * (MaxRows - 1)
  /\ "row" \in Kinds
  /\ \A cmd \in CommandLines : Runs(cmd) =>
       LET chosen == Chosen(cmd.tle, cmd.limit)
       IN  /\ MaxTickCount * Len(chosen) <= MaxRecords
           /\ \A i \in DOMAIN chosen : chosen[i].name \in Sats
  /\ \A t \in 0..MaxGap + MaxTickCount * TickSeconds : t \div HourLength \in Hours

\* One session of the producer is the publisher the consumer is specified
\* against: in sim-time order per satellite, whole hours below the row cap.
ConsumerSpec == Spec

\* Both sides ended in good order, and the consumer read to the end.
AllRead ==
  /\ ppc = "off" /\ ending = "clean" /\ session > 0
  /\ cpc = "off" /\ outcome = "clean" /\ life > 0
  /\ position = Len(topic)

\* When both sides are done, the archive has exactly the rows the producer
\* reports, each once.
BytesInBytesOut ==
  AllRead => Cardinality(RowsIn(store)) = sent /\ stats.rowsFlushed = sent

\* What read_parquet finds: every row of every object, with what the message
\* said that it was made from.
RawRow(object, offset) ==
  LET m == topic[offset]
  IN  [object |-> object, offset |-> offset, sat |-> m.sat, stamp |-> m.stamp,
       shadow |-> m.shadow, soc |-> m.soc, net |-> m.net, temp |-> m.temp, heat |-> m.heat]

Raw == UNION {{RawRow(f, r.id) : r \in store[f]} : f \in DOMAIN store}

\* What the simulation comes to, satellite by satellite and without messages,
\* files or joins
Drawn(sat) == Alone(Bound(file, simStart), sat, ticks)

MinuteOf(i) == (simStart + (i - 1) * TickSeconds) \div MinuteLength

DrawnMinute(sat, m) ==
  LET d == Drawn(sat)
      within == {i \in 1..ticks : MinuteOf(i) = m}
  IN  [sat |-> sat, minute |-> m, count |-> Cardinality(within),
       soc  |-> SumFunction([i \in within |-> d[i].soc]),
       eclipse |-> Cardinality({i \in within : d[i].shadow}),
       temp |-> SumFunction([i \in within |-> d[i].temp]),
       heat |-> SumFunction([i \in within |-> d[i].heat])]

\* The tables show the simulation, not the way it took: when both sides are
\* done, the rollup has one row for every satellite and minute, over that
\* minute's ticks and no others, and the snapshot one row per satellite, its
\* last tick (its sat_id is tested to be unique).
MartsShowTheSimulation ==
  AllRead =>
    /\ {[sat |-> r.sat, minute |-> r.minute, count |-> r.count, soc |-> r.soc,
          eclipse |-> r.eclipse, temp |-> r.temp, heat |-> r.heat] :
            r \in Rollup(Raw, MinuteLength)}
       = {DrawnMinute(sat, m) : sat \in FleetIds, m \in {MinuteOf(i) : i \in 1..ticks}}
    /\ ticks > 0 =>
         /\ Cardinality(Snapshot(Raw)) = Len(fleet)
         /\ \A r \in Snapshot(Raw) :
              LET last == Drawn(r.sat)[ticks] IN
              /\ r.soc = last.soc /\ r.temp = last.temp
              /\ r.shadow = last.shadow /\ r.net = last.net

\* The consumer's last polls came back empty, as many in a row as its limit, with
\* messages it has not read: the group was still joining, or a fetch was slow.
LeftEarly == idle >= IdleLimit /\ position < Len(topic)

\* `make demo-full` starts a consumer with an idle limit after a simulation that ran
\* to its end.  Unless it is told to stop, it ends, and has archived every row of the
\* simulation; or it left early, and then what it read is archived all the same, and
\* the rest, not committed, is there for the next process.
DemoArchivesWhatItReads ==
  (ppc = "off" /\ ending = "clean" /\ session = 1 /\ life = 0)
    ~> \/ stop
       \/ /\ cpc = "off" /\ life = 1 /\ committed = position
          /\ \/ Cardinality(RowsIn(store)) = ticks * Len(fleet)
             \/ LeftEarly /\ RowsIn(store) = RowsUpTo(position)

=============================================================================
