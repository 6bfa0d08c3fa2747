# Verification of orbit-ops

TLA+ models of orbit-ops, a satellite-telemetry demonstrator written in Python:
a simulator publishes one message per satellite and tick to a Kafka-compatible
topic, a consumer batches the messages into Parquet objects in an S3 bucket, SQL
models aggregate the archive, and detectors look for injected faults in it.
TLC checks small instances; the theorems are checked by TLAPS for every value of
the constants. Paths below are relative to the repository.

## The system

| part | state | operations | interacts with |
|---|---|---|---|
| `SimClock` (`src/orbit_ops/common/clock.py`) | simulated time, tick count, wall-clock anchor | `tick` in fast and realtime mode | read by every satellite and by the producer |
| `Constellation`, `Satellite`, subsystems (`src/orbit_ops/sim`) | battery charge and bus temperature per satellite | `tick`: all satellites, then the clock | called by the producer |
| `FaultRegistry` (`sim/faults.py`) | fault specs, one held temperature per satellite | `from_yaml`, `bind_to_sim_start`, `apply` | between the constellation and the messages |
| `ConstellationProducer`, `KafkaSink` (`pipeline/producer.py`) | statistics, stop flag; the client's local queue | `run`, `_tick_once`, `send`, `flush`, `close` | the client library delivers its queue in the background; signal handlers set the flag |
| `TelemetryConsumer`, `KafkaSource` (`pipeline/consumer.py`) | statistics, stop flag, idle streak; group offsets at the broker | `run`, `_dispatch`, `poll`, `close` | the client library commits offsets in the background |
| `ParquetBatcher` (`pipeline/batcher.py`) | one open buffer per (satellite, date, hour), statistics | `accept`, `flush_all`, `_flush_buffer` | called by the consumer, calls the writer |
| `S3ParquetWriter` (`pipeline/storage.py`) | the bucket | `write` | replaces objects by key |
| dbt models (`dbt/orbit_ops`) | none | staging, minute rollup, fleet snapshot | read the bucket, write marts |
| detectors, runner, evaluator (`detection/`) | windows, counters, fired flags; scorecards | `update`, `run_detection`, `evaluate` | read the minute rollup and the fault specs |
| `cli.py`, `Makefile`, `scripts/`, `infra/`, `dashboards/` | none | start the parts in order | |

What is hard in it, and what makes it correct:

* **Writes fail half way, buffers close at the wrong time.** `accept` may write
  several buffers before it appends its row, and any write may raise, with the
  object stored or not. The batcher must not drop a buffered row, mix
  partitions, or exceed its cap, and must keep its counters honest.
* **The archive has no append.** An object is replaced whole by a later write to
  its key. "Bytes in are bytes out" therefore hinges on writing each key once.
* **Offsets are committed before rows are written.** Auto-commit follows
  `poll()`, rows are written at the end of a simulated hour or at shutdown. Which
  rows may be lost, and which may be seen twice, depends on when the process ends.
* **Two clocks.** In realtime mode a tick sleeps until a deadline; work, late
  sleeps and overruns must neither accumulate nor let the simulation run ahead.
* **The producer stamps messages with a clock that has moved on** by the time it
  sends them, queues them in a bounded local queue, and learns nothing of
  deliveries that fail.
* **Faults are layered on readings** with state of their own (a captured value,
  elapsed time, offsets resolved per session), and are the ground truth that
  detection is measured against.
* **Physics is integrated step by step.** A battery is clipped at its limits, a
  temperature follows forward Euler; neither may leave its envelope, whatever the
  eclipses, and what a figure shows must be what is streamed.
* **Files are accepted that cannot be used.** A fault's start may be null or no
  text, and only raises when its satellite is looked up, in the middle of a tick.
* **The marts are joined from three views of one table**, by satellite and time: a
  repeated time multiplies rows.
* **Detectors are stateful and run over one stream of many satellites' rows.**
  Windows, counts, baselines and latches have boundaries, and must not survive
  from one satellite to the next.
* **Everything must stop**: on a signal, on a tick limit, on an idle topic.

`PROJECT.json` lists the hazards one by one at their lines, and the properties
that would notice each going wrong.

## Modules

| module | models | composition |
|---|---|---|
| `Archive` | object keys, partitions, `put_object`, what a reader sees | constant level, used by all below |
| `DurableArchive` | abstract: rows are taken once, only taken rows are archived, none ever leaves | implemented by `Batcher` (`ImplementsDurableArchive`) |
| `Batcher` | `ParquetBatcher` | extends `Archive` |
| `Consumer` | `TelemetryConsumer`, `KafkaSource`, the topic's offsets, processes | extends `Batcher`; `BatcherSpec` is a property of it |
| `SimClock` | `SimClock` | |
| `Subsystems` | power and heat balance of a satellite, one step | constant level |
| `FaultRegistry` | loading, binding, activation and layering of faults | constant level |
| `Figures` | the series the figure scripts draw, one satellite by itself | constant level, extends `Subsystems`, `FaultRegistry` |
| `Constellation` | TLE files, filter and limit, the fleet's state, `tick` | extends `SimClock`, `Figures` |
| `Producer` | `ConstellationProducer`, `KafkaSink`, `sim run` and its sessions, fault injection | extends `Constellation` |
| `Marts` | the dbt models, as operators on the archive's rows | constant level |
| `Pipeline` | both processes over one topic, and the marts over the archive | extends `Producer`, `Consumer` and `Marts`; `log` follows the topic in every step; the consumer's specification, as `ConsumerSpec`, is a property of it |
| `Detectors` | the three detectors' `update` | constant level |
| `Evaluator` | `evaluate` | constant level, extends `FaultRegistry` |
| `Detection` | `run_detection`, then `scripts/evaluate_detectors.py` | extends `Detectors`, `Evaluator` |
| `Demo` | from the physics to the scorecards: simulated tables for `Detection` | extends `Detection`, `Figures`, `Marts` |
| `*_proofs` | theorems of the module they are named after; `ConsumerRestart_proofs` has those about several consumer processes, `Figures_proofs` the lemmas on fault layers, series and shaded stretches | the proofs of a composed module extend those of its parts |
| `MC*` | TLC instances | |

### Batcher

`buffers` is `_buffers` (a partition without a buffer has the empty one; a buffer
in the dict is never empty), `stats` is `BatcherStats` without `bytes_written`,
`bpc` says which call is running and how far it is: `accept` closes stale buffers
one write at a time (`CloseStale`), appends the row (`AppendRow`) and may flush
its full buffer (`CapFlush`); `flush_all` is `FlushAllCall`, `Drain`,
`DrainDone`. Each write is a step, since each may raise (`SinkRaises`: the object
may or may not have been stored). After that the batcher is not used again, as
the only caller leaves. A record is `[id, sat, hour]`: the identity says in which
order records were offered, `hour` is the absolute simulated hour that the key's
date and hour spell out. The flushed buffer goes away together with its part
counter, as in the code. `appended` and `everPut` are history variables.

`Failures` selects the traffic: `"late"` records older than one seen before,
`"dense"` partitions that reach the row cap, `"sink"` writes that raise.
`InOrderTraffic`, neither late nor dense, is what the batcher's primary flush
rule is written for.

### Consumer

`cpc` is the place of the thread in `run()` and `_dispatch()`. `position` is how
far `poll()` got, `committed` the group's offset; `AutoCommit` moves it at any
moment, `Close` once more. Messages are rows, `"bad"` ones (what `_dispatch`
catches) and `"poison"` ones (what it does not catch). `Kill` ends a process,
`Start` is `pipeline consume`: a new batcher, the position from the committed
offset, or from `auto.offset.reset` when there is none. The order of offsets
stands for the order of delivery; there is one partition and one consumer of the
group at a time. `ConsumerStats.polls` is left out, and with no idle limit the
idle streak, which nothing reads then, stays 0.

### SimClock

A step is one `tick()` with the work its caller did before it and the oversleep
of its `time.sleep`. Wall time is in units of which a tick's budget is a whole
number, simulated time in units of 1/`Speedup` of it, so all arithmetic is exact;
rounding of `timedelta` to microseconds is abstracted. `returned` and `overrun`
are history variables.

### Subsystems, Constellation, Figures

Charge, temperature, power and heat are whole numbers, in units in which the
constant factors of `eps_step` and `thermal_step` are 1; the parameters are
CONSTANTS, with what the code's own satisfy as assumptions (`EpsParams`,
`ThermalParams`). `Satellite.state()` is the unknown function `InShadow` of a
satellite's orbital elements and the time: the eclipse flag is all the
subsystems read of it. `FleetTick` is `Constellation.tick()`: every satellite
for the clock's time, `results` with the time they were computed for, then the
clock's own `Tick`. `CanBuild` and `Build` are `from_tle_file` with its filter
and limit (a negative limit slices from the end, as in Python). `Lived` is one
turn of the figure scripts' loop, `Life` the satellite after each turn and
`RunOneSat` the series drawn of it, which doubles as the independent account of
what a stream should hold. `Shaded` is one minute of the shading loop of the
eclipse plot, `EclipseSpans` the stretches it shades.

### Producer

`TickOnce` is `_tick_once` up to its loop over the satellites: the snapshot of
the clock and `FleetTick`; then one `Send` per satellite, and `TickDone`. `queue` is
the client's local queue; `Deliver` appends its head to the topic
(`enable.idempotence`), `Expire` gives it up; a full queue makes `produce` raise,
and a fault without a usable start makes `apply` raise (`SendRaises`).
`flush` and `close` wait for the queue, or time out (`"slow"`). `StartSession` is
`sim run` with one of `CommandLines`: a new clock at the wall time, both files
loaded, and the fault file's offsets resolved against that time; `RefuseSession` is
the one whose files do not load. A message carries the eclipse flag, charge, net
power, temperature and net heat.

### FaultRegistry

`FromYaml`, `Bound`, `Active` (`active_for`) and `Apply` are the registry's methods of like
names; an entry's start is text, null or a bare date or number, which loading
accepts alike (`Refused` is what it does not) and later code does not
(`BindRaises`, `StartRaises`). `Layers`
is the reading after each entry of the file, every active fault over the result of
those before it; `Apply` takes the last. `held`, what a
satellite's stuck sensor captured, belongs to the producer's session; `Send`
updates it, also when the message cannot be queued. Fade is in per cent, and
instances use charges that divide, so the floats' rounding has no counterpart.

### Pipeline

`Wire` is what becomes of a message on its way into a buffer: of its timestamp,
the hour; `log` is the topic in that form (`OnTheWire`). Each process steps alone
(`ProducerMoves`, `ConsumerMoves`); the topic is all they share: a producer's step
is for the consumer a step that only lengthens the log (`ConsumerWaits`). Nothing is
bounded a second time: where the consumer's specification bounds its topic,
`OneRun` says what a session must be to fit (below). `Raw` is what
`read_parquet` finds in the bucket, a `RawRow` for each row of each object, and
`Marts` what dbt makes of it: `Joined` the three views back together, `Rollup` the
`Aggregate` of each `Bucket` of satellite and minute (an average is given by sum and
count), `Snapshot` the rows of each satellite's latest time. Both are compared, once
everything is read (`AllRead`), with each satellite drawn by itself (`DrawnMinute`).

### Detectors, Detection, Evaluator

A detector is a record of its fields; `FadeUpdate`, `StuckUpdate` and
`RunawayUpdate` give the next one. `update()` returns an event exactly when it
sets `_fired`, which `Emitted` reads off. `ReadRow` is one turn of the runner's
loop: new detectors when the satellite changes, the three updates, the events in
their order. `Score` resolves offsets against the mart's earliest minute and
computes the scorecards; `ScoreRaises` is an empty mart with offsets to resolve, or
a start that is not text.
A table is any sequence of rows ordered as the query orders them; the averages in
it are whole numbers of small units. `latencies_seconds` is the latency of each
event that hit a fault. Fault files are sequences of specs as `from_yaml` makes them
(`FaultFilesAssumption`).

The rules the events are held against are predicates of the table, without windows,
sums or counters: `FadeDue`, `StuckDue` and `RunawayDue` are the rows at which a
detector's rule holds, and `FiresFirstAt` says that its events are those at the first
such row of each satellite. `Drift` is the sum of a CUSUM without its clipping: that
the clipped sum reaches the threshold exactly when some unclipped one does is part of
what is proved.

`Demo` adds tables that come out of a simulation: a scenario gives orbits, a fault
file, a tick length and ticks that never reached the archive; `Table` is the
rollup of what its satellites report, as the runner's query selects it, and its
faults are scored from the file they were injected from.

## What TLC checks

All configurations disable the deadlock check: both processes end, and then
nothing more need happen. Bounds are in the `.cfg` files.

| run | question | result |
|---|---|---|
| `batcher_failures` | with late and dense records and raising writes: no dropped row, pure partitions, only late rows in old buffers, cap respected, counters balance | holds |
| `batcher_rowcap` | is every accepted row in the bucket after `flush_all`, when the row cap was reached? | violated, see below |
| `consumer_calm` | without crashes: committed rows are archived or held; the consumer implements `BatcherSpec` and `DurableArchive`; after a stop request the process ends with all rows archived | holds |
| `consumer_failures` | kills, restarts, raising writes, undecodable messages: no row in two objects, counters of an orderly exit add up | holds |
| `consumer_restart` | is every polled row in the bucket after orderly exits? | violated |
| `consumer_poison` | does no message end the consumer? | violated |
| `clock_realtime` | never ahead of wall time, no drift, with overruns and late sleeps | holds |
| `clock_catchup` | does the clock never speed up after an overrun? | violated |
| `producer_faults` | what is published is the fleet's rounds, tick after tick; order within a session, whole ticks on a clean end; faults show in their channel, from their start, in their session, and do not heal; the figures draw what each message says, also of lossy sessions; charge and temperature keep to their envelope; with refused files, unusable starts, timeouts, expiry, full queue, kills | holds |
| `producer_sessions` | sim-time order per satellite over sessions | violated |
| `detection_rules` | one event per satellite and detector, at the first minute its rule holds for, the rules stated without the detectors' state; scorecards account for all events and faults; over simulated orbits, healthy satellites stay silent and injected faults are found | holds |
| `pipeline_endtoend` | the producer is a publisher `Consumer` accepts; bytes in are bytes out; the marts show the simulation's minutes and last ticks; stop requests end a session; a consumer with an idle limit ends and has archived what it read, which is all of a finished session unless its polls came back empty while there was more | holds |

Bounds, and why they suffice. `batcher_failures` has two satellites, three hours
and five records with a cap of three: one record can find two stale buffers of
its own satellite and one of the other, a partition can be capped and reopened,
and a late record can reopen an hour already flushed. The consumer runs have two
satellites, two hours and three or four messages, two processes where restarts
matter, and a cap low enough to be hit in `consumer_failures`. The clock takes
six ticks with work from none to two and a half budgets and sleeps up to one
budget late, so it falls behind, catches up and sleeps again. The producer has
a catalogue of three satellites of which the filter leaves two, sessions of two
ticks, two of them, and a queue one short of two ticks,
so a tick can be cut in the middle; its five faults put a stuck sensor over a
runaway on one satellite, and a runaway and a fade on the other that grow in a session
that starts at 0 and meet their cap and their floor in one that starts later; one more
fade starts by offset. Its eight command lines include limits of
zero and less, catalogues that are cut short or out of step, two starts in one
entry, and starts that load and fail later. The shadows are such that one
satellite is mostly in the sun, the other mostly in the dark, so both limits of
the battery are at work. `detection_rules` has all series of six or
five samples over three or four values for a first satellite, with windows of
three and a required run of four, each followed by one of four series of a
second satellite with a missing minute, and five fault files with early, late,
repeated, null and unknown-satellite faults: rules begin, break, hold again and
straddle the change of satellite. It also has scenarios of twelve minutes, four
orbits, with eclipses of none to two thirds of an orbit at either end of it,
ticks of half a minute to two minutes, starts on and off the minute, one or two
ticks missing, and faults of the kinds of `data/faults.example.yaml`. Physics and
thresholds are scaled to whole numbers: the fade window covers an orbit, and each
threshold lies just above what the nominal physics of the instance produces, as
the comments in `detectors.py` say of the code's own. The pipeline has three ticks of half an hour
for two satellites, so both cross an hour, and minutes of two ticks and of one. Its
clock sleeps, at times too long, and its consumer has an idle limit of two polls, any
of which may come back empty although the topic has more: it may leave before it read
anything, in the middle, or at the end.

Fairness. `ConsumerStep` and `ProducerStep` are weakly fair: each is a thread
that runs on, `poll` has a timeout, `flush` has one, a write returns or raises.
`Deliver` is weakly fair in the pipeline, where the broker is assumed up.
`Start` is weakly fair there because the demonstration starts a consumer.
Nothing else is: no stop request, commit, kill or message has to happen.

Each property was also checked against a mutant of the code (the operators
commented as mutants, listed in `PROJECT.json`), which TLC finds violated.

### Known and not refuted

A runaway listed after a stuck sensor of the same satellite moves the reading
that is held; several faults of a kind on one satellite share one event, so their
scorecard's recall counts one detection for all; offsets of a second session in
one mart are scored against the first session's start. A stuck sensor is found by
the swings it hides: on an orbit in constant sunlight, where the temperature has
settled, it is not, so no scenario has one there. Ticks longer than a minute, or
gaps of several, make the stuck-sensor detector fire on healthy satellites, whose
temperature then moves more in a row than a minute's heat explains;
`MinuteByMinute` is the condition under which they stay silent. Nothing calls
`write_events_parquet`, so the `anomaly_events` file two dashboards query is not
written by any command of the repository. Idle polls
count from the first one, also while the consumer is still joining its group, so
`make demo-full` may archive a part of the simulation, or nothing, and go on; what was
not read stays on the topic, and `DemoArchivesWhatItReads` says no more than that. Two
satellites of one name would share faults and partitions. The repository claims nothing else, so the properties are
stated for the other cases.

### Disagreements found

1. **The row cap loses rows** (`batcher_rowcap`). `_flush_buffer` advances
   `part_counter` on a buffer it then drops, so a partition flushed by the cap
   writes `part-0000` again on its next flush. `tests/test_batcher.py` counts the
   writes of this case, not their keys.
2. **A restart in the middle of an hour loses rows** (`consumer_restart`): the
   second process numbers its parts from 0, too. This needs no failure, only an
   orderly stop and a start; a fast simulation makes hours short.
3. **Some messages end the consumer** (`consumer_poison`): bytes that are not
   UTF-8 and timestamps that do not parse raise what `_dispatch` does not catch,
   and `flush_all` is skipped on the way out.
4. **The clock does catch up** (`clock_catchup`), by design of the anchored
   deadline; the docstring of the test says it never does. What is true is that
   simulated time is never ahead of wall time (`NeverAhead`).
5. **Sim-time is monotone within a session only** (`producer_sessions`), while the
   batcher's comment relies on it without that restriction.

With kills, rows whose offsets were committed while they were only in buffers
are lost. Nothing in the repository claims otherwise, so there is no run for it;
`CommittedRowsKept` is stated for instances without kills.

## What is proved

No theorem bounds the number of records, satellites, hours, ticks or failures;
the only assumptions are the `ASSUME`s of the modules (a positive row cap, tick,
speedup and length of an hour; hours are naturals; physical parameters that fit
together; files are lists of what loading accepts, their rates and limits integers;
the rollup is ordered and its times do not repeat) and those each theorem states.
TLC's instances of `Pipeline` and of the producer's fault run meet every hypothesis
of their theorems:

| hypothesis | says | because |
|---|---|---|
| `InOrderTraffic` | no late records, no partition at the row cap | otherwise rows are lost (`batcher_rowcap`) |
| `MaxLives <= 1` | one consumer process | a second one overwrites parts (`consumer_restart`) |
| `Calm` | that, and no kills, failing writes or poison, offsets from the beginning | a committed row that is only in a buffer is lost with the process |
| `DistinctNames` | the satellites of every command line that loads have a name each | two of one name share a stream and a held value |
| `OneRun` | one session, distinct names, fewer ticks per hour than the row cap, the consumer's bounds large enough | a second session starts over in sim-time (`producer_sessions`) |
| `Stable` | the tick is short enough for Euler's method (with the code's parameters, below 4 hours) | a longer one overshoots the balance it approaches |
| `Degrading` | rates and limits of faults are not negative, and a fade's floor is at most the whole | loading refuses neither a negative rate nor a floor above 100 per cent, and with these a fault heals |
| `WholeCharges` | the unit of charge is so small that a satellite's fades, one over the other, leave no rest | otherwise `\div` rounds down, and rounding alone may let a share rise; the code's charges are floats |
| `Delivers` | no message expires, and `flush` is given its time | a client may give messages up, which the producer does not learn |

Recursive functions (series, layers, shading, sums) are unfolded and induced over by
way of sets: a set of naturals with 0 and every successor is all of them
(`ByCounting` in `Figures_proofs`, `NatSetInduction` in `Detection_proofs`, from a
least counterexample), since the library's induction theorems cannot be instantiated
with a predicate here.

* **Batcher** (`Batcher_proofs`). `BatcherTypeOK`, `NoRowDropped`,
  `PartitionPurity` and `OnlyLateRowsBehind`, for all traffic. They are proved
  together from `BatcherInv`, which adds that a buffer holds only rows of its own
  partition and only appended rows, that object contents are rows of some
  buffer, and that the record in hand is newer than all appended ones. Without
  the last, an old buffer could receive a row that is not late.
  `BelowCapBetweenCalls` needs that only the buffer about to be flushed may be
  full (`CapInv`); `StatsBalance` is about a sum over all open buffers, so each
  action's lemma names the rows that enter or leave it.
* **Refinement** (`Batcher_proofs`). For in-order traffic `BatcherSpec`
  implements `DurableArchive`. The strengthening is `WriteOnceInv`: all part
  numbers are 0, and a partition whose object exists has an empty buffer and a
  newer row of its satellite has been taken, or no further row is taken at all.
  Hence every write creates its object. `BatcherArchivesAllWhenClosed` adds that
  after `flush_all` everything taken is in the bucket.
* **Consumer** (`Consumer_proofs`). One process implements `BatcherSpec` for
  every topic (`DriverInv`: appended rows are rows of the topic before the one in
  hand), so it implements `DurableArchive` over in-order topics.
  `ConsumerKeepsCommittedRows` is `CommittedRowsKept` under `Calm` (no kills,
  failing writes or poison, one process): every polled row is appended or in
  hand, and the process does not end before its buffers are empty.
* **Processes one after the other** (`ConsumerRestart_proofs`). With kills,
  restarts, failing writes and any messages: `TypeOK`, `CleanExitAccounts`, and
  that each process's batcher keeps what is proved of one
  (`RestartsKeepTheBatcher`). The invariant is `LifeInv`: the invariants of the
  batcher and the driver, the order of offsets, which call may run at each point
  of the loop, and what the counters come to there. Nothing of the earlier
  processes but the bucket and the committed offset enters it. `NoRowInTwoObjects`
  is `NoRowTwice`: part numbers are 0 in all processes, since a flushed buffer is
  dropped with its counter, so a row has one object to be in.
* **Producer** (`Producer_proofs`). `PhysicsStayInside` is `WithinEnvelope` for all
  parameters and every pattern of eclipses: a step that keeps two temperatures in
  order (`Stable`) keeps each between the two the ends of the envelope step to,
  and those are inside (`StepInside`); the rest (`EnvelopeInv`) is that a fleet
  only changes when it is built and ticked. `SessionsAddUp` is
  `CleanSessionDelivered`, from `LedgerInv`: what was sent is delivered, queued or
  lost, and is the ticks completed times the fleet plus the satellites done.
  `ProducerTyping` adds `PaceInv`, which ties the loop's place to the clock: while
  messages are sent the clock is one tick ahead of the snapshot.
* **Streams** (`Producer_proofs`). `SessionsKeepOrder` is `OrderWithinSession` for
  every client, broker and end of a session, if no two satellites share a name
  (`DistinctNames`; `Satellite.sat_id` is the name, and the statement is false
  without it). All the client can do to what is published is to thin it out
  (`Thinned`); what keeps the order when a message is added is that
  everything out is `Past`: of an earlier tick, or of this tick and a satellite the
  loop has been at. `StreamsAreRounds` is `StreamsFollowTheClock`: while nothing was
  lost, a message's place is its tick times the fleet plus its satellite
  (`StreamInv`), and `OnePlace` says no two share one.
* **Faults and figures** (`Producer_proofs`, on the lemmas of `Figures_proofs`).
  `FaultsStayInTheirChannels`, `StuckSensorsStayStuck` and `FiguresMatchTheStream` are
  `OnlyFaultyChannelsDeviate`, `StuckReadsOneValue` and `FigureShowsTheStream`, for any
  fault file, fleet of distinct names and loss. They share one invariant,
  `SeriesInv`: each satellite of the fleet is as far in its own series as the
  clock, its stuck sensor as far as the loop over the satellites, and every
  message out is a sample of its series. In the middle of a tick the two differ,
  which is what makes the invariant more than the three properties together.
  The rest is about series: the fault layers never reach the physics
  (`FaultsLeaveThePhysics`), touch the channel of their kind only
  (`LayersTouchOwnChannels`), and what a sensor captured stays captured
  (`HeldForGood`); a shorter series is the beginning of a longer one
  (`LifePrefix`); the shading loop covers the ticks in eclipse and no others
  (`ShadedCovers`).
* **Faults only worsen** (`Producer_proofs`, `Figures_proofs`). `FaultsOnlyWorsen` is
  `FaultsNeverHeal` for every client, fleet and list of faults, any number of which
  may be on one channel, under `Degrading`, `WholeCharges`, `Stable` and charges that
  are not negative. It compares two messages of a satellite layer by layer: after
  each entry of the file, the later of the two has at most the earlier's share of
  its own true charge (`LayersWear`), and at least the earlier's heat above its own
  true temperature (`LayersHeat`). A share is a quotient of two charges that
  both change, so what is carried from layer to layer is the cross-multiplied
  inequality, and each fade must divide exactly: the readings after an entry are
  multiples of a grain, of which a fade takes whole hundredths (`Grains`). A fade that
  is the only one of its satellite keeps to its floor (`FadeHasAFloor`), a runaway to
  its cap.
  `Commanded` adds to the session's invariant that fleet and faults are of one
  command line; that the earlier message has the earlier time is
  `OrderWithinSession`.
* **Detection** (`Detection_proofs`). `DetectorsFireOnce` is `OneEventEach` for every
  ordered table and all thresholds, from `FiredOnceInv`: events are of satellites
  already read, and those of the current satellite are of detectors that have
  fired. The query's order is what it rests on: a satellite that came back after
  another would get new detectors, and fire again. `FadesAreFound`,
  `StuckSensorsAreFound` and `RunawaysAreFound` are the rules of the single
  detectors, for every table and parameter, from `RulesInv`: windows hold the
  satellite's last samples and none of the one before, counts are the length of
  the unbroken run, and the running sum is the largest `Drift` from any minute on,
  or 0. `DetectionTyping` and `ScoresAreComplete` are `DetectionTypeOK` and
  `ScoresAccountForAll`, the latter by a bijection between the events
  that hit and the faults that were not missed (from `RunInv`).
* **Pipeline** (`Pipeline_proofs`). `PipelineFeedsConsumer`: under `OneRun`, the pipeline
  implements `Consumer`'s specification, so everything proved of the consumer holds
  of it; `PipelineImplementsDurableArchive` draws that conclusion. The publisher's
  side of the invariant (`FeederInv`) is what is proved of the producer, with
  `FeedInv`, that it keeps to its ticks. Below the row cap because the messages a
  satellite has in an hour are of different ticks of it, of which there are fewer
  than the cap (`FewPerHour`). `PipelineKeepsBytes` is `BytesInBytesOut` when
  additionally nothing fails on the consumer's side (`Calm`) and the client gives up
  no message (`Delivers`): what was polled is archived, the counters of an orderly
  exit add up, and every message has an offset of its own.
* **Marts** (`Pipeline_proofs`). `TablesAreTheSimulation` is `MartsShowTheSimulation`
  under those hypotheses and `Stable`, from two invariants: `EndToEndInv`, the
  consumer's side, and `StoryInv`, the producer's, to which `Settled` adds that a
  session that ended by itself and lost nothing has left whole rounds. So the
  archive is a grid (`RawIsGrid`): one row for each satellite and tick, each
  what the satellite, drawn by itself, has there. On a grid (sat, time) is a key, so
  the three views join row by row (`JoinedOfGrid`); a bucket of the rollup is in
  bijection with one satellite's ticks of one minute (`BucketOfGrid`); and sums go
  along a bijection (`SumByBijection`). The last holds because the fold of the
  community modules takes elements in an order of its own choosing and integers do not
  mind (`TakenFirst`, by induction over the size of a subset).
* **SimClock** (`SimClock_proofs`). `ClockTypeOK`, `NeverAhead` and `NoDrift`, by
  relating wall time to the last deadline (`Due`): `tick` never returns before
  it, and later by at most one oversleep and the accumulated overrun.

Only model-checked:

* Liveness, which is beyond the prover: `StopHonoured`, `StopArchivesHeld`,
  `HaltHonoured`, `DemoArchivesWhatItReads`.
* `HealthySatellitesStaySilent` and `InjectedFaultsAreFound`. They are about the
  parameters: a threshold must lie above what the nominal physics of the instance
  produces, and below what its faults do.
* The runs that expect a violation.

## Not modelled

Orbit propagation (a library's numerics; of its result only the eclipse flag has
consequences, and that is left arbitrary), Parquet and JSON encoding, downloading
of TLE files, drawing, dashboards and containers: numeric code or input and
output, with no interleaving or protocol of its own. Of the SQL, the columns no
other model reads: health bands, ground quadrant, thermal regime, magnitudes,
times of day. Rounding: the code computes in floats, the models in whole numbers,
so nothing here bounds a rounding error. Rows whose
values do not fit the Arrow schema, which make every later flush of their buffer
raise, are covered by `"sink"` failures only in part: there the next process may
succeed. Rebalances between several consumers of the group are not modelled.

## Plan

In order of importance; the first six parts are done.

1. Write path: `Archive`, `Batcher`, `DurableArchive`, `Consumer`, `SimClock`,
   `Producer`, `Pipeline`, and their theorems. *Done.*
2. Faults and detection: `FaultRegistry`, `Detectors`, `Evaluator`, `Detection`,
   and `DetectorsFireOnce`. *Done.*
3. Physics and files: `Subsystems`, `Constellation`, `Figures`, command lines in
   `Producer`, and `PhysicsStayInside`, `SessionsAddUp`. *Done.*
4. Read path: `Marts` in `Pipeline`, `Demo` from physics to scorecards; the
   consumer's restarts (`LifeInv`). *Done.*
5. Proofs: the producer's streams, their faults and figures; the detectors' rules and
   scorecards; `NoRowTwice`; the pipeline's refinement of `Consumer` and of
   `DurableArchive`, and `BytesInBytesOut`. *Done.*
6. Proofs: `MartsShowTheSimulation`, on lemmas about sums over sets, and
   `FaultsNeverHeal` for charges that divide. *Done.*
7. `Consumer` with rows that cannot be written, and with two members of a group;
   marts over an archive of several sessions, whose times may repeat.
