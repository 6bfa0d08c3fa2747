------------------------------ MODULE Producer ------------------------------
(***************************************************************************)
(* ConstellationProducer over KafkaSink (src/orbit_ops/pipeline/           *)
(* producer.py), driving a Constellation and laying faults over what it    *)
(* returns.  One message per satellite and tick goes into the client's     *)
(* local queue; the client library delivers the queue in order in the      *)
(* background.                                                             *)
(*                                                                         *)
(* `orbit-ops sim run` is a session: a new clock started at the wall time, *)
(* a new constellation, fault registry, producer and sink, from the two    *)
(* files its command line names.                                           *)
(***************************************************************************)
EXTENDS Constellation

CONSTANTS CommandLines,    \* of sim run: [tle, limit, faults], the files being
                           \* their lines and entries; a missing fault file has none
          MaxTicks,        \* max_ticks; 0 is None, as in cli.py
          QueueLimit,      \* queue.buffering.max.messages of the client
          BrokerFaults,    \* which of "slow", "expire", "crash" are included
          MaxSessions,     \* bound: sessions, one after the other
          MaxGap           \* bound: wall time between sessions

\* "slow":   flush() times out with messages still queued
\* "expire": a queued message's delivery fails for good; nobody is told,
\*           KafkaSink passes no delivery callback
\* "crash":  the process is killed
ASSUME ProducerAssumption ==
  /\ MaxTicks \in Nat /\ QueueLimit \in Nat
  /\ MaxSessions \in Nat /\ MaxGap \in Nat
  /\ \A cmd \in CommandLines :
       LET chosen == Chosen(cmd.tle, cmd.limit)
       IN  /\ Len(chosen) \in Nat /\ DOMAIN chosen = 1..Len(chosen)
           /\ Len(cmd.faults) \in Nat /\ DOMAIN cmd.faults = 1..Len(cmd.faults)
           /\ \A i \in DOMAIN cmd.faults :
                /\ cmd.faults[i].rate \in Int /\ cmd.faults[i].limit \in Int
                /\ \A key \in {"start_iso", "start_offset"} \cap DOMAIN cmd.faults[i] :
                     cmd.faults[i][key].at \in Int

VARIABLES topic,      \* telemetry.raw
          queue,      \* the client's queue: produced, not yet delivered
          ppc,        \* where the producer thread is; "off": no process
          snapshot,   \* sim_time_before
          nextSat,    \* the position of the satellite whose record is sent next
          ticks,      \* ProducerStats.ticks
          sent,       \* ProducerStats.messages_sent
          specs,      \* _faults.specs, offsets resolved
          held,       \* _faults._stuck_state, {} for a missing one
          halt,       \* _stop_requested
          ending,     \* how the last session ended, or "running"
          session,    \* sessions so far
          file,       \* history: the session's fault specs as loaded
          base,       \* history: length of the topic when the session started
          lost        \* history: messages of the session the client gave up

faultvars == <<specs, held>>
loopvars == <<fleetvars, snapshot, nextSat, ticks, sent, faultvars>>
runvars == <<session, file, base>>
pvars == <<clvars, topic, queue, ppc, loopvars, halt, ending, runvars, lost>>

ProducerInit ==
  /\ ClockInit
  /\ topic = <<>> /\ queue = <<>>
  /\ ppc = "off" /\ ending = "clean" /\ session = 0 /\ base = 0 /\ lost = 0
  /\ fleet = <<>> /\ results = [at |-> 0, ticked |-> <<>>]
  /\ snapshot = 0 /\ nextSat = 1
  /\ ticks = 0 /\ sent = 0
  /\ file = <<>> /\ specs = <<>> /\ held = <<>>
  /\ halt = FALSE

-----------------------------------------------------------------------------
(* Around the producer *)

\* Both files load, and every offset is text.
Runs(cmd) ==
  /\ CanBuild(cmd.tle, cmd.limit)
  /\ ~Refused(cmd.faults)
  /\ ~BindRaises(FromYaml(cmd.faults))

\* sim run: SimClock.utc_now_start() takes the wall time as the sim start; the
\* files are loaded, and run() resolves the offsets against that start.
StartSession(cmd) ==
  /\ ppc = "off" /\ session < MaxSessions
  /\ Runs(cmd)
  /\ \E gap \in 0..MaxGap : wall' = wall + gap
  /\ NewClock(wall')
  /\ Build(cmd.tle, cmd.limit)
  /\ session' = session + 1 /\ base' = Len(topic) /\ lost' = 0
  /\ ppc' = "loop" /\ ending' = "running"
  /\ queue' = <<>>
  /\ snapshot' = simStart' /\ nextSat' = 1
  /\ ticks' = 0 /\ sent' = 0 /\ halt' = FALSE
  /\ file' = FromYaml(cmd.faults)
  /\ specs' = Bound(file', simStart')
  /\ held' = [sat \in {fleet'[i].id : i \in DOMAIN fleet'} |-> {}]
  /\ UNCHANGED <<returned, topic>>

\* sim run ends with an exception before the first tick.
RefuseSession(cmd) ==
  /\ ppc = "off" /\ session < MaxSessions
  /\ ~Runs(cmd)
  /\ \E gap \in 0..MaxGap : wall' = wall + gap
  /\ session' = session + 1 /\ ending' = "refused"
  /\ UNCHANGED <<returned, overrun, clock, topic, queue, ppc, loopvars, halt, file, base, lost>>

RequestHalt ==
  /\ ppc # "off" /\ ~halt
  /\ halt' = TRUE
  /\ UNCHANGED <<clvars, topic, queue, ppc, loopvars, ending, runvars, lost>>

\* Mutant of Deliver: without idempotence a retried batch overtakes another.
DeliverOvertaking ==
  /\ ppc # "off" /\ queue # <<>>
  /\ topic' = Append(topic, queue[Len(queue)])
  /\ queue' = SubSeq(queue, 1, Len(queue) - 1)
  /\ UNCHANGED <<clvars, ppc, loopvars, halt, ending, runvars, lost>>

\* The client library: idempotent delivery keeps the order of the queue.
Deliver ==
  /\ ppc # "off" /\ queue # <<>>
  /\ topic' = Append(topic, Head(queue))
  /\ queue' = Tail(queue)
  /\ UNCHANGED <<clvars, ppc, loopvars, halt, ending, runvars, lost>>

Expire ==
  /\ "expire" \in BrokerFaults
  /\ ppc # "off" /\ queue # <<>>
  /\ queue' = Tail(queue) /\ lost' = lost + 1
  /\ UNCHANGED <<clvars, topic, ppc, loopvars, halt, ending, runvars>>

KillProducer ==
  /\ "crash" \in BrokerFaults
  /\ ppc # "off"
  /\ ppc' = "off" /\ ending' = "killed"
  /\ queue' = <<>> /\ lost' = lost + Len(queue)
  /\ UNCHANGED <<clvars, topic, loopvars, halt, runvars>>

-----------------------------------------------------------------------------
(* run() *)

\* Mutant of Enough: a stop request is not looked at.
EnoughIgnoresHalt == MaxTicks # 0 /\ ticks >= MaxTicks

Enough == halt \/ (MaxTicks # 0 /\ ticks >= MaxTicks)

\* Mutant of TickOnce: the time is read after tick() advanced the clock.
TickOnceStampedLate(work, oversleep) ==
  /\ ppc = "loop" /\ ~Enough
  /\ tickCount < MaxTickCount
  /\ FleetTick(work, oversleep)
  /\ snapshot' = now'
  /\ nextSat' = 1
  /\ ppc' = "send"
  /\ UNCHANGED <<topic, queue, ticks, sent, faultvars, halt, ending, runvars, lost>>

\* _tick_once up to the loop over satellites
TickOnce(work, oversleep) ==
  /\ ppc = "loop" /\ ~Enough
  /\ tickCount < MaxTickCount
  /\ snapshot' = now
  /\ FleetTick(work, oversleep)
  /\ nextSat' = 1
  /\ ppc' = "send"
  /\ UNCHANGED <<topic, queue, ticks, sent, faultvars, halt, ending, runvars, lost>>

SatId == fleet[nextSat].id

\* FaultRegistry.apply on the satellite's tick result
Reported == Apply(specs, SatId, snapshot, results.ticked[nextSat], held[SatId])

\* TelemetryRecord.from_tick, with the time its geometry is for
Message(shown) ==
  LET tick == results.ticked[nextSat] IN
  [sat |-> SatId, stamp |-> snapshot, geometry |-> results.at,
   shadow |-> tick.shadow, soc |-> shown.soc, net |-> tick.net,
   temp |-> shown.temp, heat |-> tick.heat]

Send ==
  /\ ppc = "send" /\ nextSat \in DOMAIN fleet
  /\ ~StartRaises(specs, SatId) /\ Len(queue) < QueueLimit
  /\ LET shown == Reported IN
       /\ held' = [held EXCEPT ![SatId] = shown.held]
       /\ queue' = Append(queue, Message(shown))
  /\ sent' = sent + 1
  /\ nextSat' = nextSat + 1
  /\ UNCHANGED <<clvars, topic, ppc, fleetvars, snapshot, ticks, specs, halt,
                 ending, runvars, lost>>

\* apply() comes to a fault without a usable start; or produce() raises
\* BufferError, the local queue being full.
SendRaises ==
  /\ ppc = "send" /\ nextSat \in DOMAIN fleet
  /\ \/ StartRaises(specs, SatId) /\ UNCHANGED held
     \/ /\ ~StartRaises(specs, SatId) /\ Len(queue) >= QueueLimit
        /\ held' = [held EXCEPT ![SatId] = Reported.held]
  /\ ppc' = "close" /\ ending' = "raised"
  /\ UNCHANGED <<clvars, topic, queue, fleetvars, snapshot, nextSat, ticks, sent,
                 specs, halt, runvars, lost>>

TickDone ==
  /\ ppc = "send" /\ nextSat \notin DOMAIN fleet
  /\ ticks' = ticks + 1
  /\ ppc' = "loop"
  /\ UNCHANGED <<clvars, topic, queue, fleetvars, snapshot, nextSat, sent,
                 faultvars, halt, ending, runvars, lost>>

\* Mutant of LeaveTicking: a stop is looked at between two satellites, too.
LeaveTickingMidTick ==
  /\ ppc \in {"loop", "send"} /\ Enough
  /\ ppc' = "flush"
  /\ UNCHANGED <<clvars, topic, queue, loopvars, halt, ending, runvars, lost>>

LeaveTicking ==
  /\ ppc = "loop" /\ Enough
  /\ ppc' = "flush"
  /\ UNCHANGED <<clvars, topic, queue, loopvars, halt, ending, runvars, lost>>

\* Mutant of FlushWaited: flush and close return at once.
FlushNotWaited == TRUE

\* KafkaSink.flush waits for the queue to empty, 10 seconds at most; a rest is
\* logged, and tried again by close(); after that it is gone.
FlushWaited == queue = <<>> \/ "slow" \in BrokerFaults

FlushDone ==
  /\ ppc = "flush" /\ FlushWaited
  /\ ppc' = "close" /\ ending' = "clean"
  /\ UNCHANGED <<clvars, topic, queue, loopvars, halt, runvars, lost>>

CloseDone ==
  /\ ppc = "close" /\ FlushWaited
  /\ ppc' = "off"
  /\ queue' = <<>> /\ lost' = lost + Len(queue)
  /\ UNCHANGED <<clvars, topic, loopvars, halt, ending, runvars>>

ProducerStep ==
  \/ \E work \in 0..MaxWork, oversleep \in 0..MaxOversleep : TickOnce(work, oversleep)
  \/ Send \/ SendRaises \/ TickDone \/ LeaveTicking \/ FlushDone \/ CloseDone

ProducerNext ==
  \/ ProducerStep
  \/ \E cmd \in CommandLines : StartSession(cmd) \/ RefuseSession(cmd)
  \/ RequestHalt \/ Deliver \/ Expire \/ KillProducer

ProducerSpec == ProducerInit /\ [][ProducerNext]_pvars

\* The thread runs on, and the client library keeps delivering.
ProducerFairSpec == ProducerSpec /\ WF_pvars(ProducerStep) /\ WF_pvars(Deliver)

-----------------------------------------------------------------------------
(* Properties *)

\* What the session handed to the client and the broker has or may get.
Published == SubSeq(topic, base + 1, Len(topic)) \o queue

FleetIds == {fleet[i].id : i \in DOMAIN fleet}

\* The producer's state is well formed.
ProducerTypeOK ==
  /\ ClockTypeOK
  /\ ppc \in {"off", "loop", "send", "flush", "close"}
  /\ ending \in {"running", "clean", "raised", "killed", "refused"}
  /\ nextSat \in 1..Len(fleet) + 1 /\ DOMAIN held = FleetIds
  /\ ticks \in Nat /\ sent \in Nat /\ session \in 0..MaxSessions
  /\ Len(queue) <= QueueLimit
  /\ base \in 0..Len(topic) /\ lost \in Nat

\* What a session publishes is the simulation: tick after tick one message for
\* each satellite in the order of the fleet, with the time of the tick and the
\* geometry for that time; none is missing, none is there twice, and no satellite
\* is more than one tick ahead of another, also when a session dies in the
\* middle of a tick.
StreamsFollowTheClock ==
  ppc # "off" /\ lost = 0 =>
    LET p == Published  n == Len(fleet) IN
    /\ ticks * n <= Len(p) /\ Len(p) <= (ticks + 1) * n
    /\ \A t \in 0..ticks, k \in DOMAIN fleet :
         LET i == t * n + k IN
         i <= Len(p) =>
           /\ p[i].sat = fleet[k].id
           /\ p[i].stamp = simStart + t * TickSeconds
           /\ p[i].geometry = p[i].stamp

\* Two entries of a TLE file with one name share a stream and a fault state:
\* each satellite that a command line runs with has a name of its own.
DistinctNames ==
  \A cmd \in CommandLines : Runs(cmd) =>
    LET chosen == Chosen(cmd.tle, cmd.limit)
    IN  \A i, j \in DOMAIN chosen : chosen[i].name = chosen[j].name => i = j

\* A lossy client never reorders or repeats: the messages of a session that do
\* get through are in strictly increasing sim-time per satellite.
OrderWithinSession ==
  LET p == Published IN
  \A i, j \in DOMAIN p : i < j /\ p[i].sat = p[j].sat => p[i].stamp < p[j].stamp

\* A session that ends by itself has sent whole ticks, as many as it reports,
\* and all it sent is in the topic but for what the client gave up.
CleanSessionDelivered ==
  ppc = "off" /\ ending = "clean" /\ session > 0 =>
    /\ sent = ticks * Len(fleet)
    /\ Len(topic) + lost = base + sent
    /\ MaxTicks # 0 /\ ~halt => ticks = MaxTicks

\* When a fault of the file starts in this session
StartOf(fault) == IF fault.relative THEN simStart + fault.at ELSE fault.at

FaultsOf(sat, type) == {i \in DOMAIN file : file[i].sat = sat /\ file[i].type = type}

\* The first n samples of a satellite by itself, as the figures draw them
Alone(faults, sat, n) ==
  LET i == CHOOSE k \in DOMAIN fleet : fleet[k].id = sat
  IN  RunOneSat(faults, sat, fleet[i].tle, simStart, TickSeconds, n)

\* The tick of its session a message is of, the first one being 1
TickOf(m) == (m.stamp - simStart) \div TickSeconds + 1

\* What the satellite's physics come to at the time of a message
Truth(m) == Alone(<<>>, m.sat, TickOf(m))[TickOf(m)]

\* A channel deviates from the simulation only on a satellite with a fault of
\* that channel whose start, in this session, the message's time has reached:
\* no other channel, satellite or earlier session leaks in, none of it feeds
\* back into the physics, and a fault without a usable start stops its
\* satellite rather than pass unnoticed.
OnlyFaultyChannelsDeviate ==
  LET p == Published
      Started(m, type) == \E i \in FaultsOf(m.sat, type) : StartOf(file[i]) <= m.stamp
  IN  \A i \in DOMAIN p :
        LET real == Truth(p[i]) IN
        /\ p[i].soc # real.soc => Started(p[i], "fade")
        /\ p[i].temp # real.temp => Started(p[i], "stuck") \/ Started(p[i], "runaway")
        /\ p[i].net = real.net /\ p[i].heat = real.heat
        /\ \A k \in DOMAIN file : file[k].sat = p[i].sat => file[k].form = "text"

\* From the start of a stuck-sensor fault a session reports one temperature,
\* whatever becomes of the messages, unless a runaway comes after it in the file.
StuckReadsOneValue ==
  LET p == Published IN
  \A sat \in FleetIds : \A f \in FaultsOf(sat, "stuck") :
    (\A r \in FaultsOf(sat, "runaway") : r < f) =>
      \A i, j \in DOMAIN p :
        /\ p[i].sat = sat /\ p[j].sat = sat
        /\ StartOf(file[f]) <= p[i].stamp /\ p[i].stamp <= p[j].stamp
        => p[i].temp = p[j].temp

\* Faults never heal: over a session the share of the charge a satellite reports
\* only falls, down to the floor of its fade, and the heat its runaway adds only
\* rises, up to the cap.
FaultsNeverHeal ==
  LET p == Published IN
  \A i, j \in DOMAIN p :
    i < j /\ p[i].sat = p[j].sat =>
      LET before == Truth(p[i])  after == Truth(p[j]) IN
      /\ p[j].soc * before.soc <= p[i].soc * after.soc
      /\ \A f \in FaultsOf(p[i].sat, "fade") :
           FaultsOf(p[i].sat, "fade") = {f} => file[f].limit * after.soc <= 100 * p[j].soc
      /\ FaultsOf(p[i].sat, "stuck") = {} =>
           /\ p[i].temp - before.temp <= p[j].temp - after.temp
           /\ \A f \in FaultsOf(p[i].sat, "runaway") :
                FaultsOf(p[i].sat, "runaway") = {f} =>
                  p[j].temp - after.temp <= file[f].limit

\* The figures show what is streamed: a satellite drawn by itself, from the same
\* start and with the same faults, has at the time of each message, also of a
\* session that lost others, the sample the message was made from among the whole
\* fleet, and the shaded stretches before it are its ticks in eclipse.
FigureShowsTheStream ==
  LET p == Published IN
  \A i \in DOMAIN p :
    LET n     == TickOf(p[i])
        drawn == Alone(Bound(file, simStart), p[i].sat, n)
        spans == EclipseSpans([k \in DOMAIN drawn |-> drawn[k].shadow])
    IN  /\ \A channel \in DOMAIN drawn[n] : p[i][channel] = drawn[n][channel]
        /\ \A k \in 1..n - 1 :
             drawn[k].shadow <=> \E s \in spans : s[1] <= k /\ k < s[2]

\* Over all sessions, a satellite's messages are in sim-time order.
SimTimeMonotone ==
  \A i, j \in DOMAIN topic :
    i < j /\ topic[i].sat = topic[j].sat => topic[i].stamp <= topic[j].stamp

\* A requested stop ends a session that has no tick limit.
HaltHonoured == halt ~> ppc = "off"

=============================================================================
