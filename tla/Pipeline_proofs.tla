-------------------------- MODULE Pipeline_proofs --------------------------
(***************************************************************************)
(* The write path end to end: what one session of the producer puts into   *)
(* the topic is what the consumer is specified to be fed with, so what is  *)
(* proved of the consumer holds of the pipeline, and a session and a       *)
(* consumer process that both end in good order archive the simulation.    *)
(* What the dbt models make of that archive is what the simulation was:    *)
(* (sat, time) is a key of its rows, so the joins of sat_minute_rollup     *)
(* pair each row with itself, and a sum over a bucket of the rollup is the *)
(* sum over one satellite's ticks of one minute.                           *)
(***************************************************************************)
EXTENDS Pipeline, Producer_proofs, ConsumerRestart_proofs, FiniteSetTheorems, FunctionTheorems

\* A message of the session is about one of its satellites and one of its ticks.
OnSchedule(m) ==
  /\ m.sat \in Sats
  /\ \E t \in 0..MaxTickCount - 1 : m.stamp = simStart + t * TickSeconds

\* There is one session; it has sent no more than its ticks, all on schedule.
FeedInv ==
  /\ base = 0 /\ simStart \in 0..MaxGap /\ tickCount \in 0..MaxTickCount
  /\ sent <= tickCount * Len(fleet) /\ MaxTickCount * Len(fleet) <= MaxRecords
  /\ \A i \in DOMAIN fleet : fleet[i].id \in Sats
  /\ \A i \in DOMAIN Published : OnSchedule(Published[i])
  /\ session = 0 => ppc = "off" /\ wall = 0 /\ topic = <<>>

LEMMA FeedInit == ProducerInit => FeedInv
<1> SUFFICES ASSUME ProducerInit PROVE FeedInv
  OBVIOUS
<1>1. /\ base = 0 /\ simStart = 0 /\ tickCount = 0 /\ sent = 0 /\ fleet = <<>>
      /\ wall = 0 /\ topic = <<>> /\ queue = <<>> /\ ppc = "off"
  BY DEF ProducerInit, ClockInit
<1>2. Ordered(topic) /\ base = Len(topic)
  BY <1>1 DEF Ordered
<1>3. DOMAIN Published = {}
  BY <1>1, <1>2, NothingPublished DEF Published
<1>4. MaxGap \in Nat /\ MaxTickCount \in Nat /\ MaxRecords \in Nat
  BY ProducerAssumption, ClockAssumption, ArchiveAssumption
<1>5. Len(fleet) = 0 /\ MaxTickCount * 0 = 0 /\ 0 * 0 = 0
  BY <1>1, <1>4
<1> QED
  BY <1>1, <1>3, <1>4, <1>5 DEF FeedInv

LEMMA StartKeepsFeed ==
  ASSUME OneRun, LedgerInv, FeedInv, NEW cmd \in CommandLines, StartSession(cmd)
  PROVE  FeedInv'
<1> DEFINE chosen == Chosen(cmd.tle, cmd.limit)
<1>1. /\ session < MaxSessions /\ session' = session + 1 /\ base' = Len(topic)
      /\ topic' = topic /\ queue' = <<>> /\ sent' = 0
      /\ Runs(cmd) /\ NewClock(wall') /\ Build(cmd.tle, cmd.limit)
  BY DEF StartSession
<1>2. session = 0 /\ session' # 0
  BY <1>1, ProducerAssumption DEF OneRun, LedgerInv
<1>3. topic = <<>> /\ wall = 0
  BY <1>2 DEF FeedInv
<1>4. base' = 0 /\ Ordered(topic') /\ base' = Len(topic')
  BY <1>1, <1>3 DEF LedgerInv
<1>5. DOMAIN Published' = {}
  BY <1>1, <1>4, NothingPublished DEF Published
<1>6. PICK gap \in 0..MaxGap : wall' = gap
  <2>1. PICK gap \in 0..MaxGap : wall' = wall + gap
    BY DEF StartSession
  <2> QED
    BY <1>3, <2>1, ProducerAssumption
<1>7. simStart' \in 0..MaxGap /\ tickCount' = 0
  BY <1>1, <1>6 DEF NewClock
<1>8. /\ fleet' = [i \in DOMAIN chosen |->
                    [id |-> chosen[i].name, tle |-> chosen[i].tle,
                     soc |-> InitialSoc, temp |-> InitialTemp]]
      /\ MaxTickCount * Len(chosen) <= MaxRecords
      /\ \A i \in DOMAIN chosen : chosen[i].name \in Sats
      /\ Len(chosen) \in Nat /\ DOMAIN chosen = 1..Len(chosen)
  BY <1>1, ProducerAssumption DEF Build, OneRun
<1> HIDE DEF chosen
<1>9. Len(fleet') = Len(chosen) /\ \A i \in DOMAIN fleet' : fleet'[i].id \in Sats
  BY <1>8
<1>10. sent' <= tickCount' * Len(fleet') /\ tickCount' \in 0..MaxTickCount
  BY <1>1, <1>7, <1>8, <1>9, ClockAssumption
<1> QED
  BY <1>2, <1>4, <1>5, <1>7, <1>8, <1>9, <1>10 DEF FeedInv

LEMMA TickKeepsFeed ==
  ASSUME LedgerInv, LedgerInv', PaceInv, FeedInv,
         NEW work \in 0..MaxWork, NEW oversleep \in 0..MaxOversleep, TickOnce(work, oversleep)
  PROVE  FeedInv'
<1>1. /\ tickCount < MaxTickCount /\ tickCount' = tickCount + 1 /\ simStart' = simStart
      /\ UNCHANGED <<topic, queue, base, sent, session>> /\ ppc = "loop"
      /\ FleetTick(work, oversleep)
  BY DEF TickOnce, FleetTick, Tick, runvars
<1>2. /\ DOMAIN fleet' = DOMAIN fleet
      /\ \A i \in DOMAIN fleet : fleet'[i].id = fleet[i].id
  BY <1>1, TickKeepsNames
<1>3. PICK n \in Nat : n = Len(fleet) /\ n = Len(fleet')
  <2>1. 1..Len(fleet') = 1..Len(fleet) /\ Len(fleet) \in Nat /\ Len(fleet') \in Nat
    BY <1>2 DEF LedgerInv
  <2>2. \A a, b \in Nat : 1..a = 1..b => a = b
    OBVIOUS
  <2> QED
    BY <2>1, <2>2
<1>4. Published' = Published
  BY <1>1 DEF Published
<1>5. \A m : OnSchedule(m) => OnSchedule(m)'
  BY <1>1 DEF OnSchedule
<1>6. sent' <= tickCount' * n
  <2>1. sent \in Nat /\ tickCount \in Nat /\ sent <= tickCount * n
    BY <1>3, ClockAssumption DEF LedgerInv, FeedInv
  <2>2. (tickCount + 1) * n = tickCount * n + n
    BY <2>1, OneMoreBudget
  <2>3. PICK r \in Int : r = tickCount * n
    BY <2>1
  <2> QED
    BY <1>1, <2>1, <2>2, <2>3
<1>7. tickCount' \in 0..MaxTickCount
  BY <1>1, ClockAssumption DEF FeedInv
<1>8. session # 0
  BY <1>1 DEF FeedInv
<1> QED
  BY <1>1, <1>2, <1>3, <1>4, <1>5, <1>6, <1>7, <1>8 DEF FeedInv

LEMMA SendKeepsFeed ==
  ASSUME LedgerInv, LedgerInv', PaceInv, FeedInv, Send
  PROVE  FeedInv'
<1>1. /\ ppc = "send" /\ nextSat \in DOMAIN fleet /\ sent' = sent + 1
      /\ UNCHANGED <<simStart, tickCount, wall, fleet, topic, base, session, ppc>>
  BY DEF Send, clvars, clock, fleetvars, runvars
<1>2. /\ Len(Published') = Len(Published) + 1
      /\ \A i \in 1..Len(Published) : Published'[i] = Published[i]
      /\ Published'[Len(Published) + 1] = Message(Reported)
  BY SendPublishes DEF PaceInv
<1>3. /\ Len(Published) \in Nat /\ DOMAIN Published = 1..Len(Published)
      /\ DOMAIN Published' = 1..Len(Published')
  <2>1. base' \in Nat /\ base' <= Len(topic') /\ Ordered(topic') /\ Ordered(queue')
    BY <1>1 DEF LedgerInv, PaceInv
  <2>2. Follows(Published', topic', base', queue')
    BY <2>1, PublishedIs DEF Published
  <2> QED
    BY <2>2, PublishedLen DEF Follows
<1>4. OnSchedule(Message(Reported))
  <2>1. /\ Message(Reported).sat = fleet[nextSat].id
        /\ Message(Reported).stamp = simStart + ticks * TickSeconds
    BY <1>1 DEF Message, SatId, PaceInv
  <2>2. ticks \in 0..MaxTickCount - 1
    BY <1>1, ClockAssumption DEF LedgerInv, PaceInv, FeedInv
  <2> QED
    BY <1>1, <2>1, <2>2 DEF OnSchedule, FeedInv
<1>5. \A i \in DOMAIN Published' : OnSchedule(Published'[i])
  <2>1. \A i \in DOMAIN Published' : i \in DOMAIN Published \/ i = Len(Published) + 1
    BY <1>2, <1>3
  <2> QED
    BY <1>2, <1>3, <1>4, <2>1 DEF FeedInv
<1>6. \A i \in DOMAIN Published' : OnSchedule(Published[i])' <=> OnSchedule(Published'[i])
  BY <1>1 DEF OnSchedule
<1>7. sent' <= tickCount * Len(fleet)
  <2>1. PICK n \in Nat : n = Len(fleet)
    BY DEF LedgerInv
  <2>2. /\ sent = ticks * n + nextSat - 1 /\ nextSat \in 1..n /\ ticks \in Nat
        /\ tickCount = ticks + 1
    BY <1>1, <2>1 DEF LedgerInv, PaceInv
  <2>3. (ticks + 1) * n = ticks * n + n
    BY <2>2, OneMoreBudget
  <2>4. PICK r \in Int : r = ticks * n
    BY <2>2
  <2> QED
    BY <1>1, <2>1, <2>2, <2>3, <2>4
<1> QED
  BY <1>1, <1>5, <1>6, <1>7 DEF FeedInv

\* A client that delivers or loses messages publishes nothing else.
LEMMA NothingAdded ==
  ASSUME LedgerInv, LedgerInv', PaceInv, PaceInv', Deliver \/ Expire \/ KillProducer \/ CloseDone
  PROVE  \A i \in DOMAIN Published' : \E j \in DOMAIN Published : Published'[i] = Published[j]
<1>0. base <= Len(topic)
  BY DEF PaceInv
<1>1. CASE Deliver
  <2>1. /\ Len(Published') = Len(Published)
        /\ \A i \in DOMAIN Published : Published'[i] = Published[i]
    BY <1>0, <1>1, DeliverPublishes
  <2>2. Follows(Published', topic', base', queue') /\ Follows(Published, topic, base, queue)
    BY PublishedIs DEF Published, LedgerInv, PaceInv
  <2> QED
    BY <2>1, <2>2 DEF Follows
<1>2. CASE Expire \/ KillProducer \/ CloseDone
  <2>1. /\ topic' = topic /\ base' = base
        /\ (queue # <<>> /\ queue' = Tail(queue)) \/ queue' = <<>>
    BY <1>2 DEF Expire, KillProducer, CloseDone, runvars
  <2>2. Thinned(Published', Published)
    BY <1>0, <2>1, LossThins
  <2> QED
    BY <2>2 DEF Thinned
<1> QED
  BY <1>1, <1>2

LEMMA OthersKeepFeed ==
  ASSUME LedgerInv, LedgerInv', PaceInv, PaceInv', FeedInv,
         \/ Deliver \/ Expire \/ KillProducer \/ RequestHalt
         \/ SendRaises \/ TickDone \/ LeaveTicking \/ FlushDone \/ CloseDone \/ UNCHANGED pvars
  PROVE  FeedInv'
<1>1. /\ UNCHANGED <<simStart, tickCount, wall, fleet, sent, base, session>>
      /\ topic' = topic \/ ppc # "off"
      /\ ppc' = ppc \/ ppc # "off"
  BY DEF Deliver, Expire, KillProducer, RequestHalt, SendRaises, TickDone, LeaveTicking,
         FlushDone, CloseDone, pvars, clvars, clock, loopvars, fleetvars, runvars
<1>2. \A i \in DOMAIN Published' : \E j \in DOMAIN Published : Published'[i] = Published[j]
  <2>1. CASE Deliver \/ Expire \/ KillProducer \/ CloseDone
    BY <2>1, NothingAdded
  <2>2. CASE UNCHANGED <<topic, queue, base>>
    BY <2>2 DEF Published
  <2>3. CASE RequestHalt \/ SendRaises \/ TickDone \/ LeaveTicking \/ FlushDone \/ UNCHANGED pvars
    BY <2>2, <2>3 DEF RequestHalt, SendRaises, TickDone, LeaveTicking, FlushDone, pvars, runvars
  <2> QED
    BY <2>1, <2>3
<1>3. \A m : OnSchedule(m) <=> OnSchedule(m)'
  BY <1>1 DEF OnSchedule
<1>4. \A i \in DOMAIN Published' : OnSchedule(Published'[i])
  BY <1>2 DEF FeedInv
<1>5. \A i \in DOMAIN Published' : OnSchedule(Published[i])' <=> OnSchedule(Published'[i])
  BY <1>1 DEF OnSchedule
<1>6. session' = 0 => ppc' = "off" /\ wall' = 0 /\ topic' = <<>>
  BY <1>1 DEF FeedInv
<1> QED
  BY <1>1, <1>4, <1>5, <1>6 DEF FeedInv

LEMMA FeedStep ==
  ASSUME OneRun, LedgerInv, LedgerInv', PaceInv, PaceInv', FeedInv, [ProducerNext]_pvars
  PROVE  FeedInv'
<1>1. ASSUME NEW cmd \in CommandLines, RefuseSession(cmd) PROVE FeedInv'
  <2>1. /\ session' = session + 1 /\ session < MaxSessions
        /\ UNCHANGED <<simStart, tickCount, fleet, sent, base, topic, queue>>
    BY <1>1 DEF RefuseSession, clock, loopvars, fleetvars
  <2>2. session' # 0
    BY <2>1 DEF LedgerInv
  <2>3. Published' = Published /\ \A m : OnSchedule(m) => OnSchedule(m)'
    BY <2>1 DEF Published, OnSchedule
  <2> QED
    BY <2>1, <2>2, <2>3 DEF FeedInv
<1> QED
  BY <1>1, StartKeepsFeed, TickKeepsFeed, SendKeepsFeed, OthersKeepFeed
  DEF ProducerNext, ProducerStep

-----------------------------------------------------------------------------
(* The topic as the consumer reads it                                      *)

\* The log is as long as the topic, and a message more in the one is a message
\* more in the other.
LEMMA WireFacts ==
  ASSUME NEW t, Ordered(t)
  PROVE  /\ Ordered(OnTheWire(t)) /\ Len(OnTheWire(t)) = Len(t)
         /\ \A i \in 1..Len(t) : OnTheWire(t)[i] = Wire(t[i])
<1>1. PICK n \in Nat : n = Len(t) /\ DOMAIN t = 1..n
  BY OrderedLen
<1> DEFINE w == OnTheWire(t)  S == {w[i] : i \in DOMAIN w}
<1>2. DOMAIN w = 1..n /\ \A i \in 1..n : w[i] = Wire(t[i])
  BY <1>1 DEF OnTheWire
<1>3. w = [i \in 1..n |-> w[i]]
  BY <1>1 DEF OnTheWire
<1>4. w \in [1..n -> S]
  BY <1>2, <1>3
<1>5. w \in Seq(S) /\ Len(w) = n
  BY <1>4, SMT
<1> QED
  BY <1>1, <1>2, <1>5 DEF Ordered

LEMMA AppendedAt ==
  ASSUME NEW s, Ordered(s), NEW e
  PROVE  \A i \in 1..Len(s) + 1 : Append(s, e)[i] = IF i = Len(s) + 1 THEN e ELSE s[i]
BY DEF Ordered

LEMMA IsItsPlaces ==
  ASSUME NEW s, Ordered(s)
  PROVE  s = [i \in 1..Len(s) |-> s[i]]
<1>1. s \in [1..Len(s) -> {s[i] : i \in DOMAIN s}]
  BY LenProperties DEF Ordered
<1> QED
  BY <1>1

LEMMA WireAppends ==
  ASSUME NEW t, Ordered(t), NEW m
  PROVE  OnTheWire(Append(t, m)) = Append(OnTheWire(t), Wire(m))
<1> DEFINE a == Append(t, m)  w == OnTheWire(t)  b == Append(w, Wire(m))
<1>1. Ordered(a) /\ Len(a) = Len(t) + 1 /\ Ordered(w) /\ Len(w) = Len(t) /\ Len(t) \in Nat
  BY OrderedAppend, OrderedLen, WireFacts
<1>2. Ordered(b) /\ Len(b) = Len(w) + 1 /\ Ordered(OnTheWire(a)) /\ Len(OnTheWire(a)) = Len(t) + 1
  BY <1>1, OrderedAppend, WireFacts
<1>3. \A i \in 1..Len(t) + 1 : OnTheWire(a)[i] = b[i]
  <2>1. \A i \in 1..Len(t) + 1 : a[i] = IF i = Len(t) + 1 THEN m ELSE t[i]
    BY <1>1, AppendedAt
  <2>2. \A i \in 1..Len(t) + 1 : b[i] = IF i = Len(t) + 1 THEN Wire(m) ELSE w[i]
    <3> HIDE DEF w
    <3> QED
      BY <1>1, AppendedAt
  <2>3. \A i \in 1..Len(t) + 1 : OnTheWire(a)[i] = Wire(a[i])
    BY <1>1, WireFacts
  <2>4. \A i \in 1..Len(t) : w[i] = Wire(t[i])
    BY WireFacts
  <2> QED
    BY <1>1, <2>1, <2>2, <2>3, <2>4
<1>4. OnTheWire(a) = [i \in 1..Len(t) + 1 |-> OnTheWire(a)[i]]
  BY <1>2, IsItsPlaces
<1>5. b = [i \in 1..Len(t) + 1 |-> b[i]]
  <2> HIDE DEF b
  <2> QED
    BY <1>1, <1>2, IsItsPlaces
<1> QED
  BY <1>3, <1>4, <1>5

LEMMA HoursFollow ==
  \A h \in Nat \ {0}, a, b \in Nat :
    /\ a \div h \in Nat
    /\ a <= b => a \div h <= b \div h
    /\ a \div h = b \div h => b - a < h
  BY SMTT(30)

LEMMA ShorterSpan ==
  ASSUME NEW d \in Nat \ {0}, NEW t \in Nat, NEW u \in Nat, NEW n \in Nat,
         u * d < t * d, t * d - u * d < n * d
  PROVE  u < t /\ t - u < n /\ (t - u) * d = t * d - u * d
  BY ScaleLE, SMT

\* What the client delivers next comes after all it delivered.
LEMMA HeadIsNext ==
  ASSUME LedgerInv, PaceInv, OrderInv, FeedInv, queue # <<>>
  PROVE  /\ OnSchedule(Head(queue))
         /\ \A o \in 1..Len(topic) :
              /\ OnSchedule(topic[o])
              /\ topic[o].sat = Head(queue).sat => topic[o].stamp < Head(queue).stamp
         /\ \A o, p \in 1..Len(topic) :
              o < p /\ topic[o].sat = topic[p].sat => topic[o].stamp < topic[p].stamp
<1>1. Follows(Published, topic, base, queue)
  BY PublishedFacts DEF PaceInv
<1>2. /\ Len(topic) \in Nat /\ Len(queue) \in Nat /\ Len(queue) > 0 /\ Head(queue) = queue[1]
      /\ base = 0
  BY OrderedLen DEF LedgerInv, Ordered, FeedInv
<1>3. /\ \A o \in 1..Len(topic) : o \in DOMAIN Published /\ Published[o] = topic[o]
      /\ Len(topic) + 1 \in DOMAIN Published /\ Published[Len(topic) + 1] = Head(queue)
  BY <1>1, <1>2 DEF Follows
<1>4. InOrder(Published) /\ \A i \in DOMAIN Published : OnSchedule(Published[i])
  BY DEF OrderInv, FeedInv
<1>5. /\ OnSchedule(Head(queue))
      /\ \A o \in 1..Len(topic) : OnSchedule(topic[o])
  BY <1>3, <1>4
<1>6. \A i, j \in DOMAIN Published :
        i < j /\ Published[i].sat = Published[j].sat => Published[i].stamp < Published[j].stamp
  BY <1>4 DEF InOrder
<1>7. \A o \in 1..Len(topic) : o < Len(topic) + 1
  BY <1>2
<1> QED
  BY <1>3, <1>5, <1>6, <1>7

LEMMA RoomInLog ==
  ASSUME LedgerInv, FeedInv, queue # <<>>
  PROVE  Len(topic) < MaxRecords
<1>1. /\ Len(topic) \in Nat /\ Len(queue) \in Nat /\ Len(queue) > 0 /\ lost \in Nat
      /\ Len(topic) + Len(queue) + lost = sent
  BY OrderedLen DEF LedgerInv, Ordered, FeedInv
<1>2. PICK n \in Nat : n = Len(fleet)
  BY DEF LedgerInv
<1>3. tickCount * n <= MaxTickCount * n
  BY <1>2, ClockAssumption, TimesLE DEF FeedInv
<1>4. PICK a, b \in Int : a = tickCount * n /\ b = MaxTickCount * n
  BY <1>2, ClockAssumption DEF FeedInv
<1>5. sent <= a /\ b <= MaxRecords
  BY <1>2, <1>4 DEF FeedInv
<1> QED
  BY <1>1, <1>3, <1>4, <1>5, ArchiveAssumption DEF LedgerInv

\* A message on schedule decodes to a row of the consumer's instance.
LEMMA ScheduledRow ==
  ASSUME OneRun, FeedInv, NEW m, OnSchedule(m)
  PROVE  /\ m.stamp \in Nat /\ m.stamp \div HourLength \in Hours
         /\ Wire(m) \in Messages
<1>1. PICK t \in 0..MaxTickCount - 1 : m.stamp = simStart + t * TickSeconds
  BY DEF OnSchedule
<1>2. /\ t * TickSeconds \in Nat /\ MaxTickCount * TickSeconds \in Nat
      /\ t * TickSeconds <= MaxTickCount * TickSeconds
  <2>1. t \in Int /\ MaxTickCount \in Nat /\ t <= MaxTickCount /\ TickSeconds \in Nat
    BY TickSecondsType, ClockAssumption
  <2>2. t \in Nat /\ \A a, b \in Nat : a * b \in Nat
    BY SMT
  <2> QED
    BY <2>1, <2>2, TimesLE
<1>3. m.stamp \in 0..MaxGap + MaxTickCount * TickSeconds
  <2>1. PICK a, b \in Nat : a = t * TickSeconds /\ b = MaxTickCount * TickSeconds /\ a <= b
    BY <1>2
  <2> QED
    BY <1>1, <2>1, ProducerAssumption DEF FeedInv
<1>4. m.stamp \div HourLength \in Hours /\ m.stamp \in Nat
  BY <1>3 DEF OneRun
<1>5. m.sat \in Sats /\ "row" \in Kinds
  BY DEF OnSchedule, OneRun
<1> QED
  BY <1>4, <1>5 DEF Wire, Messages

\* The rows of the log are the topic's messages.
LEMMA WiredRow ==
  ASSUME LedgerInv, log = OnTheWire(topic)
  PROVE  /\ Len(log) = Len(topic)
         /\ \A o \in 1..Len(topic) :
              /\ IsRow(o)
              /\ Row(o) = [id |-> o, sat |-> topic[o].sat,
                           hour |-> topic[o].stamp \div HourLength]
<1>1. Len(log) = Len(topic) /\ \A o \in 1..Len(topic) : log[o] = Wire(topic[o])
  BY WireFacts DEF LedgerInv
<1>2. \A m : /\ Wire(m).kind = "row" /\ Wire(m).sat = m.sat
            /\ Wire(m).hour = m.stamp \div HourLength
  BY DEF Wire
<1> QED
  BY <1>1, <1>2 DEF IsRow, Row

\* Below the row cap in every partition: the ticks of one hour
LEMMA FewPerHour ==
  ASSUME OneRun, LedgerInv, PaceInv, OrderInv, FeedInv, log = OnTheWire(topic), queue # <<>>,
         NEW r, r.sat = Head(queue).sat, r.hour = Head(queue).stamp \div HourLength
  PROVE  Cardinality({q \in RowsUpTo(Len(log)) : PartitionOf(q) = PartitionOf(r)}) + 1 < MaxRows
<1> DEFINE m == Head(queue)
           same == {q \in RowsUpTo(Len(log)) : PartitionOf(q) = PartitionOf(r)}
           Ago(o, k) == m.stamp - topic[o].stamp = k * TickSeconds
           ago == [q \in same |-> CHOOSE k \in 1..MaxRows - 2 : Ago(q.id, k)]
<1>1. /\ \A q \in same : /\ q.id \in 1..Len(topic) /\ q = Row(q.id)
                         /\ topic[q.id].sat = m.sat
                         /\ topic[q.id].stamp \div HourLength = m.stamp \div HourLength
  <2> SUFFICES ASSUME NEW q \in same
               PROVE  /\ q.id \in 1..Len(topic) /\ q = Row(q.id)
                      /\ topic[q.id].sat = m.sat
                      /\ topic[q.id].stamp \div HourLength = m.stamp \div HourLength
    OBVIOUS
  <2>1. PICK o \in 1..Len(log) : q = Row(o)
    BY DEF RowsUpTo
  <2>2. /\ o \in 1..Len(topic)
        /\ q.id = o /\ q.sat = topic[o].sat /\ q.hour = topic[o].stamp \div HourLength
    BY <2>1, WiredRow
  <2>3. q.sat = r.sat /\ q.hour = r.hour
    BY DEF PartitionOf
  <2> QED
    BY <2>1, <2>2, <2>3
<1>2. ASSUME NEW o \in 1..Len(topic), topic[o].sat = m.sat,
             topic[o].stamp \div HourLength = m.stamp \div HourLength
      PROVE  \E k \in 1..MaxRows - 2 : Ago(o, k)
  <2>1. OnSchedule(topic[o]) /\ OnSchedule(m) /\ topic[o].stamp < m.stamp
    BY <1>2, HeadIsNext
  <2>2. topic[o].stamp \in Nat /\ m.stamp \in Nat
    BY <2>1, ScheduledRow
  <2>3. m.stamp - topic[o].stamp < HourLength
    BY <1>2, <2>2, HoursFollow, PipelineAssumption
  <2>4. PICK t \in 0..MaxTickCount - 1 : m.stamp = simStart + t * TickSeconds
    BY <2>1 DEF OnSchedule
  <2>5. PICK u \in 0..MaxTickCount - 1 : topic[o].stamp = simStart + u * TickSeconds
    BY <2>1 DEF OnSchedule
  <2>6. /\ MaxRows - 1 \in Nat /\ HourLength <= (MaxRows - 1) * TickSeconds
        /\ TickSeconds \in Nat \ {0} /\ t \in Nat /\ u \in Nat /\ simStart \in Int
        /\ HourLength \in Nat
    <3>1. TickSeconds * (MaxRows - 1) = (MaxRows - 1) * TickSeconds
      BY BatcherAssumption, TickSecondsType, SMT
    <3>2. \A n \in 0..MaxTickCount - 1 : n \in Nat
      BY ClockAssumption
    <3> QED
      BY <3>1, <3>2, TickSecondsType, PipelineAssumption, BatcherAssumption,
         ProducerAssumption DEF OneRun, FeedInv
  <2>7. u * TickSeconds < t * TickSeconds
        /\ t * TickSeconds - u * TickSeconds < (MaxRows - 1) * TickSeconds
    <3>1. PICK a, b, c \in Int : a = t * TickSeconds /\ b = u * TickSeconds
                                  /\ c = (MaxRows - 1) * TickSeconds
      BY <2>6
    <3>2. PICK x, y \in Nat : x = m.stamp /\ y = topic[o].stamp
      BY <2>2
    <3>3. x = simStart + a /\ y = simStart + b /\ HourLength <= c
      BY <2>4, <2>5, <2>6, <3>1, <3>2
    <3>4. y < x /\ x - y < HourLength
      BY <2>1, <2>3, <3>2
    <3>5. b < a /\ a - b < c
      BY <2>6, <3>3, <3>4
    <3> QED
      BY <3>1, <3>5
  <2>8. u < t /\ t - u < MaxRows - 1
        /\ (t - u) * TickSeconds = t * TickSeconds - u * TickSeconds
    BY <2>6, <2>7, ShorterSpan
  <2>9. t - u \in 1..MaxRows - 2 /\ Ago(o, t - u)
    <3>1. PICK a, b \in Int : a = t * TickSeconds /\ b = u * TickSeconds
      BY <2>6
    <3>2. m.stamp = simStart + a /\ topic[o].stamp = simStart + b
      BY <2>4, <2>5, <3>1
    <3>3. m.stamp - topic[o].stamp = a - b
      BY <2>6, <3>2
    <3>4. (t - u) * TickSeconds = a - b
      BY <2>8, <3>1
    <3>5. t - u \in 1..MaxRows - 2
      BY <2>6, <2>8, BatcherAssumption
    <3> QED
      BY <3>3, <3>4, <3>5
  <2> QED
    BY <2>9
<1> HIDE DEF Ago
<1>3. \A q \in same : ago[q] \in 1..MaxRows - 2 /\ Ago(q.id, ago[q])
  BY <1>1, <1>2
<1>4. ASSUME NEW p \in same, NEW q \in same, ago[p] = ago[q]
      PROVE  p = q
  <2>1. topic[p.id].stamp = topic[q.id].stamp
    <3>1. OnSchedule(topic[p.id]) /\ OnSchedule(topic[q.id]) /\ OnSchedule(m)
      BY <1>1, HeadIsNext
    <3>2. topic[p.id].stamp \in Nat /\ topic[q.id].stamp \in Nat /\ m.stamp \in Nat
      BY <3>1, ScheduledRow
    <3>3. m.stamp - topic[p.id].stamp = m.stamp - topic[q.id].stamp
      BY <1>3, <1>4 DEF Ago
    <3> QED
      BY <3>2, <3>3
  <2>2. ~(p.id < q.id) /\ ~(q.id < p.id)
    <3>1. topic[p.id].stamp \in Nat
      BY <1>1, HeadIsNext, ScheduledRow
    <3> QED
      BY <1>1, <2>1, <3>1, HeadIsNext
  <2>3. p.id = q.id
    BY <1>1, <2>2
  <2> QED
    BY <1>1, <2>3
<1> HIDE DEF ago
<1>5. ago \in Injection(same, 1..MaxRows - 2)
  <2>1. ago \in [same -> 1..MaxRows - 2]
    BY <1>3 DEF ago
  <2>2. \A p, q \in same : ago[p] = ago[q] => p = q
    BY <1>4
  <2> QED
    BY <2>1, <2>2, Fun_IsInj
<1>6. /\ IsFiniteSet(1..MaxRows - 2) /\ MaxRows \in Nat
      /\ Cardinality(1..MaxRows - 2) = IF 1 > MaxRows - 2 THEN 0 ELSE MaxRows - 2
  BY FS_Interval, BatcherAssumption
<1>7. Cardinality(same) <= Cardinality(1..MaxRows - 2) /\ Cardinality(same) \in Nat
  BY <1>5, <1>6, FS_Injection, FS_CardinalityType
<1>8. MaxRows > 1
  <2>1. CASE MaxRows = 1
    <3>1. TickSeconds * (MaxRows - 1) = 0
      BY <2>1, TickSecondsType
    <3> QED
      BY <3>1, PipelineAssumption DEF OneRun
  <2> QED
    BY <2>1, BatcherAssumption
<1> HIDE DEF same
<1>9. Cardinality(same) + 1 < MaxRows
  BY <1>6, <1>7, <1>8
<1> QED
  BY <1>9 DEF same

\* What the client delivers is what the consumer expects a publisher to publish.
LEMMA DeliveryPublishes ==
  ASSUME OneRun, LedgerInv, PaceInv, OrderInv, FeedInv, log = OnTheWire(topic),
         Deliver, ConsumerWaits
  PROVE  \E m \in Messages : Publish(m)
<1> DEFINE m == Head(queue)
           r == [id |-> Len(log) + 1, sat |-> Wire(m).sat, hour |-> Wire(m).hour]
<1>1. /\ queue # <<>> /\ topic' = Append(topic, m) /\ log' = OnTheWire(topic')
      /\ UNCHANGED <<bvars, committed, cpc, outcome, control>>
  BY DEF Deliver, ConsumerWaits
<1>2. log' = Append(log, Wire(m))
  BY <1>1, WireAppends DEF LedgerInv
<1>3. Len(log) = Len(topic) /\ Len(log) \in Nat /\ Len(log) < MaxRecords
  BY <1>1, WiredRow, RoomInLog, OrderedLen DEF LedgerInv
<1>4. OnSchedule(m) /\ Wire(m) \in Messages
  BY <1>1, HeadIsNext, ScheduledRow
<1>5. r.id = Len(log) + 1 /\ r.sat = m.sat /\ r.hour = m.stamp \div HourLength
  BY DEF Wire
<1>6. \A q \in RowsUpTo(Len(log)) : q.id < r.id /\ (q.sat = r.sat => q.hour <= r.hour)
  <2> SUFFICES ASSUME NEW o \in 1..Len(log)
               PROVE  Row(o).id < r.id /\ (Row(o).sat = r.sat => Row(o).hour <= r.hour)
    BY DEF RowsUpTo
  <2>1. /\ Row(o).id = o /\ Row(o).sat = topic[o].sat
        /\ Row(o).hour = topic[o].stamp \div HourLength
    BY <1>3, WiredRow
  <2>2. OnSchedule(topic[o]) /\ (topic[o].sat = m.sat => topic[o].stamp < m.stamp)
    BY <1>1, <1>3, HeadIsNext
  <2>3. topic[o].stamp \in Nat /\ m.stamp \in Nat
    BY <1>4, <2>2, ScheduledRow
  <2>4. topic[o].sat = m.sat => topic[o].stamp \div HourLength <= m.stamp \div HourLength
    <3>1. PICK a, b, h \in Nat : a = topic[o].stamp /\ b = m.stamp /\ h = HourLength /\ h # 0
      BY <2>3, PipelineAssumption
    <3>2. a <= b => a \div h <= b \div h
      BY <3>1, HoursFollow
    <3> QED
      BY <2>2, <3>1, <3>2
  <2> QED
    BY <1>3, <1>5, <2>1, <2>4
<1> HIDE DEF r
<1>7. Cardinality({q \in RowsUpTo(Len(log)) : PartitionOf(q) = PartitionOf(r)}) + 1 < MaxRows
  BY <1>1, <1>5, FewPerHour
<1>8. MayFollow(RowsUpTo(Len(log)), r)
  BY <1>6, <1>7 DEF MayFollow
<1>9. Publish(Wire(m))
  BY <1>1, <1>2, <1>3, <1>8 DEF Publish, r
<1> QED
  BY <1>4, <1>9

\* All the producer's side knows of itself
FeederInv ==
  /\ LedgerInv /\ PaceInv /\ NamesDiffer /\ OrderInv /\ FeedInv

LogIsTopic == log = OnTheWire(topic)

LEMMA FeederInit == PipelineInit => FeederInv /\ LogIsTopic /\ Init
<1> SUFFICES ASSUME PipelineInit PROVE FeederInv /\ LogIsTopic /\ Init
  OBVIOUS
<1>1. ProducerInit /\ Init
  BY DEF PipelineInit
<1>2. topic = <<>> /\ log = <<>>
  BY <1>1 DEF ProducerInit, Init
<1>3. OnTheWire(topic) = <<>>
  BY <1>2 DEF OnTheWire
<1> QED
  BY <1>1, <1>2, <1>3, LedgerInit, PaceInit, NamesInit, OrderInit, FeedInit
  DEF FeederInv, LogIsTopic

LEMMA FeederStep ==
  ASSUME OneRun, FeederInv, [PipelineNext]_vars
  PROVE  FeederInv'
<1>1. [ProducerNext]_pvars
  BY DEF PipelineNext, ProducerMoves, ConsumerMoves, vars
<1>2. DistinctNames
  BY DEF OneRun
<1>3. LedgerInv' /\ PaceInv'
  BY <1>1, LedgerStep, PaceStep DEF FeederInv
<1>4. NamesDiffer' /\ OrderInv'
  BY <1>1, <1>2, <1>3, NamesStep, OrderStep DEF FeederInv
<1>5. FeedInv'
  BY <1>1, <1>3, FeedStep DEF FeederInv
<1> QED
  BY <1>3, <1>4, <1>5 DEF FeederInv

\* A step of the pipeline is a step of the consumer and its publishers.
LEMMA PipelineStepFeeds ==
  ASSUME OneRun, FeederInv, LogIsTopic, [PipelineNext]_vars
  PROVE  LogIsTopic' /\ [Next]_cvars
<1>1. CASE Deliver /\ ConsumerWaits
  BY <1>1, DeliveryPublishes DEF FeederInv, LogIsTopic, ConsumerWaits, Next
<1>2. CASE topic' = topic /\ ConsumerWaits
  BY <1>2 DEF LogIsTopic, ConsumerWaits, cvars, OnTheWire
<1>3. CASE ConsumerMoves
  <2>1. topic' = topic /\ log' = log /\ Next
    BY <1>3 DEF ConsumerMoves, pvars, Next, ConsumerStep, EnterPoll, LeaveLoop, PollMessage,
       PollNothing, DispatchRow, DispatchBad, DispatchPoison, BatcherRuns, AcceptReturns,
       FlushAllReturns, BatcherRaises, Close, RequestStop, AutoCommit, Kill, Start
  <2> QED
    BY <2>1 DEF LogIsTopic, OnTheWire
<1>4. CASE UNCHANGED vars
  BY <1>4 DEF vars, pvars, cvars, LogIsTopic, OnTheWire
<1>5. CASE ProducerNext /\ ConsumerWaits
  <2>1. Deliver \/ topic' = topic
    BY <1>5 DEF ProducerNext, ProducerStep, StartSession, RefuseSession, RequestHalt,
       Expire, KillProducer, TickOnce, Send, SendRaises, TickDone, LeaveTicking, FlushDone,
       CloseDone
  <2> QED
    BY <1>1, <1>2, <1>5, <2>1
<1> QED
  BY <1>3, <1>4, <1>5 DEF PipelineNext, ProducerMoves

\* ConsumerSpec, for every constellation, fault file, clock and broker: one
\* session of `sim run` is a publisher such as TelemetryConsumer is specified
\* against, so what is proved of the consumer holds at the end of the pipeline.
THEOREM PipelineFeedsConsumer ==
  ASSUME OneRun
  PROVE  PipelineSpec => ConsumerSpec
<1>1. PipelineInit => FeederInv /\ LogIsTopic /\ Init
  BY FeederInit
<1>2. FeederInv /\ LogIsTopic /\ [PipelineNext]_vars
        => FeederInv' /\ LogIsTopic' /\ [Next]_cvars
  BY FeederStep, PipelineStepFeeds
<1> QED
  BY <1>1, <1>2, PTL DEF PipelineSpec, ConsumerSpec, Spec

\* Nothing `sim run` sends is archived twice, lost from the archive again or
\* archived without having been taken by the batcher.
THEOREM PipelineImplementsDurableArchive ==
  ASSUME OneRun, MaxLives <= 1, InOrderTraffic
  PROVE  PipelineSpec => ImplementsDurableArchive
<1>1. PipelineSpec => Spec
  BY PipelineFeedsConsumer DEF ConsumerSpec
<1>2. Spec => ImplementsDurableArchive
  BY ConsumerImplementsDurableArchive
<1> QED
  BY <1>1, <1>2

\* A client whose deliveries succeed, and whose flush is given the time it takes,
\* gives up no message but by being killed.
Delivers == "expire" \notin BrokerFaults /\ "slow" \notin BrokerFaults

NothingLost == lost = 0 \/ (ending = "killed" /\ session # 0)

LEMMA NothingLostStep ==
  ASSUME OneRun, Delivers, FeederInv, NothingLost, [ProducerNext]_pvars
  PROVE  NothingLost'
<1>1. ASSUME NEW cmd \in CommandLines, StartSession(cmd) PROVE NothingLost'
  BY <1>1 DEF StartSession, NothingLost
<1>2. ASSUME NEW cmd \in CommandLines, RefuseSession(cmd) PROVE NothingLost'
  <2>1. session < MaxSessions /\ lost' = lost
    BY <1>2 DEF RefuseSession
  <2>2. session = 0
    BY <2>1, ProducerAssumption DEF OneRun, FeederInv, LedgerInv
  <2> QED
    BY <2>1, <2>2 DEF NothingLost
<1>3. CASE CloseDone
  <2>1. queue = <<>> /\ lost' = lost + Len(queue) /\ UNCHANGED <<ending, session>>
    BY <1>3 DEF CloseDone, FlushWaited, Delivers, runvars
  <2>2. Len(queue) = 0 /\ lost \in Nat
    BY <2>1 DEF FeederInv, LedgerInv
  <2> QED
    BY <2>1, <2>2 DEF NothingLost
<1>4. CASE FlushDone \/ LeaveTicking \/ TickDone \/ Send \/ SendRaises
  <2>1. ending # "killed" /\ lost' = lost
    BY <1>4 DEF FlushDone, LeaveTicking, TickDone, Send, SendRaises, FeederInv, LedgerInv
  <2> QED
    BY <2>1 DEF NothingLost
<1>5. ASSUME NEW work \in 0..MaxWork, NEW oversleep \in 0..MaxOversleep,
             TickOnce(work, oversleep)
      PROVE  NothingLost'
  BY <1>5 DEF TickOnce, NothingLost, runvars
<1>6. CASE KillProducer
  BY <1>6 DEF KillProducer, NothingLost, FeederInv, FeedInv, runvars
<1>7. CASE RequestHalt \/ Deliver \/ Expire \/ UNCHANGED pvars
  BY <1>7 DEF RequestHalt, Deliver, Expire, pvars, NothingLost, Delivers, runvars
<1> QED
  BY <1>1, <1>2, <1>3, <1>4, <1>5, <1>6, <1>7 DEF ProducerNext, ProducerStep

\* A log of rows has nothing to be counted as a decode error.
LEMMA NoneBadStep ==
  ASSUME LedgerInv, LogIsTopic, DriverInv, OffsetsInOrder, decodeErrors = 0, [Next]_cvars
  PROVE  decodeErrors' = 0
<1>1. ~DispatchBad
  <2>1. cpc = "dispatch" => position \in 1..Len(topic)
    BY WiredRow DEF LogIsTopic, DriverInv, LogTyped, AppendedPolled
  <2>2. cpc = "dispatch" => IsRow(position)
    BY <2>1, WiredRow DEF LogIsTopic
  <2> QED
    BY <2>2 DEF DispatchBad, IsRow
<1> QED
  BY <1>1 DEF Next, ConsumerStep, EnterPoll, LeaveLoop, PollMessage, PollNothing, DispatchRow,
     DispatchPoison, BatcherRuns, AcceptReturns, FlushAllReturns, BatcherRaises, Close,
     RequestStop, AutoCommit, Kill, Start, Publish, cvars, control

\* A row for every offset, and for each offset one.
LEMMA RowsAreCounted ==
  ASSUME LedgerInv, LogIsTopic
  PROVE  Cardinality(RowsUpTo(Len(topic))) = Len(topic)
<1>1. PICK n \in Nat : n = Len(topic)
  BY OrderedLen DEF LedgerInv
<1> DEFINE rows == RowsUpTo(n)  f == [o \in 1..n |-> Row(o)]
<1>2. \A o \in 1..n : IsRow(o) /\ Row(o).id = o
  BY <1>1, WiredRow DEF LogIsTopic
<1>3. rows = {Row(o) : o \in 1..n}
  BY <1>2 DEF RowsUpTo
<1>4. f \in Bijection(1..n, rows)
  <2>1. f \in [1..n -> rows]
    BY <1>3
  <2>2. \A a, b \in 1..n : f[a] = f[b] => a = b
    BY <1>2
  <2>3. \A r \in rows : \E o \in 1..n : f[o] = r
    BY <1>3
  <2> HIDE DEF f, rows
  <2> QED
    BY <2>1, <2>2, <2>3, Fun_IsBij
<1>5. IsFiniteSet(1..n) /\ Cardinality(1..n) = n
  BY FS_Interval
<1>6. ExistsBijection(1..n, rows)
  BY <1>4, Zenon DEF ExistsBijection
<1>7. Cardinality(rows) = n
  BY <1>5, <1>6, FS_Bijection
<1> QED
  BY <1>1, <1>7

\* A process that has ended in good order has put what it polled into the bucket.
LEMMA EndedMeansArchived ==
  ASSUME DriverInv, BatcherInv, WriteOnceInv, CalmInv, cpc = "off", life > 0
  PROVE  RowsIn(store) = RowsUpTo(position)
<1>1. bpc = "closed" /\ Held = {}
  BY DEF CalmInv, EndsFlushed, OpenKeys, Held
<1>2. RowsUpTo(position) \subseteq appended
  BY <1>1 DEF CalmInv, PolledTaken
<1>3. appended \subseteq RowsIn(store)
  BY <1>1 DEF BatcherInv, NoRowDropped, CalmInv, PutStays
<1>4. RowsIn(store) \subseteq appended
  BY DEF WriteOnceInv, OnlyAppendedStored, RowsIn
<1>5. appended \subseteq RowsUpTo(position)
  BY DEF DriverInv, AppendedPolled
<1> QED
  BY <1>2, <1>3, <1>4, <1>5

\* What holds of a consumer process that is never killed
WriteInv == DriverInv /\ BatcherInv /\ WriteOnceInv /\ CalmInv

\* What holds end to end
EndToEndInv ==
  /\ FeederInv /\ LogIsTopic /\ NothingLost
  /\ WriteInv /\ LifeInv /\ decodeErrors = 0

LEMMA EndToEndInit == PipelineInit => EndToEndInv
<1>1. PipelineInit => FeederInv /\ LogIsTopic /\ Init
  BY FeederInit
<1>2. PipelineInit => NothingLost
  BY DEF PipelineInit, ProducerInit, NothingLost
<1>3. Init => WriteInv /\ LifeInv /\ decodeErrors = 0
  BY DriverInit, BatcherInitInv, WriteOnceInit, CalmInit, LifeInit DEF Init, WriteInv
<1> QED
  BY <1>1, <1>2, <1>3 DEF EndToEndInv

LEMMA EndToEndStep ==
  ASSUME OneRun, Calm, Delivers, EndToEndInv, [PipelineNext]_vars
  PROVE  EndToEndInv'
<1> USE DEF EndToEndInv
<1>1. FeederInv' /\ LogIsTopic' /\ [Next]_cvars
  BY FeederStep, PipelineStepFeeds
<1>2. [ProducerNext]_pvars
  BY DEF PipelineNext, ProducerMoves, ConsumerMoves, vars
<1>3. NothingLost'
  BY <1>2, NothingLostStep
<1>4. WriteInv'
  <2>1. MaxLives <= 1 /\ InOrderTraffic
    BY DEF Calm, InOrderTraffic
  <2>2. DriverInv' /\ [BatcherNext]_bvars
    BY <1>1, <2>1, DriverStep DEF WriteInv
  <2>3. BatcherInv'
    BY <2>2, InternalStepKeeps, FlushAllCallKeeps, AcceptKeeps, BatcherStutters
    DEF BatcherNext, WriteInv
  <2>4. WriteOnceInv'
    BY <2>1, <2>2, WriteOnceStep DEF WriteInv
  <2> QED
    BY <1>1, <2>2, <2>3, <2>4, CalmStep DEF WriteInv
<1>5. LifeInv'
  BY <1>1, LifeStep
<1>6. decodeErrors' = 0
  BY <1>1, NoneBadStep DEF FeederInv, LifeInv, WriteInv
<1> QED
  BY <1>1, <1>3, <1>4, <1>5, <1>6

\* When the consumer has read to the end, the bucket has a row for every message
\* of the session.
LEMMA AllIsArchived ==
  ASSUME EndToEndInv, AllRead
  PROVE  /\ Len(topic) = sent /\ base = 0 /\ queue = <<>> /\ lost = 0
         /\ position = Len(topic) /\ RowsIn(store) = RowsUpTo(Len(topic))
<1> USE DEF EndToEndInv, AllRead
<1>1. lost = 0 /\ queue = <<>> /\ Len(queue) = 0 /\ base = 0
  BY DEF NothingLost, FeederInv, FeedInv, LedgerInv
<1>2. Len(topic) \in Nat /\ sent \in Nat /\ Len(topic) + Len(queue) + lost = base + sent
  BY OrderedLen DEF FeederInv, LedgerInv
<1> QED
  BY <1>1, <1>2, EndedMeansArchived DEF WriteInv

\* BytesInBytesOut, for every constellation, clock, row cap and length of an hour:
\* one session and one consumer process that both end in good order archive each
\* row the producer counts as sent, once, and the batcher's statistics agree.
THEOREM PipelineKeepsBytes ==
  ASSUME OneRun, Calm, Delivers
  PROVE  PipelineSpec => []BytesInBytesOut
<1>1. EndToEndInv => BytesInBytesOut
  <2> SUFFICES ASSUME EndToEndInv, AllRead
               PROVE  Cardinality(RowsIn(store)) = sent /\ stats.rowsFlushed = sent
    BY DEF BytesInBytesOut
  <2>1. Len(topic) = sent /\ position = Len(topic)
    BY AllIsArchived
  <2>2. Cardinality(RowsIn(store)) = sent
    BY <2>1, AllIsArchived, RowsAreCounted DEF EndToEndInv, FeederInv
  <2>3. stats.rowsFlushed = sent
    <3> USE DEF EndToEndInv, WriteInv, AllRead
    <3>1. /\ received + decodeErrors = position - start
          /\ received = stats.rowsBuffered /\ Held = {} /\ start = 0 /\ received \in Nat
      BY DEF LifeInv, Counted, CameThrough, CallsInStep, CalmInv, CommittedPolled
    <3>2. stats.rowsBuffered = stats.rowsFlushed + 0 /\ stats.rowsFlushed \in Nat
      BY <3>1, FS_EmptySet DEF BatcherInv, BatcherTypeOK, LifeInv, StatsBalance
    <3>3. position \in Nat
      BY DEF DriverInv, LogTyped
    <3> QED
      BY <2>1, <3>1, <3>2, <3>3
  <2> QED
    BY <2>2, <2>3
<1> QED
  BY <1>1, EndToEndInit, EndToEndStep, PTL DEF PipelineSpec

-----------------------------------------------------------------------------
(* Sums over sets                                                          *)

\* it[s] is what f sums up to over the subset s of S.
Totals(it, f, S) ==
  it = [s \in SUBSET S |->
         IF s = {} THEN 0
         ELSE f[CHOOSE x \in s : TRUE] + it[s \ {CHOOSE x \in s : TRUE}]]

\* The set of sizes of which every part of S has the property a lemma is about is
\* that of all sizes: induction on a finite set, for a set of its parts.
LEMMA BySize ==
  ASSUME NEW S, IsFiniteSet(S), NEW Good \in SUBSET SUBSET S, {} \in Good,
         \A s \in SUBSET S : s # {} /\ (\A x \in s : s \ {x} \in Good) => s \in Good
  PROVE  \A s \in SUBSET S : s \in Good
<1> DEFINE T == {n \in Nat : \A s \in SUBSET S : Cardinality(s) = n => s \in Good}
<1>0. \A s \in SUBSET S : IsFiniteSet(s) /\ Cardinality(s) \in Nat
  BY FS_Subset, FS_CardinalityType
<1>1. 0 \in T
  BY <1>0, FS_EmptySet
<1>2. ASSUME NEW n \in Nat, n \in T PROVE n + 1 \in T
  <2> SUFFICES ASSUME NEW s \in SUBSET S, Cardinality(s) = n + 1 PROVE s \in Good
    OBVIOUS
  <2>1. ASSUME NEW x \in s PROVE s \ {x} \in SUBSET S /\ Cardinality(s \ {x}) = n
    <3>1. IsFiniteSet(s)
      BY <1>0
    <3>2. Cardinality(s \ {x}) = Cardinality(s) - 1
      BY <3>1, FS_RemoveElement
    <3> QED
      BY <3>2
  <2>2. s # {}
    BY FS_EmptySet
  <2> QED
    BY <1>2, <2>1, <2>2
<1> HIDE DEF T
<1>3. Nat \subseteq T
  BY <1>1, <1>2, ByCounting
<1> QED
  BY <1>0, <1>3 DEF T

\* The sums of a finite set are what their definition describes.
LEMMA TotalsExist ==
  ASSUME NEW S, IsFiniteSet(S), NEW f
  PROVE  \E it : Totals(it, f, S)
<1> DEFINE c(s) == CHOOSE x \in s : TRUE
           Upto(n) == {s \in SUBSET S : Cardinality(s) <= n}
           Is(it, n) == it = [s \in Upto(n) |-> IF s = {} THEN 0 ELSE f[c(s)] + it[s \ {c(s)}]]
           T == {n \in Nat : \E it : Is(it, n)}
<1>0. \A s \in SUBSET S : IsFiniteSet(s) /\ Cardinality(s) \in Nat /\ Cardinality(s) <= Cardinality(S)
  BY FS_Subset, FS_CardinalityType
<1>1. 0 \in T
  <2> DEFINE it == [s \in Upto(0) |-> 0]
  <2>1. \A s \in Upto(0) : s = {}
    BY <1>0, FS_EmptySet
  <2>2. Is(it, 0)
    BY <2>1
  <2> QED
    BY <2>2
<1>2. ASSUME NEW n \in Nat, n \in T PROVE n + 1 \in T
  <2>1. PICK it : Is(it, n)
    BY <1>2
  <2> DEFINE new == [s \in Upto(n + 1) |->
                      IF s \in Upto(n) THEN it[s] ELSE f[c(s)] + it[s \ {c(s)}]]
  <2>2. ASSUME NEW s \in Upto(n + 1), s # {} PROVE c(s) \in s /\ s \ {c(s)} \in Upto(n)
    <3>1. c(s) \in s
      BY <2>2
    <3>2. Cardinality(s \ {c(s)}) = Cardinality(s) - 1 /\ s \ {c(s)} \in SUBSET S
      BY <1>0, <3>1, FS_RemoveElement
    <3> QED
      BY <1>0, <3>1, <3>2
  <2>3. Upto(n) \subseteq Upto(n + 1)
    BY <1>0
  <2>4. {} \in Upto(n)
    BY FS_EmptySet
  <2> HIDE DEF c, Upto
  <2>5. \A s \in Upto(n) : new[s] = it[s]
    BY <2>3
  <2>6. ASSUME NEW s \in Upto(n + 1)
        PROVE  new[s] = IF s = {} THEN 0 ELSE f[c(s)] + new[s \ {c(s)}]
    <3>1. CASE s \in Upto(n)
      <4>1. it[s] = IF s = {} THEN 0 ELSE f[c(s)] + it[s \ {c(s)}]
        BY <2>1, <3>1
      <4> QED
        BY <2>2, <2>5, <3>1, <4>1
    <3>2. CASE s \notin Upto(n)
      <4>1. new[s] = f[c(s)] + it[s \ {c(s)}] /\ s # {}
        BY <2>4, <3>2
      <4> HIDE DEF new
      <4> QED
        BY <2>2, <2>5, <4>1
    <3> QED
      BY <3>1, <3>2
  <2>7. Is(new, n + 1)
    <3> DEFINE u == [s \in Upto(n + 1) |-> IF s = {} THEN 0 ELSE f[c(s)] + new[s \ {c(s)}]]
    <3>1. \A s \in Upto(n + 1) : new[s] = u[s]
      BY <2>6
    <3>2. new = [s \in Upto(n + 1) |-> new[s]]
      OBVIOUS
    <3> HIDE DEF new
    <3> QED
      BY <3>1, <3>2
  <2> HIDE DEF Is, new
  <2> QED
    BY <2>7
<1> HIDE DEF c, Is, Upto
<1>3. Nat \subseteq T
  <2> HIDE DEF T
  <2> QED
    BY <1>1, <1>2, ByCounting
<1>4. PICK it : Is(it, Cardinality(S))
  BY <1>3, FS_CardinalityType
<1>5. Upto(Cardinality(S)) = SUBSET S
  BY <1>0 DEF Upto
<1>6. Totals(it, f, S)
  BY <1>4, <1>5 DEF Is, Totals, c
<1> QED
  BY <1>6

\* SumFunction takes the elements of its domain one by one, and adds them up.
LEMMA SumIsTotal ==
  ASSUME NEW f, IsFiniteSet(DOMAIN f)
  PROVE  \E it : Totals(it, f, DOMAIN f) /\ SumFunction(f) = it[DOMAIN f]
<1> DEFINE S == DOMAIN f
           it == CHOOSE iter : iter = [s \in SUBSET S |->
                   IF s = {} THEN 0
                   ELSE f[CHOOSE x \in s : TRUE] + iter[s \ {CHOOSE x \in s : TRUE}]]
<1>1. SumFunction(f) = it[S]
  BY DEF SumFunction, SumFunctionOnSet, FoldFunctionOnSet, MapThenFoldSet
<1>2. it = CHOOSE iter : Totals(iter, f, S)
  BY Zenon DEF Totals
<1> HIDE DEF it
<1>3. Totals(it, f, S)
  BY <1>2, TotalsExist, Zenon
<1> QED
  BY <1>1, <1>3

\* Whichever element is taken first, the sum is the same.
LEMMA TakenFirst ==
  ASSUME NEW S, IsFiniteSet(S), NEW f, \A x \in S : f[x] \in Int, NEW it, Totals(it, f, S)
  PROVE  /\ it[{}] = 0
         /\ \A s \in SUBSET S : it[s] \in Int /\ \A x \in s : it[s] = f[x] + it[s \ {x}]
<1> DEFINE c(s) == CHOOSE x \in s : TRUE
           Whole == {s \in SUBSET S : it[s] \in Int}
           Good == {s \in SUBSET S : \A x \in s : it[s] = f[x] + it[s \ {x}]}
<1>1. \A s \in SUBSET S : it[s] = IF s = {} THEN 0 ELSE f[c(s)] + it[s \ {c(s)}]
  BY DEF Totals
<1>2. it[{}] = 0
  BY <1>1
<1>3. \A s \in SUBSET S : s # {} => c(s) \in s
  OBVIOUS
<1> HIDE DEF c
<1>7. \A s \in SUBSET S : s \in Whole
  <2>1. {} \in Whole /\ Whole \in SUBSET SUBSET S
    BY <1>2
  <2>2. ASSUME NEW s \in SUBSET S, s # {}, \A x \in s : s \ {x} \in Whole PROVE s \in Whole
    <3>1. it[s] = f[c(s)] + it[s \ {c(s)}] /\ f[c(s)] \in Int /\ it[s \ {c(s)}] \in Int
      BY <1>1, <1>3, <2>2
    <3> QED
      BY <3>1
  <2> HIDE DEF Whole
  <2> QED
    BY <2>1, <2>2, BySize
<1>4. {} \in Good
  BY <1>2
<1>5. ASSUME NEW s \in SUBSET S, s # {}, \A x \in s : s \ {x} \in Good
      PROVE  s \in Good
  <2>1. PICK y \in s : it[s] = f[y] + it[s \ {y}]
    BY <1>1, <1>3, <1>5
  <2>4. ASSUME NEW x \in s PROVE it[s] = f[x] + it[s \ {x}]
    <3>1. CASE x = y
      BY <2>1, <3>1
    <3>2. CASE x # y
      <4> DEFINE rest == (s \ {x}) \ {y}
      <4>1. rest = (s \ {y}) \ {x} /\ x \in s \ {y} /\ y \in s \ {x}
        BY <3>2
      <4>2. it[s \ {y}] = f[x] + it[rest] /\ it[s \ {x}] = f[y] + it[rest]
        BY <1>5, <4>1
      <4>3. f[x] \in Int /\ f[y] \in Int /\ it[rest] \in Int
        BY <1>7
      <4> HIDE DEF rest
      <4> QED
        BY <2>1, <4>2, <4>3
    <3> QED
      BY <3>1, <3>2
  <2> QED
    BY <2>4
<1>6. \A s \in SUBSET S : s \in Good
  <2>1. Good \in SUBSET SUBSET S
    OBVIOUS
  <2> HIDE DEF Good
  <2> QED
    BY <1>4, <1>5, <2>1, BySize
<1> QED
  BY <1>2, <1>6, <1>7

\* Two functions that a bijection takes to one another have one sum.
LEMMA SumByBijection ==
  ASSUME NEW f, NEW g, NEW h, IsFiniteSet(DOMAIN f), h \in Bijection(DOMAIN f, DOMAIN g),
         \A x \in DOMAIN f : f[x] \in Int /\ f[x] = g[h[x]]
  PROVE  SumFunction(f) = SumFunction(g)
<1> DEFINE S == DOMAIN f  R == DOMAIN g
           To(s) == {h[x] : x \in s}
<1>1. /\ h \in [S -> R] /\ (\A x, y \in S : h[x] = h[y] => x = y)
      /\ \A z \in R : \E x \in S : h[x] = z
  <2>1. h \in Bijection(S, R)
    OBVIOUS
  <2> HIDE DEF S, R
  <2> QED
    BY <2>1 DEF Bijection, Injection, Surjection, IsInjective
<1>2. IsFiniteSet(R)
  BY FS_Bijection DEF ExistsBijection
<1>3. \A z \in R : g[z] \in Int
  BY <1>1
<1>4. PICK a : Totals(a, f, S) /\ SumFunction(f) = a[S]
  BY SumIsTotal
<1>5. PICK b : Totals(b, g, R) /\ SumFunction(g) = b[R]
  BY <1>2, SumIsTotal
<1>6. /\ a[{}] = 0
      /\ \A s \in SUBSET S : a[s] \in Int /\ \A x \in s : a[s] = f[x] + a[s \ {x}]
  <2> HIDE DEF S
  <2> QED
    BY <1>4, TakenFirst DEF S
<1>7. /\ b[{}] = 0
      /\ \A s \in SUBSET R : b[s] \in Int /\ \A x \in s : b[s] = g[x] + b[s \ {x}]
  BY <1>2, <1>3, <1>5, TakenFirst
<1> HIDE DEF S, R
<1> DEFINE Good == {s \in SUBSET S : a[s] = b[To(s)]}
<1>8. {} \in Good
  <2>1. To({}) = {}
    OBVIOUS
  <2> QED
    BY <1>6, <1>7, <2>1
<1>9. ASSUME NEW s \in SUBSET S, s # {}, \A x \in s : s \ {x} \in Good PROVE s \in Good
  <2>1. PICK x \in s : TRUE
    BY <1>9
  <2>2. To(s \ {x}) = To(s) \ {h[x]}
    BY <1>1
  <2>3. h[x] \in To(s) /\ To(s) \in SUBSET R
    BY <1>1
  <2>4. a[s \ {x}] = b[To(s \ {x})]
    BY <1>9
  <2> HIDE DEF To
  <2>5. a[s] = f[x] + a[s \ {x}] /\ b[To(s)] = g[h[x]] + b[To(s) \ {h[x]}] /\ f[x] = g[h[x]]
    BY <1>6, <1>7, <2>3 DEF S
  <2> QED
    BY <2>2, <2>4, <2>5
<1>10. S \in Good
  <2>1. Good \in SUBSET SUBSET S /\ IsFiniteSet(S)
    BY DEF S
  <2> HIDE DEF Good
  <2>2. \A s \in SUBSET S : s \in Good
    BY <1>8, <1>9, <2>1, BySize
  <2> QED
    BY <2>2
<1>11. To(S) = R
  BY <1>1
<1> QED
  BY <1>4, <1>5, <1>10, <1>11

\* A sum of flags counts the ones that are set.
LEMMA SumOfFlags ==
  ASSUME NEW f, IsFiniteSet(DOMAIN f), \A x \in DOMAIN f : f[x] = 0 \/ f[x] = 1
  PROVE  SumFunction(f) = Cardinality({x \in DOMAIN f : f[x] = 1})
<1> DEFINE S == DOMAIN f
           Set(s) == {x \in s : f[x] = 1}
<1>1. PICK a : Totals(a, f, S) /\ SumFunction(f) = a[S]
  BY SumIsTotal
<1>2. /\ a[{}] = 0
      /\ \A s \in SUBSET S : a[s] \in Int /\ \A x \in s : a[s] = f[x] + a[s \ {x}]
  BY <1>1, TakenFirst
<1> DEFINE Good == {s \in SUBSET S : a[s] = Cardinality(Set(s))}
<1>3. {} \in Good
  <2>1. Set({}) = {}
    OBVIOUS
  <2> QED
    BY <1>2, <2>1, FS_EmptySet
<1>4. ASSUME NEW s \in SUBSET S, s # {}, \A x \in s : s \ {x} \in Good PROVE s \in Good
  <2>1. PICK x \in s : TRUE
    BY <1>4
  <2>2. Set(s \ {x}) = Set(s) \ {x} /\ Set(s) \in SUBSET S
    OBVIOUS
  <2>3. IsFiniteSet(Set(s)) /\ Cardinality(Set(s)) \in Nat
    BY <2>2, FS_Subset, FS_CardinalityType
  <2>4. Cardinality(Set(s) \ {x}) = IF x \in Set(s) THEN Cardinality(Set(s)) - 1
                                    ELSE Cardinality(Set(s))
    <3> HIDE DEF Set
    <3> QED
      BY <2>3, FS_RemoveElement
  <2>5. a[s \ {x}] = Cardinality(Set(s) \ {x})
    BY <1>4, <2>2
  <2>6. x \in Set(s) <=> f[x] = 1
    OBVIOUS
  <2>7. a[s] = f[x] + a[s \ {x}] /\ (f[x] = 0 \/ f[x] = 1)
    BY <1>2
  <2> HIDE DEF Set
  <2> QED
    BY <2>3, <2>4, <2>5, <2>6, <2>7
<1>5. S \in Good
  <2>1. Good \in SUBSET SUBSET S /\ IsFiniteSet(S)
    OBVIOUS
  <2> HIDE DEF Good
  <2>2. \A s \in SUBSET S : s \in Good
    BY <1>3, <1>4, <2>1, BySize
  <2> QED
    BY <2>2
<1> QED
  BY <1>1, <1>5

-----------------------------------------------------------------------------
(* The tables over an archive that has one row for each satellite and time *)

\* raw is the rows row[k][i] of the satellites ids[k] at the times at[i].
Grid(raw, row, ids, n, at, last) ==
  /\ n \in Nat /\ last \in Nat
  /\ \A k, l \in 1..n : ids[k] = ids[l] => k = l
  /\ \A i, j \in 1..last : at[i] \in Int /\ (i < j => at[i] < at[j])
  /\ \A k \in 1..n, i \in 1..last :
       /\ row[k][i].sat = ids[k] /\ row[k][i].stamp = at[i]
       /\ row[k][i].soc \in Int /\ row[k][i].temp \in Int /\ row[k][i].heat \in Int
  /\ raw = UNION {{row[k][i] : i \in 1..last} : k \in 1..n}

\* The views of one row, joined
Whole(r) == [eps |-> r, thermal |-> r, geometry |-> r]

\* Satellite and time are a key.
LEMMA KeyOfGrid ==
  ASSUME NEW raw, NEW row, NEW ids, NEW n, NEW at, NEW last, Grid(raw, row, ids, n, at, last)
  PROVE  /\ \A r \in raw : \E k \in 1..n, i \in 1..last : r = row[k][i]
         /\ \A k \in 1..n, i \in 1..last : row[k][i] \in raw
         /\ \A k, l \in 1..n, i, j \in 1..last :
              row[k][i].sat = row[l][j].sat /\ row[k][i].stamp = row[l][j].stamp => k = l /\ i = j
<1>1. /\ \A r \in raw : \E k \in 1..n, i \in 1..last : r = row[k][i]
      /\ \A k \in 1..n, i \in 1..last : row[k][i] \in raw
  BY DEF Grid
<1>2. ASSUME NEW k \in 1..n, NEW l \in 1..n, NEW i \in 1..last, NEW j \in 1..last,
             row[k][i].sat = row[l][j].sat, row[k][i].stamp = row[l][j].stamp
      PROVE  k = l /\ i = j
  <2>1. ids[k] = ids[l] /\ at[i] = at[j] /\ at[i] \in Int
    BY <1>2 DEF Grid
  <2>2. k = l
    BY <2>1 DEF Grid
  <2>3. ~(i < j) /\ ~(j < i) /\ i \in Int /\ j \in Int
    BY <2>1 DEF Grid
  <2> QED
    BY <2>2, <2>3
<1> QED
  BY <1>1, <1>2

\* So the joins put each row together with itself.
LEMMA JoinedOfGrid ==
  ASSUME NEW raw, NEW row, NEW ids, NEW n, NEW at, NEW last, Grid(raw, row, ids, n, at, last)
  PROVE  Joined(raw) = {Whole(r) : r \in raw}
<1>1. ASSUME NEW e \in raw PROVE SameTick(raw, e) = {e}
  <2>1. ASSUME NEW r \in raw, r.sat = e.sat, r.stamp = e.stamp PROVE r = e
    <3>1. PICK k \in 1..n, i \in 1..last : r = row[k][i]
      BY KeyOfGrid
    <3>2. PICK l \in 1..n, j \in 1..last : e = row[l][j]
      BY KeyOfGrid
    <3>3. k = l /\ i = j
      BY <2>1, <3>1, <3>2, KeyOfGrid
    <3> QED
      BY <3>1, <3>2, <3>3
  <2> QED
    BY <2>1 DEF SameTick
<1>2. ASSUME NEW e \in raw
      PROVE  {[eps |-> e, thermal |-> t, geometry |-> g] :
                t \in SameTick(raw, e), g \in SameTick(raw, e)} = {Whole(e)}
  BY <1>1 DEF Whole
<1>3. Joined(raw) = UNION {{Whole(e)} : e \in raw}
  BY <1>2 DEF Joined
<1> QED
  BY <1>3

\* What is said of the minute m of the satellite ids[k]: its ticks in it are counted
\* and added up.
MinuteIs(a, row, k, within) ==
  /\ a.count = Cardinality(within)
  /\ a.soc = SumFunction([i \in within |-> row[k][i].soc])
  /\ a.eclipse = Cardinality({i \in within : row[k][i].shadow})
  /\ a.temp = SumFunction([i \in within |-> row[k][i].temp])
  /\ a.heat = SumFunction([i \in within |-> row[k][i].heat])

\* The ticks of a minute, and the joined rows of a bucket
Within(at, last, minuteLength, m) == {i \in 1..last : at[i] \div minuteLength = m}
GroupOf(raw, minuteLength, b) == {j \in Joined(raw) : Bucket(j, minuteLength) = b}

\* The rows of a bucket are a satellite's ticks of a minute.
LEMMA BucketOfGrid ==
  ASSUME NEW raw, NEW row, NEW ids, NEW n, NEW at, NEW last, Grid(raw, row, ids, n, at, last),
         NEW minuteLength, NEW k \in 1..n, NEW m,
         NEW b, b = [sat |-> ids[k], minute |-> m]
  PROVE  LET within == Within(at, last, minuteLength, m)
             group == GroupOf(raw, minuteLength, b)
         IN  /\ IsFiniteSet(within) /\ IsFiniteSet(group)
             /\ [i \in within |-> Whole(row[k][i])] \in Bijection(within, group)
<1> DEFINE within == Within(at, last, minuteLength, m)
           group == GroupOf(raw, minuteLength, b)
           h == [i \in within |-> Whole(row[k][i])]
<1>10. /\ within = {i \in 1..last : at[i] \div minuteLength = m}
       /\ group = {j \in Joined(raw) : Bucket(j, minuteLength) = b}
  BY DEF Within, GroupOf
<1> HIDE DEF within, group
<1>0. within \subseteq 1..last
  BY <1>10
<1>1. ASSUME NEW r \in raw, NEW l \in 1..n, NEW i \in 1..last, r = row[l][i]
      PROVE  Bucket(Whole(r), minuteLength) = b <=> l = k /\ i \in within
  <2>1. Bucket(Whole(r), minuteLength) = [sat |-> ids[l], minute |-> at[i] \div minuteLength]
    BY <1>1 DEF Bucket, Whole, Grid
  <2>2. ids[l] = ids[k] <=> l = k
    BY DEF Grid
  <2> QED
    BY <1>10, <2>1, <2>2
<1>2. \A i \in within : row[k][i] \in raw /\ h[i] = Whole(row[k][i])
  BY <1>0, KeyOfGrid
<1>3. \A i \in within : h[i] \in group
  BY <1>0, <1>1, <1>2, <1>10, JoinedOfGrid
<1>4. ASSUME NEW i \in within, NEW j \in within, h[i] = h[j] PROVE i = j
  <2>1. row[k][i] = row[k][j]
    BY <1>2, <1>4 DEF Whole
  <2> QED
    BY <1>0, <2>1, KeyOfGrid
<1>5. ASSUME NEW g \in group PROVE \E i \in within : h[i] = g
  <2>1. PICK r \in raw : g = Whole(r)
    BY <1>10, JoinedOfGrid
  <2>2. PICK l \in 1..n, i \in 1..last : r = row[l][i]
    BY KeyOfGrid
  <2>3. l = k /\ i \in within
    BY <1>1, <1>10, <2>1, <2>2
  <2> QED
    BY <1>2, <2>1, <2>2, <2>3
<1>6. IsFiniteSet(within)
  <2>1. IsFiniteSet(1..last)
    BY FS_Interval DEF Grid
  <2> QED
    BY <1>0, <2>1, FS_Subset
<1>7. h \in Bijection(within, group)
  <2>1. h \in [within -> group]
    BY <1>3
  <2> HIDE DEF h
  <2> QED
    BY <1>4, <1>5, <2>1, Fun_IsBij
<1>8. IsFiniteSet(group)
  <2> HIDE DEF h
  <2> QED
    BY <1>6, <1>7, FS_Bijection DEF ExistsBijection
<1> QED
  BY <1>6, <1>7, <1>8 DEF within, group

\* The aggregate of a bucket is what is said of that minute of the satellite.
LEMMA AggregateOfGrid ==
  ASSUME NEW raw, NEW row, NEW ids, NEW n, NEW at, NEW last, Grid(raw, row, ids, n, at, last),
         NEW minuteLength, NEW k \in 1..n, NEW m,
         NEW b, b = [sat |-> ids[k], minute |-> m]
  PROVE  MinuteIs(Aggregate(b, GroupOf(raw, minuteLength, b)), row, k,
                  Within(at, last, minuteLength, m))
<1> DEFINE within == Within(at, last, minuteLength, m)
           group == GroupOf(raw, minuteLength, b)
<1>10. /\ within = {i \in 1..last : at[i] \div minuteLength = m}
       /\ group = {j \in Joined(raw) : Bucket(j, minuteLength) = b}
  BY DEF Within, GroupOf
<1> HIDE DEF within, group
<1> DEFINE h == [i \in within |-> Whole(row[k][i])]
           a == Aggregate(b, group)
<1>1. IsFiniteSet(within) /\ IsFiniteSet(group) /\ h \in Bijection(within, group)
  BY BucketOfGrid DEF within, group
<1>2. /\ \A i \in within : i \in 1..last /\ h[i] = Whole(row[k][i])
      /\ \A i \in within : /\ row[k][i].soc \in Int /\ row[k][i].temp \in Int
                           /\ row[k][i].heat \in Int
  BY <1>10 DEF Grid
<1> HIDE DEF h
<1>3. ASSUME NEW f, NEW g, DOMAIN f = within, DOMAIN g = group,
             \A i \in within : f[i] \in Int /\ f[i] = g[Whole(row[k][i])]
      PROVE  SumFunction(g) = SumFunction(f)
  BY <1>1, <1>2, <1>3, SumByBijection
<1>4. \A i \in within : Whole(row[k][i]) \in group
  BY <1>1, <1>2 DEF Bijection, Injection
<1>5. a.count = Cardinality(within)
  BY <1>1, FS_Bijection DEF ExistsBijection, Aggregate
<1>6. a.soc = SumFunction([i \in within |-> row[k][i].soc])
  <2> DEFINE f == [i \in within |-> row[k][i].soc]  g == [j \in group |-> j.eps.soc]
  <2>1. \A i \in within : f[i] \in Int /\ f[i] = g[Whole(row[k][i])]
    BY <1>2, <1>4 DEF Whole
  <2>2. DOMAIN f = within /\ DOMAIN g = group /\ a.soc = SumFunction(g)
    BY DEF Aggregate
  <2> HIDE DEF f, g, a
  <2>3. SumFunction(g) = SumFunction(f)
    BY <1>3, <2>1, <2>2
  <2> QED
    BY <2>2, <2>3 DEF f
<1>7. a.temp = SumFunction([i \in within |-> row[k][i].temp])
  <2> DEFINE f == [i \in within |-> row[k][i].temp]  g == [j \in group |-> j.thermal.temp]
  <2>1. \A i \in within : f[i] \in Int /\ f[i] = g[Whole(row[k][i])]
    BY <1>2, <1>4 DEF Whole
  <2>2. DOMAIN f = within /\ DOMAIN g = group /\ a.temp = SumFunction(g)
    BY DEF Aggregate
  <2> HIDE DEF f, g, a
  <2>3. SumFunction(g) = SumFunction(f)
    BY <1>3, <2>1, <2>2
  <2> QED
    BY <2>2, <2>3 DEF f
<1>8. a.heat = SumFunction([i \in within |-> row[k][i].heat])
  <2> DEFINE f == [i \in within |-> row[k][i].heat]  g == [j \in group |-> j.thermal.heat]
  <2>1. \A i \in within : f[i] \in Int /\ f[i] = g[Whole(row[k][i])]
    BY <1>2, <1>4 DEF Whole
  <2>2. DOMAIN f = within /\ DOMAIN g = group /\ a.heat = SumFunction(g)
    BY DEF Aggregate
  <2> HIDE DEF f, g, a
  <2>3. SumFunction(g) = SumFunction(f)
    BY <1>3, <2>1, <2>2
  <2> QED
    BY <2>2, <2>3 DEF f
<1>9. a.eclipse = Cardinality({i \in within : row[k][i].shadow})
  <2> DEFINE f == [i \in within |-> IF row[k][i].shadow THEN 1 ELSE 0]
             g == [j \in group |-> IF j.eps.shadow THEN 1 ELSE 0]
  <2>1. \A i \in within : f[i] \in Int /\ f[i] = g[Whole(row[k][i])]
    BY <1>4 DEF Whole
  <2>2. DOMAIN f = within /\ DOMAIN g = group /\ a.eclipse = SumFunction(g)
    BY DEF Aggregate
  <2>3. \A i \in within : /\ f[i] = 0 \/ f[i] = 1
                          /\ f[i] = 1 <=> row[k][i].shadow
    OBVIOUS
  <2> HIDE DEF f, g, a
  <2>4. SumFunction(g) = SumFunction(f)
    BY <1>3, <2>1, <2>2
  <2>5. SumFunction(f) = Cardinality({i \in DOMAIN f : f[i] = 1})
    BY <1>1, <2>2, <2>3, SumOfFlags
  <2>6. {i \in DOMAIN f : f[i] = 1} = {i \in within : row[k][i].shadow}
    BY <2>2, <2>3
  <2> QED
    BY <2>2, <2>4, <2>5, <2>6
<1> QED
  BY <1>5, <1>6, <1>7, <1>8, <1>9 DEF MinuteIs, within, group

\* The rollup has a row for each satellite and each minute there is a tick in, and
\* no other.
LEMMA RollupOfGrid ==
  ASSUME NEW raw, NEW row, NEW ids, NEW n, NEW at, NEW last, Grid(raw, row, ids, n, at, last),
         NEW minuteLength
  PROVE  /\ \A r \in Rollup(raw, minuteLength) : \E k \in 1..n, i \in 1..last :
              LET m == at[i] \div minuteLength IN
              /\ r.sat = ids[k] /\ r.minute = m
              /\ MinuteIs(r, row, k, Within(at, last, minuteLength, m))
         /\ \A k \in 1..n, i \in 1..last : \E r \in Rollup(raw, minuteLength) :
              LET m == at[i] \div minuteLength IN
              /\ r.sat = ids[k] /\ r.minute = m
              /\ MinuteIs(r, row, k, Within(at, last, minuteLength, m))
<1> DEFINE Group(b) == GroupOf(raw, minuteLength, b)
           Cell(k, i) == [sat |-> ids[k], minute |-> at[i] \div minuteLength]
           Fits(r, k, i) ==
             LET m == at[i] \div minuteLength IN
             /\ r.sat = ids[k] /\ r.minute = m
             /\ MinuteIs(r, row, k, Within(at, last, minuteLength, m))
<1>1. Rollup(raw, minuteLength)
        = {Aggregate(b, Group(b)) : b \in {Bucket(j, minuteLength) : j \in Joined(raw)}}
  BY DEF Rollup, GroupOf
<1>2. ASSUME NEW k \in 1..n, NEW i \in 1..last
      PROVE  /\ Bucket(Whole(row[k][i]), minuteLength) = Cell(k, i)
             /\ Fits(Aggregate(Cell(k, i), Group(Cell(k, i))), k, i)
             /\ Whole(row[k][i]) \in Joined(raw)
  <2>1. Bucket(Whole(row[k][i]), minuteLength) = Cell(k, i)
    BY DEF Bucket, Whole, Grid
  <2>2. Whole(row[k][i]) \in Joined(raw)
    BY KeyOfGrid, JoinedOfGrid
  <2> DEFINE m == at[i] \div minuteLength
             a == Aggregate(Cell(k, i), Group(Cell(k, i)))
  <2>3. MinuteIs(a, row, k, Within(at, last, minuteLength, m))
    <3> DEFINE b == Cell(k, i)
    <3>1. b = [sat |-> ids[k], minute |-> m]
      OBVIOUS
    <3> HIDE DEF b, m
    <3>2. MinuteIs(Aggregate(b, GroupOf(raw, minuteLength, b)), row, k,
                   Within(at, last, minuteLength, m))
      BY <3>1, AggregateOfGrid
    <3> QED
      BY <3>2 DEF b
  <2>4. a.sat = ids[k] /\ a.minute = m
    BY DEF Aggregate
  <2> QED
    BY <2>1, <2>2, <2>3, <2>4
<1>3. ASSUME NEW j \in Joined(raw) PROVE \E k \in 1..n, i \in 1..last : j = Whole(row[k][i])
  <2>1. PICK r \in raw : j = Whole(r)
    BY JoinedOfGrid
  <2> QED
    BY <2>1, KeyOfGrid
<1> HIDE DEF Group, Cell, Fits
<1>4. \A r \in Rollup(raw, minuteLength) : \E k \in 1..n, i \in 1..last : Fits(r, k, i)
  <2> SUFFICES ASSUME NEW j \in Joined(raw)
               PROVE  \E k \in 1..n, i \in 1..last :
                        Fits(Aggregate(Bucket(j, minuteLength), Group(Bucket(j, minuteLength))), k, i)
    BY <1>1
  <2>1. PICK k \in 1..n, i \in 1..last : j = Whole(row[k][i])
    BY <1>3
  <2> QED
    BY <1>2, <2>1
<1>5. \A k \in 1..n, i \in 1..last : \E r \in Rollup(raw, minuteLength) : Fits(r, k, i)
  <2> TAKE k \in 1..n, i \in 1..last
  <2>1. Cell(k, i) \in {Bucket(j, minuteLength) : j \in Joined(raw)}
    BY <1>2
  <2>2. Aggregate(Cell(k, i), Group(Cell(k, i))) \in Rollup(raw, minuteLength)
    BY <1>1, <2>1
  <2> QED
    BY <1>2, <2>2
<1> QED
  BY <1>4, <1>5 DEF Fits

\* The snapshot has a row for each satellite, that of the last time.
LEMMA SnapshotOfGrid ==
  ASSUME NEW raw, NEW row, NEW ids, NEW n, NEW at, NEW last, Grid(raw, row, ids, n, at, last),
         last > 0
  PROVE  /\ \A r \in Snapshot(raw) : \E k \in 1..n : r = row[k][last]
         /\ Cardinality(Snapshot(raw)) = n
<1>0. last \in 1..last /\ n \in Nat /\ last \in Nat
  BY DEF Grid
<1>1. ASSUME NEW k \in 1..n PROVE row[k][last] \in Snapshot(raw)
  <2> SUFFICES ASSUME NEW q \in raw, q.sat = row[k][last].sat PROVE q.stamp <= row[k][last].stamp
    BY <1>0, KeyOfGrid DEF Snapshot
  <2>1. PICK l \in 1..n, j \in 1..last : q = row[l][j]
    BY KeyOfGrid
  <2>2. /\ q.stamp = at[j] /\ row[k][last].stamp = at[last]
        /\ at[j] \in Int /\ at[last] \in Int /\ (j < last => at[j] < at[last])
    BY <1>0, <2>1 DEF Grid
  <2>3. j = last \/ j < last
    BY <1>0
  <2> QED
    BY <2>2, <2>3
<1>2. ASSUME NEW r \in Snapshot(raw) PROVE \E k \in 1..n : r = row[k][last]
  <2>1. r \in raw /\ \A q \in raw : q.sat = r.sat => q.stamp <= r.stamp
    BY DEF Snapshot
  <2>2. PICK k \in 1..n, i \in 1..last : r = row[k][i]
    BY <2>1, KeyOfGrid
  <2>3. row[k][last] \in raw /\ row[k][last].sat = r.sat
    BY <1>0, <2>2, KeyOfGrid DEF Grid
  <2>4. /\ row[k][last].stamp = at[last] /\ r.stamp = at[i] /\ at[i] \in Int /\ at[last] \in Int
        /\ (i < last => at[i] < at[last])
    BY <1>0, <2>2 DEF Grid
  <2>5. ~(i < last)
    BY <2>1, <2>3, <2>4
  <2>6. i = last
    BY <1>0, <2>5
  <2> QED
    BY <2>2, <2>6
<1> DEFINE h == [k \in 1..n |-> row[k][last]]
<1>3. h \in Bijection(1..n, Snapshot(raw))
  <2>1. h \in [1..n -> Snapshot(raw)] /\ \A k \in 1..n : h[k] = row[k][last]
    BY <1>1
  <2> HIDE DEF h
  <2>2. \A k, l \in 1..n : h[k] = h[l] => k = l
    <3> SUFFICES ASSUME NEW k \in 1..n, NEW l \in 1..n, row[k][last] = row[l][last] PROVE k = l
      BY <2>1
    <3> QED
      BY <1>0, KeyOfGrid
  <2>3. \A r \in Snapshot(raw) : \E k \in 1..n : h[k] = r
    BY <1>2, <2>1
  <2> QED
    BY <2>1, <2>2, <2>3, Fun_IsBij
<1>4. IsFiniteSet(1..n) /\ Cardinality(1..n) = n
  BY <1>0, FS_Interval
<1>5. Cardinality(Snapshot(raw)) = n
  <2> HIDE DEF h
  <2> QED
    BY <1>3, <1>4, FS_Bijection DEF ExistsBijection
<1> QED
  BY <1>2, <1>5

-----------------------------------------------------------------------------
(* What a session leaves behind                                            *)

\* A session that has ended by itself and lost nothing has left the simulation.
Settled ==
  ppc = "off" /\ ending = "clean" /\ session > 0 /\ lost = 0 => Streamed(Published)

LEMMA SettledInit == ProducerInit => Settled
  BY DEF ProducerInit, Settled

LEMMA SettledStep ==
  ASSUME LedgerInv, LedgerInv', PaceInv, StreamInv, Settled, [ProducerNext]_pvars
  PROVE  Settled'
<1>1. CASE CloseDone
  <2> SUFFICES ASSUME lost' = 0 PROVE Streamed(Published)'
    BY DEF Settled
  <2>1. /\ ppc # "off" /\ queue' = <<>> /\ lost' = lost + Len(queue)
        /\ UNCHANGED <<topic, base, fleet, simStart, ticks>>
    BY <1>1 DEF CloseDone, clvars, clock, loopvars, fleetvars, runvars
  <2>2. lost = 0 /\ Len(queue) = 0
    BY <2>1, OrderedLen DEF LedgerInv
  <2>3. queue = <<>>
    BY <2>2, EmptySeq DEF LedgerInv, Ordered
  <2>4. Published' = Published
    BY <2>1, <2>3 DEF Published
  <2> QED
    BY <2>1, <2>2, <2>4 DEF StreamInv, Streamed
<1>2. CASE ppc' # "off" \/ ending' # "clean"
  BY <1>2 DEF Settled
<1>3. CASE UNCHANGED pvars
  BY <1>3 DEF pvars, clvars, clock, loopvars, fleetvars, runvars, Settled, Streamed, Published
<1>4. CASE \/ Send \/ SendRaises \/ TickDone \/ LeaveTicking \/ FlushDone
           \/ RequestHalt \/ Deliver \/ Expire \/ KillProducer
           \/ \E work \in 0..MaxWork, oversleep \in 0..MaxOversleep : TickOnce(work, oversleep)
           \/ \E cmd \in CommandLines : StartSession(cmd) \/ RefuseSession(cmd)
  <2>1. ppc' # "off" \/ ending' # "clean"
    BY <1>4 DEF Send, SendRaises, TickDone, LeaveTicking, FlushDone, RequestHalt, Deliver,
       Expire, KillProducer, TickOnce, StartSession, RefuseSession
  <2> QED
    BY <1>2, <2>1
<1> QED
  BY <1>1, <1>3, <1>4 DEF ProducerNext, ProducerStep

\* What the producer's side says of what it published
StoryInv == FeederInv /\ SeriesInv /\ StreamInv /\ Commanded /\ Settled

LEMMA StoryInit == PipelineInit => StoryInv
<1>1. PipelineInit => ProducerInit /\ FeederInv
  BY FeederInit DEF PipelineInit
<1> QED
  BY <1>1, SeriesInit, StreamInit, CommandedInit, SettledInit DEF StoryInv

LEMMA StoryStep ==
  ASSUME OneRun, StoryInv, [PipelineNext]_vars
  PROVE  StoryInv'
<1>1. [ProducerNext]_pvars /\ FeederInv /\ FeederInv'
  BY FeederStep DEF PipelineNext, ProducerMoves, ConsumerMoves, vars, StoryInv
<1>2. LedgerInv /\ LedgerInv' /\ PaceInv /\ PaceInv' /\ NamesDiffer
  BY <1>1 DEF FeederInv
<1>3. SeriesInv'
  BY <1>1, <1>2, SeriesStep DEF StoryInv
<1>4. StreamInv' /\ Settled'
  BY <1>1, <1>2, StreamStep, SettledStep DEF StoryInv
<1>5. Commanded'
  BY <1>1, <1>2, CommandedStep DEF StoryInv
<1> QED
  BY <1>1, <1>3, <1>4, <1>5 DEF StoryInv

-----------------------------------------------------------------------------
(* Places of the topic                                                     *)

\* The places of T rounds of n are those of the n messages of each round.
LEMMA PlacesOfRounds ==
  ASSUME NEW n \in Nat, NEW last \in Nat
  PROVE  /\ \A o \in 1..last * n : \E k \in 1..n, i \in 1..last : o = (i - 1) * n + k
         /\ \A k \in 1..n, i \in 1..last : (i - 1) * n + k \in 1..last * n
<1> DEFINE T == {m \in Nat : \A o \in 1..m * n : \E k \in 1..n, i \in 1..m : o = (i - 1) * n + k}
<1>1. 0 \in T
  <2>1. 0 * n = 0
    OBVIOUS
  <2> QED
    BY <2>1
<1>2. ASSUME NEW m \in Nat, m \in T PROVE m + 1 \in T
  <2>1. PICK whole \in Nat : whole = m * n /\ (m + 1) * n = whole + n
    <3>1. m * n \in Nat
      OBVIOUS
    <3> QED
      BY <3>1, OneMoreBudget
  <2> SUFFICES ASSUME NEW o \in 1..whole + n
               PROVE  \E k \in 1..n, i \in 1..m + 1 : o = (i - 1) * n + k
    BY <2>1
  <2>2. CASE o <= whole
    <3>1. o \in 1..m * n
      BY <2>1, <2>2
    <3>2. PICK k \in 1..n, i \in 1..m : o = (i - 1) * n + k
      BY <1>2, <3>1
    <3>3. i \in 1..m + 1
      OBVIOUS
    <3> QED
      BY <3>2, <3>3
  <2>3. CASE o > whole
    <3>1. o - whole \in 1..n /\ m + 1 \in 1..m + 1 /\ (m + 1) - 1 = m
      BY <2>3
    <3>2. o = ((m + 1) - 1) * n + (o - whole)
      BY <2>1, <3>1
    <3> QED
      BY <3>1, <3>2
  <2> QED
    BY <2>2, <2>3
<1>3. Nat \subseteq T
  <2> HIDE DEF T
  <2> QED
    BY <1>1, <1>2, ByCounting
<1>4. ASSUME NEW k \in 1..n, NEW i \in 1..last PROVE (i - 1) * n + k \in 1..last * n
  <2>1. ((i - 1) + 1) * n = (i - 1) * n + n /\ i - 1 \in Nat /\ (i - 1) + 1 = i
    <3>1. i - 1 \in Nat /\ (i - 1) + 1 = i
      OBVIOUS
    <3> QED
      BY <3>1, OneMoreBudget
  <2>2. i * n <= last * n
    BY TimesLE
  <2>3. PICK a \in Nat, b \in Nat : a = (i - 1) * n /\ b = last * n
    <3>1. (i - 1) * n \in Nat /\ last * n \in Nat
      BY <2>1
    <3> QED
      BY <3>1
  <2> QED
    BY <2>1, <2>2, <2>3
<1> QED
  BY <1>3, <1>4

\* Where the message of a satellite and a tick is
Offset(k, i) == (i - 1) * Len(fleet) + k

\* What is in the topic of a session that ended in good order, place by place
LEMMA TopicOfRun ==
  ASSUME EndToEndInv, StoryInv, AllRead
  PROVE  /\ Len(topic) = ticks * Len(fleet)
         /\ \A k \in 1..Len(fleet), i \in 1..ticks :
              LET m == topic[Offset(k, i)] IN
              /\ Offset(k, i) \in 1..Len(topic)
              /\ m.sat = fleet[k].id /\ m.stamp = simStart + (i - 1) * TickSeconds
              /\ \A c \in Channels : m[c] = Series(k, i).sample[c]
<1>1. /\ LedgerInv /\ PaceInv /\ NamesDiffer /\ SeriesInv /\ Settled
  BY DEF StoryInv, FeederInv
<1>2. /\ Len(topic) = sent /\ base = 0 /\ queue = <<>> /\ lost = 0
  BY AllIsArchived
<1>3. /\ ticks \in Nat /\ Len(fleet) \in Nat /\ DOMAIN fleet = 1..Len(fleet)
      /\ sent = ticks * Len(fleet)
  BY <1>1 DEF LedgerInv, Through, AllRead
<1>4. /\ DOMAIN Published = 1..Len(topic) /\ Len(Published) = Len(topic)
      /\ \A o \in 1..Len(topic) : Published[o] = topic[o]
  <2>1. Follows(Published, topic, base, queue)
    BY <1>1, PublishedFacts DEF PaceInv
  <2>2. Len(queue) = 0 /\ Len(topic) \in Nat
    BY <1>1, <1>2, OrderedLen DEF LedgerInv
  <2> QED
    BY <1>2, <2>1, <2>2 DEF Follows
<1>5. Streamed(Published)
  BY <1>1, <1>2 DEF Settled, AllRead
<1>6. ASSUME NEW k \in 1..Len(fleet), NEW i \in 1..ticks
      PROVE  LET m == topic[Offset(k, i)] IN
             /\ Offset(k, i) \in 1..Len(topic)
             /\ m.sat = fleet[k].id /\ m.stamp = simStart + (i - 1) * TickSeconds
             /\ \A c \in Channels : m[c] = Series(k, i).sample[c]
  <2> DEFINE o == Offset(k, i)  m == topic[o]
  <2>1. o \in 1..Len(topic)
    BY <1>2, <1>3, PlacesOfRounds DEF Offset
  <2>2. i - 1 \in 0..ticks /\ i - 1 \in Nat /\ (i - 1) + 1 = i
    BY <1>3
  <2>3. m.sat = fleet[k].id /\ m.stamp = simStart + (i - 1) * TickSeconds
    <3>1. (i - 1) * Len(fleet) + k <= Len(Published)
      BY <1>4, <2>1 DEF Offset
    <3>2. /\ Published[o].sat = fleet[k].id
          /\ Published[o].stamp = simStart + (i - 1) * TickSeconds
      BY <1>3, <1>5, <2>2, <3>1 DEF Streamed, Offset
    <3> QED
      BY <1>4, <2>1, <3>2
  <2>4. PICK l \in DOMAIN fleet, t \in Nat :
          /\ m.sat = fleet[l].id /\ TickOf(m) = t + 1
          /\ \A c \in Channels : m[c] = Series(l, t + 1).sample[c]
    <3> HIDE DEF o
    <3>1. o \in DOMAIN Published /\ m = Published[o]
      BY <1>4, <2>1
    <3> QED
      BY <1>1, <3>1, MessageFacts
  <2> HIDE DEF o, m
  <2>5. l = k
    BY <1>1, <1>3, <2>3, <2>4 DEF NamesDiffer
  <2>6. TickOf(m) = (i - 1) + 1
    BY <1>1, <2>2, <2>3, TickFromStamp DEF PaceInv, ClockTypeOK
  <2>7. t + 1 = i
    BY <2>2, <2>4, <2>6
  <2> QED
    BY <2>1, <2>3, <2>4, <2>5, <2>7 DEF m, o
<1> QED
  BY <1>2, <1>3, <1>6

-----------------------------------------------------------------------------
(* What the tables show                                                    *)

\* A row of the archive is in one object: a part is never written again.
LEMMA RowsHaveOneObject ==
  ASSUME BatcherInv, PartsAreZero
  PROVE  \A f, g \in DOMAIN store : store[f] \cap store[g] # {} => f = g
<1> SUFFICES ASSUME NEW f \in DOMAIN store, NEW g \in DOMAIN store, store[f] \cap store[g] # {}
             PROVE  f = g
  OBVIOUS
<1>1. IsStore(store) /\ PartitionPurity
  BY DEF BatcherInv, BatcherTypeOK
<1>2. f \in Partitions \X Nat /\ g \in Partitions \X Nat
  BY <1>1 DEF IsStore, ObjectKeys
<1>3. f[1] = g[1]
  BY <1>1 DEF PartitionPurity
<1>4. f[2] = 0 /\ g[2] = 0
  BY DEF PartsAreZero
<1> QED
  BY <1>2, <1>3, <1>4

\* The object a row is in, and what a reader finds of a satellite's tick
ObjectOf(o) == CHOOSE f \in DOMAIN store : Row(o) \in store[f]

TickRow(k, i) == RawRow(ObjectOf(Offset(k, i)), Offset(k, i))

TickRows == [k \in 1..Len(fleet) |-> [i \in 1..ticks |-> TickRow(k, i)]]
FleetNames == [k \in 1..Len(fleet) |-> fleet[k].id]
TickTimes == [i \in 1..ticks |-> simStart + (i - 1) * TickSeconds]

\* A reader of the bucket finds each message once.
LEMMA RawIsTopic ==
  ASSUME EndToEndInv, AllRead
  PROVE  Raw = {RawRow(ObjectOf(o), o) : o \in 1..Len(topic)}
<1>1. /\ RowsIn(store) = RowsUpTo(Len(topic))
      /\ \A o \in 1..Len(topic) : IsRow(o) /\ Row(o).id = o
  BY AllIsArchived, WiredRow DEF EndToEndInv, FeederInv, LogIsTopic
<1>2. BatcherInv /\ PartsAreZero
  BY DEF EndToEndInv, WriteInv, WriteOnceInv
<1>3. ASSUME NEW o \in 1..Len(topic)
      PROVE  ObjectOf(o) \in DOMAIN store /\ Row(o) \in store[ObjectOf(o)]
  <2>1. Row(o) \in RowsIn(store)
    BY <1>1 DEF RowsUpTo
  <2>2. \E f \in DOMAIN store : Row(o) \in store[f]
    BY <2>1 DEF RowsIn
  <2> QED
    BY <2>2 DEF ObjectOf
<1>4. ASSUME NEW f \in DOMAIN store, NEW r \in store[f]
      PROVE  r.id \in 1..Len(topic) /\ ObjectOf(r.id) = f
  <2>1. r \in RowsUpTo(Len(topic))
    BY <1>1 DEF RowsIn
  <2>2. PICK o \in 1..Len(topic) : r = Row(o)
    BY <2>1 DEF RowsUpTo
  <2>3. r.id = o
    BY <1>1, <2>2
  <2>4. ObjectOf(o) \in DOMAIN store /\ r \in store[ObjectOf(o)]
    BY <1>3, <2>2
  <2>5. ObjectOf(o) = f
    BY <1>2, <2>4, RowsHaveOneObject
  <2> QED
    BY <2>3, <2>5
<1>5. ASSUME NEW x \in Raw PROVE \E o \in 1..Len(topic) : x = RawRow(ObjectOf(o), o)
  <2>1. PICK f \in DOMAIN store : x \in {RawRow(f, r.id) : r \in store[f]}
    BY DEF Raw
  <2>2. PICK r \in store[f] : x = RawRow(f, r.id)
    BY <2>1
  <2> QED
    BY <1>4, <2>2
<1>6. ASSUME NEW o \in 1..Len(topic) PROVE RawRow(ObjectOf(o), o) \in Raw
  <2>1. ObjectOf(o) \in DOMAIN store /\ Row(o) \in store[ObjectOf(o)] /\ Row(o).id = o
    BY <1>1, <1>3
  <2> QED
    BY <2>1 DEF Raw
<1> QED
  BY <1>5, <1>6

\* What it finds is a row for each satellite and tick.
LEMMA RawIsGrid ==
  ASSUME EndToEndInv, StoryInv, AllRead, Stable(TickSeconds)
  PROVE  Grid(Raw, TickRows, FleetNames, Len(fleet), TickTimes, ticks)
<1> DEFINE n == Len(fleet)
<1>1. /\ n \in Nat /\ DOMAIN fleet = 1..n /\ ticks \in Nat /\ simStart \in Int
      /\ NamesDiffer /\ FaultsInv /\ Commanded
  BY DEF StoryInv, FeederInv, LedgerInv, PaceInv, ClockTypeOK, SeriesInv
<1>2. /\ Len(topic) = ticks * n
      /\ \A k \in 1..n, i \in 1..ticks :
           LET m == topic[Offset(k, i)] IN
           /\ Offset(k, i) \in 1..Len(topic)
           /\ m.sat = fleet[k].id /\ m.stamp = simStart + (i - 1) * TickSeconds
           /\ \A c \in Channels : m[c] = Series(k, i).sample[c]
  BY TopicOfRun
<1>3. /\ \A k \in 1..n : FleetNames[k] = fleet[k].id
      /\ \A i \in 1..ticks : TickTimes[i] = simStart + (i - 1) * TickSeconds
      /\ \A k \in 1..n, i \in 1..ticks : TickRows[k][i] = TickRow(k, i)
  BY DEF FleetNames, TickTimes, TickRows
<1>4. \A k, l \in 1..n : FleetNames[k] = FleetNames[l] => k = l
  BY <1>1, <1>3 DEF NamesDiffer
<1>5. \A i, j \in 1..ticks : TickTimes[i] \in Int /\ (i < j => TickTimes[i] < TickTimes[j])
  <2> SUFFICES ASSUME NEW i \in 1..ticks, NEW j \in 1..ticks
               PROVE  /\ simStart + (i - 1) * TickSeconds \in Int
                      /\ i < j => simStart + (i - 1) * TickSeconds < simStart + (j - 1) * TickSeconds
    BY <1>3
  <2> DEFINE d == TickSeconds
  <2>1. d \in Nat \ {0}
    BY TickSecondsType
  <2> HIDE DEF d
  <2>2. /\ (i - 1) * d \in Int /\ (j - 1) * d \in Int
        /\ i < j => (i - 1) * d < (j - 1) * d
    <3>1. i - 1 \in Nat /\ j - 1 \in Nat
      BY <1>1
    <3>2. \A a, b \in Nat : a * d \in Int /\ (a < b => a * d < b * d)
      BY <2>1, SMT
    <3> QED
      BY <1>1, <3>1, <3>2
  <2>3. PICK a \in Int, b \in Int : a = (i - 1) * d /\ b = (j - 1) * d
    BY <2>2
  <2>4. simStart + a \in Int /\ (i < j => simStart + a < simStart + b)
    BY <1>1, <2>2, <2>3
  <2> QED
    BY <2>3, <2>4 DEF d
<1>6. ASSUME NEW k \in 1..n, NEW i \in 1..ticks
      PROVE  /\ TickRows[k][i].sat = FleetNames[k] /\ TickRows[k][i].stamp = TickTimes[i]
             /\ TickRows[k][i].soc \in Int /\ TickRows[k][i].temp \in Int
             /\ TickRows[k][i].heat \in Int
  <2> DEFINE m == topic[Offset(k, i)]  s == Series(k, i).sample
  <2>1. /\ TickRows[k][i].sat = m.sat /\ TickRows[k][i].stamp = m.stamp
        /\ TickRows[k][i].soc = m.soc /\ TickRows[k][i].temp = m.temp
        /\ TickRows[k][i].heat = m.heat
    <3>1. TickRows[k][i] = RawRow(ObjectOf(Offset(k, i)), Offset(k, i))
      BY <1>3 DEF TickRow
    <3>2. \A f, o : /\ RawRow(f, o).sat = topic[o].sat /\ RawRow(f, o).stamp = topic[o].stamp
                    /\ RawRow(f, o).soc = topic[o].soc /\ RawRow(f, o).temp = topic[o].temp
                    /\ RawRow(f, o).heat = topic[o].heat
      BY DEF RawRow
    <3> QED
      BY <3>1, <3>2
  <2>2. /\ m.sat = fleet[k].id /\ m.stamp = simStart + (i - 1) * TickSeconds
        /\ m.soc = s.soc /\ m.temp = s.temp /\ m.heat = s.heat
    BY <1>2 DEF Channels
  <2>3. s.soc \in Int /\ s.temp \in Int /\ s.heat \in Int
    <3>1. k \in DOMAIN fleet /\ fleet # <<>> /\ i \in Nat \ {0}
      BY <1>1
    <3> QED
      BY <1>1, <3>1, SeriesIsNumeric
  <2> HIDE DEF m, s
  <2> QED
    BY <1>3, <2>1, <2>2, <2>3
<1>7. Raw = UNION {{TickRows[k][i] : i \in 1..ticks} : k \in 1..n}
  <2>1. Raw = {RawRow(ObjectOf(o), o) : o \in 1..Len(topic)}
    BY RawIsTopic
  <2>2. \A o \in 1..Len(topic) : \E k \in 1..n, i \in 1..ticks : o = Offset(k, i)
    <3>1. \A o \in 1..ticks * n : \E k \in 1..n, i \in 1..ticks : o = (i - 1) * n + k
      <4> HIDE DEF n
      <4> QED
        BY <1>1, PlacesOfRounds
    <3>2. \A k, i : Offset(k, i) = (i - 1) * n + k
      BY DEF Offset
    <3> HIDE DEF n
    <3> QED
      BY <1>2, <3>1, <3>2
  <2>3. \A k \in 1..n, i \in 1..ticks :
          /\ Offset(k, i) \in 1..Len(topic)
          /\ TickRows[k][i] = RawRow(ObjectOf(Offset(k, i)), Offset(k, i))
    BY <1>2, <1>3 DEF TickRow
  <2>4. ASSUME NEW x \in Raw PROVE \E k \in 1..n, i \in 1..ticks : x = TickRows[k][i]
    <3>1. PICK o \in 1..Len(topic) : x = RawRow(ObjectOf(o), o)
      BY <2>1
    <3>2. PICK k \in 1..n, i \in 1..ticks : o = Offset(k, i)
      BY <2>2
    <3> QED
      BY <2>3, <3>1, <3>2
  <2>5. ASSUME NEW k \in 1..n, NEW i \in 1..ticks PROVE TickRows[k][i] \in Raw
    BY <2>1, <2>3
  <2> QED
    BY <2>4, <2>5
<1> QED
  <2>1. \A k \in 1..n, i \in 1..ticks :
          /\ TickRows[k][i].sat = FleetNames[k] /\ TickRows[k][i].stamp = TickTimes[i]
          /\ TickRows[k][i].soc \in Int /\ TickRows[k][i].temp \in Int
          /\ TickRows[k][i].heat \in Int
    BY <1>6
  <2>2. n \in Nat /\ ticks \in Nat
    BY <1>1
  <2> HIDE DEF n
  <2>3. Grid(Raw, TickRows, FleetNames, n, TickTimes, ticks)
    BY <1>4, <1>5, <1>7, <2>1, <2>2, Zenon DEF Grid
  <2> QED
    BY <2>3 DEF n

\* What a satellite drawn by itself comes to is what the archive has of it.
LEMMA DrawnIsArchived ==
  ASSUME EndToEndInv, StoryInv, AllRead, NEW k \in 1..Len(fleet), NEW i \in 1..ticks
  PROVE  LET d == Drawn(fleet[k].id)[i]  r == TickRows[k][i] IN
         /\ r.soc = d.soc /\ r.temp = d.temp /\ r.heat = d.heat
         /\ r.shadow = d.shadow /\ r.net = d.net
<1> DEFINE m == topic[Offset(k, i)]
           sat == fleet[k].id
           r == TickRows[k][i]
<1>1. /\ NamesDiffer /\ FaultsInv /\ ticks \in Nat /\ k \in DOMAIN fleet
  BY DEF StoryInv, FeederInv, LedgerInv, SeriesInv
<1>2. \A c \in Channels : m[c] = Series(k, i).sample[c]
  BY TopicOfRun
<1>3. Drawn(sat) = RunOneSat(specs, sat, fleet[k].tle, simStart, TickSeconds, ticks)
  <2>1. (CHOOSE j \in DOMAIN fleet : fleet[j].id = sat) = k
    BY <1>1 DEF NamesDiffer
  <2> QED
    BY <1>1, <2>1 DEF Drawn, Alone, FaultsInv
<1>4. Drawn(sat)[i] = Series(k, i).sample
  BY <1>1, <1>3, SamplesDrawn DEF Series
<1>5. r = RawRow(ObjectOf(Offset(k, i)), Offset(k, i))
  BY DEF TickRows, TickRow
<1>6. \A f, o : /\ RawRow(f, o).shadow = topic[o].shadow /\ RawRow(f, o).net = topic[o].net
                /\ RawRow(f, o).soc = topic[o].soc /\ RawRow(f, o).temp = topic[o].temp
                /\ RawRow(f, o).heat = topic[o].heat
  BY DEF RawRow
<1>7. /\ r.shadow = m.shadow /\ r.net = m.net /\ r.soc = m.soc /\ r.temp = m.temp
      /\ r.heat = m.heat
  BY <1>5, <1>6
<1> HIDE DEF m, r, sat
<1> QED
  BY <1>2, <1>4, <1>7 DEF Channels, r, sat

\* The row of a rollup that MartsShowTheSimulation compares
Compared(r) ==
  [sat |-> r.sat, minute |-> r.minute, count |-> r.count, soc |-> r.soc,
   eclipse |-> r.eclipse, temp |-> r.temp, heat |-> r.heat]

\* A row of the rollup is the minute of the satellite, drawn from its own samples.
LEMMA MinuteIsDrawn ==
  ASSUME EndToEndInv, StoryInv, AllRead, NEW k \in 1..Len(fleet), NEW m, NEW r,
         r.sat = fleet[k].id, r.minute = m,
         MinuteIs(r, TickRows, k, Within(TickTimes, ticks, MinuteLength, m))
  PROVE  Compared(r) = DrawnMinute(fleet[k].id, m)
<1> DEFINE w == {i \in 1..ticks : MinuteOf(i) = m}
           d == Drawn(fleet[k].id)
<1>1. Within(TickTimes, ticks, MinuteLength, m) = w
  BY DEF Within, TickTimes, MinuteOf
<1>2. DrawnMinute(fleet[k].id, m)
        = [sat |-> fleet[k].id, minute |-> m, count |-> Cardinality(w),
           soc  |-> SumFunction([i \in w |-> d[i].soc]),
           eclipse |-> Cardinality({i \in w : d[i].shadow}),
           temp |-> SumFunction([i \in w |-> d[i].temp]),
           heat |-> SumFunction([i \in w |-> d[i].heat])]
  BY DEF DrawnMinute
<1>3. \A i \in w : /\ TickRows[k][i].soc = d[i].soc /\ TickRows[k][i].temp = d[i].temp
                   /\ TickRows[k][i].heat = d[i].heat /\ TickRows[k][i].shadow = d[i].shadow
  BY DrawnIsArchived
<1> HIDE DEF w, d
<1>4. /\ [i \in w |-> TickRows[k][i].soc] = [i \in w |-> d[i].soc]
      /\ [i \in w |-> TickRows[k][i].temp] = [i \in w |-> d[i].temp]
      /\ [i \in w |-> TickRows[k][i].heat] = [i \in w |-> d[i].heat]
      /\ {i \in w : TickRows[k][i].shadow} = {i \in w : d[i].shadow}
  BY <1>3
<1>5. /\ r.count = Cardinality(w)
      /\ r.soc = SumFunction([i \in w |-> d[i].soc])
      /\ r.eclipse = Cardinality({i \in w : d[i].shadow})
      /\ r.temp = SumFunction([i \in w |-> d[i].temp])
      /\ r.heat = SumFunction([i \in w |-> d[i].heat])
  BY <1>1, <1>4, Zenon DEF MinuteIs
<1> QED
  BY <1>2, <1>5, Zenon DEF Compared

\* With all of the run in the archive, the tables are the simulation.
LEMMA TablesShowTheRun ==
  ASSUME EndToEndInv, StoryInv, Stable(TickSeconds)
  PROVE  MartsShowTheSimulation
<1> SUFFICES ASSUME AllRead
             PROVE  /\ {Compared(r) : r \in Rollup(Raw, MinuteLength)}
                       = {DrawnMinute(sat, m) : sat \in FleetIds, m \in {MinuteOf(i) : i \in 1..ticks}}
                    /\ ticks > 0 =>
                         /\ Cardinality(Snapshot(Raw)) = Len(fleet)
                         /\ \A r \in Snapshot(Raw) :
                              LET last == Drawn(r.sat)[ticks] IN
                              /\ r.soc = last.soc /\ r.temp = last.temp
                              /\ r.shadow = last.shadow /\ r.net = last.net
  BY DEF MartsShowTheSimulation, Compared
<1> DEFINE n == Len(fleet)
           Fits(r, k, m) ==
             /\ r.sat = FleetNames[k] /\ r.minute = m
             /\ MinuteIs(r, TickRows, k, Within(TickTimes, ticks, MinuteLength, m))
<1>1. Grid(Raw, TickRows, FleetNames, n, TickTimes, ticks)
  BY RawIsGrid
<1>2. /\ FleetIds = {fleet[k].id : k \in 1..n} /\ ticks \in Nat
      /\ \A k \in 1..n : FleetNames[k] = fleet[k].id
      /\ \A i \in 1..ticks : TickTimes[i] \div MinuteLength = MinuteOf(i)
  BY DEF FleetIds, FleetNames, TickTimes, MinuteOf, StoryInv, FeederInv, LedgerInv
<1>3. /\ \A r \in Rollup(Raw, MinuteLength) : \E k \in 1..n, i \in 1..ticks :
           Fits(r, k, TickTimes[i] \div MinuteLength)
      /\ \A k \in 1..n, i \in 1..ticks : \E r \in Rollup(Raw, MinuteLength) :
           Fits(r, k, TickTimes[i] \div MinuteLength)
  <2> HIDE DEF n
  <2> QED
    BY <1>1, RollupOfGrid
<1>4. ASSUME NEW r, NEW k \in 1..n, NEW m, Fits(r, k, m)
      PROVE  Compared(r) = DrawnMinute(fleet[k].id, m)
  BY <1>2, <1>4, MinuteIsDrawn
<1> HIDE DEF Fits
<1>5. {Compared(r) : r \in Rollup(Raw, MinuteLength)}
        = {DrawnMinute(sat, m) : sat \in FleetIds, m \in {MinuteOf(i) : i \in 1..ticks}}
  <2> DEFINE table == Rollup(Raw, MinuteLength)
             minutes == {MinuteOf(i) : i \in 1..ticks}
  <2>1. ASSUME NEW r \in table PROVE \E sat \in FleetIds, m \in minutes : Compared(r) = DrawnMinute(sat, m)
    <3>1. PICK k \in 1..n, i \in 1..ticks : Fits(r, k, MinuteOf(i))
      BY <1>2, <1>3
    <3>2. Compared(r) = DrawnMinute(fleet[k].id, MinuteOf(i))
      BY <1>4, <3>1
    <3>3. fleet[k].id \in FleetIds /\ MinuteOf(i) \in minutes
      BY <1>2
    <3> QED
      BY <3>2, <3>3
  <2>2. ASSUME NEW sat \in FleetIds, NEW m \in minutes
        PROVE  \E r \in table : Compared(r) = DrawnMinute(sat, m)
    <3>1. PICK k \in 1..n : sat = fleet[k].id
      BY <1>2
    <3>2. PICK i \in 1..ticks : m = MinuteOf(i)
      OBVIOUS
    <3>3. PICK r \in table : Fits(r, k, MinuteOf(i))
      BY <1>2, <1>3
    <3> QED
      BY <1>4, <3>1, <3>2, <3>3
  <2> HIDE DEF table, minutes
  <2>3. {Compared(r) : r \in table} = {DrawnMinute(sat, m) : sat \in FleetIds, m \in minutes}
    BY <2>1, <2>2
  <2> QED
    BY <2>3 DEF table, minutes
<1>6. ASSUME ticks > 0
      PROVE  /\ Cardinality(Snapshot(Raw)) = Len(fleet)
             /\ \A r \in Snapshot(Raw) :
                  LET last == Drawn(r.sat)[ticks] IN
                  /\ r.soc = last.soc /\ r.temp = last.temp
                  /\ r.shadow = last.shadow /\ r.net = last.net
  <2>1. /\ \A r \in Snapshot(Raw) : \E k \in 1..n : r = TickRows[k][ticks]
        /\ Cardinality(Snapshot(Raw)) = n
    <3> HIDE DEF n
    <3> QED
      BY <1>1, <1>6, SnapshotOfGrid
  <2>2. ASSUME NEW r \in Snapshot(Raw)
        PROVE  LET last == Drawn(r.sat)[ticks] IN
               /\ r.soc = last.soc /\ r.temp = last.temp
               /\ r.shadow = last.shadow /\ r.net = last.net
    <3>1. PICK k \in 1..n : r = TickRows[k][ticks]
      BY <2>1
    <3>2. ticks \in 1..ticks
      BY <1>2, <1>6
    <3>3. r.sat = fleet[k].id
      <4>1. TickRows[k][ticks].sat = FleetNames[k]
        BY <1>1, <3>2 DEF Grid
      <4> QED
        BY <1>2, <3>1, <4>1
    <3> QED
      BY <3>1, <3>2, <3>3, DrawnIsArchived
  <2> QED
    BY <2>1, <2>2
<1> QED
  BY <1>5, <1>6

\* MartsShowTheSimulation, for every constellation of satellites with a name each,
\* fault file, pattern of eclipses, length of a minute and of an hour, and row cap:
\* what the dbt models make of the archive of a run is what each satellite, drawn
\* by itself, comes to.
THEOREM TablesAreTheSimulation ==
  ASSUME OneRun, Calm, Delivers, Stable(TickSeconds)
  PROVE  PipelineSpec => []MartsShowTheSimulation
<1>1. EndToEndInv /\ StoryInv => MartsShowTheSimulation
  BY TablesShowTheRun
<1>2. EndToEndInv /\ [PipelineNext]_vars => EndToEndInv'
  BY EndToEndStep
<1>3. StoryInv /\ [PipelineNext]_vars => StoryInv'
  BY StoryStep
<1> QED
  BY <1>1, <1>2, <1>3, EndToEndInit, StoryInit, PTL DEF PipelineSpec
=============================================================================
