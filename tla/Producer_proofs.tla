-------------------------- MODULE Producer_proofs --------------------------
(***************************************************************************)
(* Theorems about Producer, for every TLE file, command line, fault,       *)
(* parameter set of the physics, tick limit and broker.                    *)
(***************************************************************************)
EXTENDS Producer, SimClock_proofs, Figures_proofs, SequenceTheorems

-----------------------------------------------------------------------------
(* The physics stay within their envelope.                                 *)

LEMMA ClippedInside ==
  ASSUME NEW soc \in Int, NEW shadow, NEW dt \in Nat
  PROVE  NextSoc(soc, shadow, dt) \in MinSoc..MaxSoc
<1>1. MinSoc \in Int /\ MaxSoc \in Int /\ MinSoc <= MaxSoc
  BY EpsAssumption DEF EpsParams
<1>2. NetPower(shadow) \in Int
  BY EpsAssumption DEF EpsParams, NetPower
<1>3. soc + NetPower(shadow) * dt \in Int
  BY <1>2
<1>4. \A x \in Int : Clip(x) \in MinSoc..MaxSoc
  BY <1>1 DEF Clip
<1> QED
  BY <1>3, <1>4 DEF NextSoc

LEMMA Distribute ==
  \A d \in Nat, a, b \in Int : (a - b) * d = a * d - b * d
  BY SMT

\* Where a step keeps two temperatures in order, it keeps each between the two
\* the bounds would step to, and those are inside.
LEMMA StepInside ==
  ASSUME NEW dt \in Nat, Stable(dt), NEW temp \in Coldest..Hottest, NEW shadow
  PROVE  NextTemp(temp, shadow, dt) \in Coldest..Hottest
<1> DEFINE gain == (IF shadow THEN 0 ELSE SunHeat) + SteadyHeat
<1>1. /\ Coldest \in Int /\ Hottest \in Int /\ temp \in Int
      /\ Coldest <= temp /\ temp <= Hottest
  BY ThermalAssumption DEF ThermalParams
<1>2. /\ Radiated[Coldest] \in Int /\ Radiated[temp] \in Int /\ Radiated[Hottest] \in Int
  BY <1>1, ThermalAssumption DEF ThermalParams
<1>3. gain \in Int /\ Radiated[Coldest] <= gain /\ gain <= Radiated[Hottest]
  BY <1>2, ThermalAssumption DEF ThermalParams
<1>4. /\ Coldest - Radiated[Coldest] * dt <= temp - Radiated[temp] * dt
      /\ temp - Radiated[temp] * dt <= Hottest - Radiated[Hottest] * dt
  BY <1>1 DEF Stable
<1> HIDE DEF gain
<1>5. PICK c \in Int, t \in Int, h \in Int, g \in Int :
        c = Radiated[Coldest] /\ t = Radiated[temp] /\ h = Radiated[Hottest] /\ g = gain
  BY <1>2, <1>3
<1>6. NextTemp(temp, shadow, dt) = temp + (g * dt - t * dt)
  <2>1. NetHeat(temp, shadow) = g - t
    BY <1>2, <1>5, ThermalAssumption DEF ThermalParams, NetHeat, gain
  <2> QED
    BY <2>1, Distribute DEF NextTemp
<1>7. c * dt <= g * dt /\ g * dt <= h * dt
  BY <1>3, <1>5, TimesLE
<1>8. PICK cd \in Int, td \in Int, hd \in Int, gd \in Int :
        cd = c * dt /\ td = t * dt /\ hd = h * dt /\ gd = g * dt
  OBVIOUS
<1>9. /\ Coldest - cd <= temp - td /\ temp - td <= Hottest - hd
      /\ cd <= gd /\ gd <= hd
  BY <1>4, <1>5, <1>7, <1>8
<1>10. NextTemp(temp, shadow, dt) = temp + (gd - td)
  BY <1>6, <1>8
<1> QED
  BY <1>1, <1>8, <1>9, <1>10

\* A satellite's state is a record with a charge and a temperature.
EnvelopeInv ==
  /\ \A i \in DOMAIN fleet : {"soc", "temp"} \subseteq DOMAIN fleet[i]
  /\ WithinEnvelope

LEMMA NewFleetInside ==
  ASSUME NEW lines, NEW limit, Build(lines, limit)
  PROVE  EnvelopeInv'
<1>1. InitialSoc \in MinSoc..MaxSoc /\ InitialTemp \in Coldest..Hottest
  BY EpsAssumption, ThermalAssumption DEF EpsParams, ThermalParams
<1> QED
  BY <1>1 DEF Build, EnvelopeInv, WithinEnvelope, Stable

LEMMA TickedFleetInside ==
  ASSUME EnvelopeInv, NEW work, NEW oversleep, FleetTick(work, oversleep)
  PROVE  EnvelopeInv'
<1> DEFINE shadow(i) == InShadow(fleet[i].tle, now)
<1>1. /\ DOMAIN fleet' = DOMAIN fleet
      /\ \A i \in DOMAIN fleet :
           /\ {"soc", "temp"} \subseteq DOMAIN fleet'[i]
           /\ fleet'[i].soc  = NextSoc(fleet[i].soc, shadow(i), TickSeconds)
           /\ fleet'[i].temp = NextTemp(fleet[i].temp, shadow(i), TickSeconds)
  <2> DEFINE ticked == [i \in DOMAIN fleet |-> Stepped(fleet[i], shadow(i), TickSeconds)]
  <2>1. fleet' = [i \in DOMAIN fleet |->
                   [fleet[i] EXCEPT !.soc = ticked[i].soc, !.temp = ticked[i].temp]]
    BY DEF FleetTick
  <2>2. \A i \in DOMAIN fleet :
          /\ ticked[i].soc  = NextSoc(fleet[i].soc, shadow(i), TickSeconds)
          /\ ticked[i].temp = NextTemp(fleet[i].temp, shadow(i), TickSeconds)
    BY DEF Stepped
  <2> HIDE DEF ticked, shadow
  <2> QED
    BY <2>1, <2>2 DEF EnvelopeInv
<1> HIDE DEF shadow
<1>2. ASSUME Stable(TickSeconds), NEW i \in DOMAIN fleet
      PROVE  fleet'[i].soc \in MinSoc..MaxSoc /\ fleet'[i].temp \in Coldest..Hottest
  <2>1. fleet[i].soc \in Int /\ fleet[i].temp \in Coldest..Hottest
    BY <1>2 DEF EnvelopeInv, WithinEnvelope
  <2> QED
    BY <1>1, <1>2, <2>1, ClippedInside, StepInside, TickSecondsType
<1> QED
  BY <1>1, <1>2 DEF EnvelopeInv, WithinEnvelope, Stable

\* WithinEnvelope for all parameters and every pattern of eclipses: the fleet
\* changes when it is built and when it is ticked, only.
THEOREM PhysicsStayInside == ProducerSpec => []WithinEnvelope
<1>1. ProducerInit => EnvelopeInv
  BY DEF ProducerInit, EnvelopeInv, WithinEnvelope
<1>2. EnvelopeInv /\ [ProducerNext]_pvars => EnvelopeInv'
  <2> SUFFICES ASSUME EnvelopeInv, [ProducerNext]_pvars PROVE EnvelopeInv'
    OBVIOUS
  <2>1. UNCHANGED fleet => EnvelopeInv'
    BY DEF EnvelopeInv, WithinEnvelope, Stable
  <2>2. CASE UNCHANGED pvars
    BY <2>1, <2>2 DEF pvars, loopvars, fleetvars
  <2>3. ASSUME NEW work \in 0..MaxWork, NEW oversleep \in 0..MaxOversleep,
               TickOnce(work, oversleep)
        PROVE  EnvelopeInv'
    BY <2>3, TickedFleetInside DEF TickOnce
  <2>4. ASSUME NEW cmd \in CommandLines, StartSession(cmd) PROVE EnvelopeInv'
    BY <2>4, NewFleetInside DEF StartSession
  <2>5. ASSUME NEW cmd \in CommandLines, RefuseSession(cmd) PROVE EnvelopeInv'
    BY <2>1, <2>5 DEF RefuseSession, loopvars, fleetvars
  <2>6. CASE Send \/ SendRaises \/ TickDone
    BY <2>1, <2>6 DEF Send, SendRaises, TickDone, fleetvars
  <2>7. CASE LeaveTicking \/ FlushDone \/ CloseDone
    BY <2>1, <2>7 DEF LeaveTicking, FlushDone, CloseDone, loopvars, fleetvars
  <2>8. CASE RequestHalt \/ Deliver \/ Expire \/ KillProducer
    BY <2>1, <2>8 DEF RequestHalt, Deliver, Expire, KillProducer, loopvars, fleetvars
  <2> QED
    BY <2>2, <2>3, <2>4, <2>5, <2>6, <2>7, <2>8 DEF ProducerNext, ProducerStep
<1>3. EnvelopeInv => WithinEnvelope
  BY DEF EnvelopeInv
<1> QED
  BY <1>1, <1>2, <1>3, PTL DEF ProducerSpec

-----------------------------------------------------------------------------
(* What a session has sent is accounted for.                               *)

\* A sequence, of whatever messages
Ordered(s) == s \in Seq({s[i] : i \in DOMAIN s})

LEMMA OrderedLen ==
  ASSUME NEW s, Ordered(s)
  PROVE  Len(s) \in Nat /\ DOMAIN s = 1..Len(s)
<1> DEFINE S == {s[i] : i \in DOMAIN s}
<1>1. s \in Seq(S)
  BY DEF Ordered
<1> HIDE DEF S
<1> QED
  BY <1>1

LEMMA OrderedAppend ==
  ASSUME NEW s, Ordered(s), NEW e
  PROVE  Ordered(Append(s, e)) /\ Len(Append(s, e)) = Len(s) + 1
<1> DEFINE S == {s[i] : i \in DOMAIN s} \cup {e}
           t == Append(s, e)
           T == {t[i] : i \in DOMAIN t}
<1>1. s \in Seq(S)
  BY DEF Ordered
<1> HIDE DEF S
<1>2. e \in S
  BY DEF S
<1>3. /\ t \in Seq(S) /\ Len(t) = Len(s) + 1 /\ Len(t) \in Nat
      /\ DOMAIN t = 1..Len(t)
  BY <1>1, <1>2
<1>4. \A i \in 1..Len(t) : t[i] \in T
  BY <1>3
<1> HIDE DEF t, T
<1>5. t \in Seq(T)
  BY <1>3, <1>4
<1> QED
  BY <1>3, <1>5 DEF Ordered, t, T

LEMMA OrderedTail ==
  ASSUME NEW s, Ordered(s), s # <<>>
  PROVE  Ordered(Tail(s)) /\ Len(Tail(s)) = Len(s) - 1
<1> DEFINE S == {s[i] : i \in DOMAIN s}
           t == Tail(s)
           T == {t[i] : i \in DOMAIN t}
<1>1. s \in Seq(S)
  BY DEF Ordered
<1> HIDE DEF S
<1>2. /\ t \in Seq(S) /\ Len(t) = Len(s) - 1 /\ Len(t) \in Nat
      /\ DOMAIN t = 1..Len(t)
  BY <1>1
<1>3. \A i \in 1..Len(t) : t[i] \in T
  BY <1>2
<1> HIDE DEF t, T
<1>4. t \in Seq(T)
  BY <1>2, <1>3
<1> QED
  BY <1>2, <1>4 DEF Ordered, t, T

\* The session has stopped ticking, and nothing went wrong.
Through == ppc = "flush" \/ (ppc \in {"close", "off"} /\ ending = "clean" /\ session > 0)

\* Each message of the session is in the topic, in the queue or given up; what
\* was sent are whole ticks, and the part of one that is being sent.
LedgerInv ==
  /\ ppc \in {"off", "loop", "send", "flush", "close"}
  /\ Ordered(topic) /\ Ordered(queue)
  /\ ticks \in Nat /\ sent \in Nat /\ lost \in Nat /\ base \in Nat /\ session \in Nat
  /\ Len(fleet) \in Nat /\ DOMAIN fleet = 1..Len(fleet)
  /\ nextSat \in 1..Len(fleet) + 1
  /\ Len(topic) + Len(queue) + lost = base + sent
  /\ ppc = "off" => queue = <<>>
  /\ ppc \in {"loop", "send", "flush"} => ending = "running"
  /\ ppc = "send" => sent = ticks * Len(fleet) + nextSat - 1
  /\ ppc = "loop" \/ Through => sent = ticks * Len(fleet)
  /\ MaxTicks # 0 =>
       /\ ppc = "loop" => ticks <= MaxTicks
       /\ ppc = "send" => ticks < MaxTicks
       /\ Through => halt \/ ticks = MaxTicks

LEMMA LedgerInit == ProducerInit => LedgerInv
<1>1. Ordered(<<>>) /\ Len(<<>>) = 0
  BY DEF Ordered
<1> QED
  BY <1>1, ProducerAssumption DEF ProducerInit, LedgerInv, Through

\* A session starts with an account of its own.
LEMMA StartKeepsLedger ==
  ASSUME LedgerInv, NEW cmd \in CommandLines, StartSession(cmd)
  PROVE  LedgerInv'
<1>1. /\ topic' = topic /\ queue' = <<>> /\ base' = Len(topic)
      /\ lost' = 0 /\ sent' = 0 /\ ticks' = 0 /\ nextSat' = 1 /\ session' = session + 1
      /\ ppc' = "loop" /\ ending' = "running" /\ halt' = FALSE
  BY DEF StartSession
<1>2. Ordered(queue') /\ Len(queue') = 0 /\ Ordered(topic') /\ Len(topic) \in Nat
  BY <1>1, OrderedLen DEF LedgerInv, Ordered
<1>3. Len(fleet') \in Nat /\ DOMAIN fleet' = 1..Len(fleet')
  <2> DEFINE chosen == Chosen(cmd.tle, cmd.limit)
  <2>1. Len(chosen) \in Nat /\ DOMAIN chosen = 1..Len(chosen)
    BY ProducerAssumption
  <2>2. fleet' = [i \in DOMAIN chosen |->
                   [id |-> chosen[i].name, tle |-> chosen[i].tle,
                    soc |-> InitialSoc, temp |-> InitialTemp]]
    BY DEF StartSession, Build
  <2> HIDE DEF chosen
  <2> QED
    BY <2>1, <2>2
<1>4. session' \in Nat
  BY <1>1 DEF LedgerInv
<1> QED
  BY <1>1, <1>2, <1>3, <1>4, ProducerAssumption DEF LedgerInv, Through

LEMMA RefuseKeepsLedger ==
  ASSUME LedgerInv, NEW cmd \in CommandLines, RefuseSession(cmd)
  PROVE  LedgerInv'
  BY DEF RefuseSession, LedgerInv, Through, Ordered, loopvars, fleetvars

\* A tick leaves the fleet as many satellites as it had.
LEMMA TickKeepsLedger ==
  ASSUME LedgerInv, NEW work, NEW oversleep, TickOnce(work, oversleep)
  PROVE  LedgerInv'
<1>1. /\ ppc = "loop" /\ ~Enough /\ ppc' = "send" /\ nextSat' = 1
      /\ UNCHANGED <<topic, queue, ticks, sent, halt, ending, session, base, lost>>
  BY DEF TickOnce, runvars
<1>2. DOMAIN fleet' = DOMAIN fleet /\ Len(fleet') = Len(fleet)
  <2> DEFINE ticked == [i \in DOMAIN fleet |->
                         Stepped(fleet[i], InShadow(fleet[i].tle, now), TickSeconds)]
             advanced(i) == [fleet[i] EXCEPT !.soc = ticked[i].soc, !.temp = ticked[i].temp]
  <2>1. fleet' = [i \in DOMAIN fleet |-> advanced(i)]
    BY DEF TickOnce, FleetTick
  <2> HIDE DEF advanced
  <2>2. DOMAIN fleet = 1..Len(fleet) /\ Len(fleet) \in Nat
    BY DEF LedgerInv
  <2> QED
    BY <2>1, <2>2
<1>3. MaxTicks # 0 => ticks < MaxTicks
  BY <1>1, ProducerAssumption DEF Enough, LedgerInv
<1> QED
  BY <1>1, <1>2, <1>3 DEF LedgerInv, Through, Ordered

LEMMA SendKeepsLedger ==
  ASSUME LedgerInv, Send
  PROVE  LedgerInv'
<1>1. /\ ppc = "send" /\ nextSat \in DOMAIN fleet
      /\ queue' = Append(queue, Message(Reported))
      /\ sent' = sent + 1 /\ nextSat' = nextSat + 1
      /\ UNCHANGED <<topic, ppc, fleet, ticks, halt, ending, session, base, lost>>
  BY DEF Send, fleetvars, runvars
<1>2. Ordered(queue') /\ Len(queue') = Len(queue) + 1 /\ Len(queue) \in Nat /\ Len(topic) \in Nat
  BY <1>1, OrderedAppend, OrderedLen DEF LedgerInv
<1>3. nextSat \in 1..Len(fleet) /\ nextSat' \in 1..Len(fleet') + 1
  <2>1. Len(fleet) \in Nat /\ DOMAIN fleet = 1..Len(fleet)
    BY DEF LedgerInv
  <2>2. Len(fleet') = Len(fleet)
    BY <1>1
  <2> QED
    BY <1>1, <2>1, <2>2
<1>4. PICK whole \in Int : whole = ticks * Len(fleet)
  BY DEF LedgerInv
<1>5. sent' = ticks' * Len(fleet') + nextSat' - 1
  <2>1. ticks' * Len(fleet') = whole
    BY <1>1, <1>4
  <2>2. sent = whole + nextSat - 1
    BY <1>1, <1>4 DEF LedgerInv
  <2>3. sent \in Nat /\ nextSat \in Int
    BY <1>3 DEF LedgerInv
  <2> QED
    BY <1>1, <2>1, <2>2, <2>3
<1>6. ~Through' /\ Ordered(topic')
  BY <1>1 DEF Through, LedgerInv
<1>7. Len(topic') + Len(queue') + lost' = base' + sent'
  <2>1. /\ lost \in Nat /\ base \in Nat /\ sent \in Nat
        /\ Len(topic) + Len(queue) + lost = base + sent
    BY DEF LedgerInv
  <2>2. PICK t \in Int, q \in Int : t = Len(topic) /\ q = Len(queue)
    BY <1>2
  <2> QED
    BY <1>1, <1>2, <2>1, <2>2
<1>8. /\ Len(fleet') \in Nat /\ DOMAIN fleet' = 1..Len(fleet') /\ sent' \in Nat
      /\ (MaxTicks # 0 => ticks' < MaxTicks) /\ ppc' = "send" /\ ending' = "running"
  BY <1>1 DEF LedgerInv
<1> QED
  BY <1>1, <1>2, <1>3, <1>5, <1>6, <1>7, <1>8 DEF LedgerInv

LEMMA TickDoneKeepsLedger ==
  ASSUME LedgerInv, TickDone
  PROVE  LedgerInv'
<1>1. /\ ppc = "send" /\ nextSat \notin DOMAIN fleet
      /\ ticks' = ticks + 1 /\ ppc' = "loop"
      /\ UNCHANGED <<topic, queue, fleet, nextSat, sent, halt, ending, session, base, lost>>
  BY DEF TickDone, fleetvars, runvars
<1>2. nextSat = Len(fleet) + 1
  BY <1>1 DEF LedgerInv
<1>3. PICK whole \in Int : whole = ticks * Len(fleet)
  BY DEF LedgerInv
<1>4. (ticks + 1) * Len(fleet) = whole + Len(fleet)
  BY <1>3, OneMoreBudget DEF LedgerInv
<1>5. sent' = ticks' * Len(fleet')
  <2>1. ticks' * Len(fleet') = whole + Len(fleet)
    BY <1>1, <1>4
  <2>2. sent = whole + nextSat - 1 /\ sent \in Nat /\ Len(fleet) \in Nat
    BY <1>1, <1>3 DEF LedgerInv
  <2> QED
    BY <1>1, <1>2, <2>1, <2>2
<1>6. MaxTicks # 0 => ticks' <= MaxTicks
  BY <1>1, ProducerAssumption DEF LedgerInv
<1>7. ~Through' /\ ticks' \in Nat /\ Ordered(topic') /\ Ordered(queue')
  BY <1>1 DEF Through, LedgerInv
<1> QED
  BY <1>1, <1>5, <1>6, <1>7 DEF LedgerInv

LEMMA DeliveryKeepsLedger ==
  ASSUME LedgerInv, Deliver \/ Expire \/ KillProducer
  PROVE  LedgerInv'
<1>1. Len(queue) \in Nat /\ Len(topic) \in Nat
  BY OrderedLen DEF LedgerInv
<1>2. CASE Deliver
  <2>1. /\ ppc # "off" /\ queue # <<>>
        /\ topic' = Append(topic, Head(queue)) /\ queue' = Tail(queue)
        /\ UNCHANGED <<ppc, fleet, nextSat, ticks, sent, halt, ending, session, base, lost>>
    BY <1>2 DEF Deliver, loopvars, fleetvars, runvars
  <2>2. /\ Ordered(topic') /\ Len(topic') = Len(topic) + 1
        /\ Ordered(queue') /\ Len(queue') = Len(queue) - 1
    BY <2>1, OrderedAppend, OrderedTail DEF LedgerInv
  <2>3. Through' <=> Through
    BY <2>1 DEF Through
  <2>4. Len(topic') + Len(queue') + lost' = base' + sent'
    <3>1. PICK t \in Int, q \in Int : t = Len(topic) /\ q = Len(queue)
      BY <1>1
    <3>2. t + q + lost = base + sent
      BY <3>1 DEF LedgerInv
    <3> QED
      BY <2>1, <2>2, <3>1, <3>2 DEF LedgerInv
  <2> QED
    BY <2>1, <2>2, <2>3, <2>4 DEF LedgerInv
<1>3. CASE Expire
  <2>1. /\ ppc # "off" /\ queue # <<>> /\ queue' = Tail(queue) /\ lost' = lost + 1
        /\ UNCHANGED <<topic, ppc, fleet, nextSat, ticks, sent, halt, ending, session, base>>
    BY <1>3 DEF Expire, loopvars, fleetvars, runvars
  <2>2. Ordered(queue') /\ Len(queue') = Len(queue) - 1 /\ Ordered(topic')
    BY <2>1, OrderedTail DEF LedgerInv
  <2>3. (Through' <=> Through) /\ lost' \in Nat
    BY <2>1 DEF Through, LedgerInv
  <2>4. Len(topic') + Len(queue') + lost' = base' + sent'
    <3>1. PICK t \in Int, q \in Int : t = Len(topic) /\ q = Len(queue)
      BY <1>1
    <3>2. t + q + lost = base + sent
      BY <3>1 DEF LedgerInv
    <3> QED
      BY <2>1, <2>2, <3>1, <3>2 DEF LedgerInv
  <2> QED
    BY <2>1, <2>2, <2>3, <2>4 DEF LedgerInv
<1>4. CASE KillProducer
  <2>1. /\ ppc' = "off" /\ ending' = "killed" /\ queue' = <<>> /\ lost' = lost + Len(queue)
        /\ UNCHANGED <<topic, fleet, nextSat, ticks, sent, halt, session, base>>
    BY <1>4 DEF KillProducer, loopvars, fleetvars, runvars
  <2>2. Ordered(queue') /\ Len(queue') = 0
    BY <2>1 DEF Ordered
  <2> QED
    BY <1>1, <2>1, <2>2 DEF LedgerInv, Through, Ordered
<1> QED
  BY <1>2, <1>3, <1>4

\* The steps that end a session
LEMMA EndingKeepsLedger ==
  ASSUME LedgerInv, SendRaises \/ LeaveTicking \/ FlushDone \/ CloseDone \/ RequestHalt
  PROVE  LedgerInv'
<1>1. CASE SendRaises
  BY <1>1 DEF SendRaises, LedgerInv, Through, Ordered, fleetvars, runvars
<1>2. CASE LeaveTicking
  <2>1. MaxTicks # 0 => halt \/ ticks = MaxTicks
    BY <1>2, ProducerAssumption DEF LeaveTicking, Enough, LedgerInv
  <2> QED
    BY <1>2, <2>1 DEF LeaveTicking, LedgerInv, Through, Ordered, loopvars, fleetvars, runvars
<1>3. CASE FlushDone
  BY <1>3 DEF FlushDone, LedgerInv, Through, Ordered, loopvars, fleetvars, runvars
<1>4. CASE CloseDone
  <2>1. /\ ppc = "close" /\ ppc' = "off" /\ queue' = <<>> /\ lost' = lost + Len(queue)
        /\ UNCHANGED <<topic, fleet, nextSat, ticks, sent, halt, ending, session, base>>
    BY <1>4 DEF CloseDone, loopvars, fleetvars, runvars
  <2>2. Ordered(queue') /\ Len(queue') = 0 /\ Len(queue) \in Nat /\ Len(topic) \in Nat
    BY <2>1, OrderedLen DEF LedgerInv, Ordered
  <2> QED
    BY <2>1, <2>2 DEF LedgerInv, Through, Ordered
<1>5. CASE RequestHalt
  BY <1>5 DEF RequestHalt, LedgerInv, Through, Ordered, loopvars, fleetvars, runvars
<1> QED
  BY <1>1, <1>2, <1>3, <1>4, <1>5

LEMMA LedgerStep == LedgerInv /\ [ProducerNext]_pvars => LedgerInv'
<1> SUFFICES ASSUME LedgerInv, [ProducerNext]_pvars PROVE LedgerInv'
  OBVIOUS
<1>1. CASE UNCHANGED pvars
  BY <1>1 DEF pvars, loopvars, fleetvars, runvars, LedgerInv, Through, Ordered
<1>2. CASE ProducerNext
  BY <1>2, StartKeepsLedger, RefuseKeepsLedger, TickKeepsLedger, SendKeepsLedger,
     TickDoneKeepsLedger, DeliveryKeepsLedger, EndingKeepsLedger
     DEF ProducerNext, ProducerStep
<1> QED
  BY <1>1, <1>2

\* CleanSessionDelivered for any fleet, tick limit, queue limit and broker.
THEOREM SessionsAddUp == ProducerSpec => []CleanSessionDelivered
<1>1. LedgerInv => CleanSessionDelivered
  <2> SUFFICES ASSUME LedgerInv, ppc = "off", ending = "clean", session > 0
               PROVE  /\ sent = ticks * Len(fleet)
                      /\ Len(topic) + lost = base + sent
                      /\ MaxTicks # 0 /\ ~halt => ticks = MaxTicks
    BY DEF CleanSessionDelivered
  <2>1. Len(queue) = 0 /\ Len(topic) \in Nat
    BY OrderedLen DEF LedgerInv
  <2> QED
    BY <2>1 DEF LedgerInv, Through
<1> QED
  BY LedgerInit, LedgerStep, <1>1, PTL DEF ProducerSpec

-----------------------------------------------------------------------------
(* The loop keeps pace with the clock, and the state is well formed.       *)

\* While a tick is sent the clock is one tick ahead of those counted.
PaceInv ==
  /\ ClockTypeOK /\ snapshot \in Int /\ session \in 0..MaxSessions
  /\ ending \in {"running", "clean", "raised", "killed", "refused"}
  /\ base <= Len(topic) /\ Len(queue) <= QueueLimit
  /\ \A i \in DOMAIN fleet : DOMAIN fleet[i] = {"id", "tle", "soc", "temp"}
  /\ DOMAIN held = FleetIds
  /\ ppc = "loop" => tickCount = ticks
  /\ ppc = "send" =>
       /\ tickCount = ticks + 1
       /\ snapshot = simStart + ticks * TickSeconds
       /\ results.at = snapshot

\* A tick changes the charge and the temperature of each satellite, only.
LEMMA TickKeepsNames ==
  ASSUME PaceInv, NEW work, NEW oversleep, FleetTick(work, oversleep)
  PROVE  /\ DOMAIN fleet' = DOMAIN fleet
         /\ \A i \in DOMAIN fleet :
              /\ DOMAIN fleet'[i] = {"id", "tle", "soc", "temp"}
              /\ fleet'[i].id = fleet[i].id /\ fleet'[i].tle = fleet[i].tle
         /\ FleetIds' = FleetIds
<1> DEFINE ticked == [i \in DOMAIN fleet |->
                       Stepped(fleet[i], InShadow(fleet[i].tle, now), TickSeconds)]
<1>1. fleet' = [i \in DOMAIN fleet |->
                 [fleet[i] EXCEPT !.soc = ticked[i].soc, !.temp = ticked[i].temp]]
  BY DEF FleetTick
<1> HIDE DEF ticked
<1>2. /\ DOMAIN fleet' = DOMAIN fleet
      /\ \A i \in DOMAIN fleet :
           /\ DOMAIN fleet'[i] = {"id", "tle", "soc", "temp"}
           /\ fleet'[i].id = fleet[i].id /\ fleet'[i].tle = fleet[i].tle
  BY <1>1 DEF PaceInv
<1> QED
  BY <1>2 DEF FleetIds

LEMMA PaceInit == ProducerInit => PaceInv
<1> SUFFICES ASSUME ProducerInit PROVE PaceInv
  OBVIOUS
<1>1. ClockTypeOK
  BY ClockStarts DEF ProducerInit
<1>2. DOMAIN held = FleetIds /\ DOMAIN fleet = {}
  BY DEF ProducerInit, FleetIds
<1> QED
  BY <1>1, <1>2, ProducerAssumption DEF ProducerInit, PaceInv

LEMMA StartKeepsPace ==
  ASSUME LedgerInv, PaceInv, NEW cmd \in CommandLines, StartSession(cmd)
  PROVE  PaceInv'
<1>1. /\ session \in 0..MaxSessions /\ session < MaxSessions /\ session' = session + 1
      /\ wall \in Int /\ returned \in Int /\ returned' = returned
      /\ tickCount' = 0 /\ simStart' = wall' /\ now' = wall' /\ anchor' = NoAnchor /\ overrun' = 0
      /\ ppc' = "loop" /\ ending' = "running" /\ ticks' = 0 /\ snapshot' = simStart'
      /\ topic' = topic /\ base' = Len(topic) /\ queue' = <<>>
  BY DEF StartSession, NewClock, PaceInv, ClockTypeOK
<1>2. PICK gap \in 0..MaxGap : wall' = wall + gap
  BY DEF StartSession
<1>3. wall' \in Int
  BY <1>1, <1>2, ProducerAssumption
<1>4. ClockTypeOK'
  <2>1. 0 * TickSeconds = 0
    BY TickSecondsType
  <2> QED
    BY <1>1, <1>3, <2>1, ClockAssumption DEF ClockTypeOK
<1>5. \A i \in DOMAIN fleet' : DOMAIN fleet'[i] = {"id", "tle", "soc", "temp"}
  <2> DEFINE chosen == Chosen(cmd.tle, cmd.limit)
  <2>1. fleet' = [i \in DOMAIN chosen |->
                   [id |-> chosen[i].name, tle |-> chosen[i].tle,
                    soc |-> InitialSoc, temp |-> InitialTemp]]
    BY DEF StartSession, Build
  <2> HIDE DEF chosen
  <2> QED
    BY <2>1
<1>6. DOMAIN held' = FleetIds'
  BY DEF StartSession, FleetIds
<1>7. Len(topic') \in Nat /\ Len(queue') = 0
  BY <1>1, OrderedLen DEF LedgerInv
<1> QED
  BY <1>1, <1>3, <1>4, <1>5, <1>6, <1>7, ProducerAssumption DEF PaceInv

LEMMA TickKeepsPace ==
  ASSUME LedgerInv, PaceInv, NEW work \in 0..MaxWork, NEW oversleep \in 0..MaxOversleep,
         TickOnce(work, oversleep)
  PROVE  PaceInv'
<1>1. /\ ppc = "loop" /\ ppc' = "send" /\ snapshot' = now /\ results'.at = now
      /\ FleetTick(work, oversleep) /\ Tick(work, oversleep)
      /\ UNCHANGED <<topic, queue, ticks, held, ending, session, base>>
  BY DEF TickOnce, FleetTick, faultvars, runvars
<1>2. ClockTypeOK'
  BY <1>1, TickKeepsType DEF PaceInv
<1>3. tickCount' = ticks' + 1 /\ snapshot' = simStart' + ticks' * TickSeconds /\ snapshot' \in Int
  BY <1>1 DEF PaceInv, ClockTypeOK, Tick
<1>4. /\ \A i \in DOMAIN fleet' : DOMAIN fleet'[i] = {"id", "tle", "soc", "temp"}
      /\ DOMAIN held' = FleetIds'
  BY <1>1, TickKeepsNames DEF PaceInv
<1> QED
  BY <1>1, <1>2, <1>3, <1>4 DEF PaceInv

LEMMA SendKeepsPace ==
  ASSUME LedgerInv, PaceInv, Send
  PROVE  PaceInv'
<1>1. /\ ppc = "send" /\ ppc' = "send" /\ Len(queue) < QueueLimit
      /\ queue' = Append(queue, Message(Reported))
      /\ held' = [held EXCEPT ![SatId] = Reported.held]
      /\ UNCHANGED <<wall, returned, overrun, simStart, now, tickCount, anchor,
                     topic, fleet, results, snapshot, ticks, ending, session, base>>
  BY DEF Send, clvars, clock, fleetvars, runvars
<1>2. Len(queue') <= QueueLimit
  <2>1. Len(queue') = Len(queue) + 1 /\ Len(queue) \in Nat
    BY <1>1, OrderedAppend, OrderedLen DEF LedgerInv
  <2> QED
    BY <1>1, <2>1, ProducerAssumption
<1>3. DOMAIN held' = FleetIds'
  BY <1>1 DEF PaceInv, FleetIds
<1> QED
  BY <1>1, <1>2, <1>3 DEF PaceInv, ClockTypeOK

LEMMA TickDoneKeepsPace ==
  ASSUME LedgerInv, PaceInv, TickDone
  PROVE  PaceInv'
  BY DEF TickDone, PaceInv, LedgerInv, ClockTypeOK, FleetIds, clvars, clock, fleetvars,
         faultvars, runvars

\* What becomes of the queue, and the steps that end a session
LEMMA OthersKeepPace ==
  ASSUME LedgerInv, PaceInv,
         \/ Deliver \/ Expire \/ KillProducer \/ RequestHalt
         \/ SendRaises \/ LeaveTicking \/ FlushDone \/ CloseDone \/ UNCHANGED pvars
  PROVE  PaceInv'
<1>1. /\ UNCHANGED <<wall, returned, overrun, simStart, now, tickCount, anchor>>
      /\ UNCHANGED <<fleet, results, snapshot, ticks, session, base>>
      /\ ending' \in {ending, "raised", "killed", "clean"}
      /\ ppc' = ppc \/ ppc' \notin {"loop", "send"}
      /\ DOMAIN held' = DOMAIN held
  BY DEF Deliver, Expire, KillProducer, RequestHalt, SendRaises, LeaveTicking, FlushDone,
         CloseDone, pvars, clvars, clock, loopvars, fleetvars, faultvars, runvars
<1>2. Len(queue) \in Nat /\ Len(topic) \in Nat
  BY OrderedLen DEF LedgerInv
<1>3. base <= Len(topic') /\ Len(queue') <= QueueLimit
  <2>1. /\ queue # <<>> => Len(Tail(queue)) = Len(queue) - 1
        /\ Len(Append(topic, Head(queue))) = Len(topic) + 1
        /\ Len(<<>>) = 0
    BY OrderedTail, OrderedAppend DEF LedgerInv
  <2>2. /\ topic' \in {topic, Append(topic, Head(queue))}
        /\ queue' \in {queue, <<>>} \/ (queue # <<>> /\ queue' = Tail(queue))
    BY DEF Deliver, Expire, KillProducer, RequestHalt, SendRaises, LeaveTicking, FlushDone,
           CloseDone, pvars
  <2>3. base \in Nat /\ base <= Len(topic) /\ Len(queue) <= QueueLimit
    BY DEF PaceInv, LedgerInv
  <2> QED
    BY <1>2, <2>1, <2>2, <2>3, ProducerAssumption
<1>4. FleetIds' = FleetIds
  BY <1>1 DEF FleetIds
<1> QED
  BY <1>1, <1>3, <1>4 DEF PaceInv, ClockTypeOK

LEMMA RefuseKeepsPace ==
  ASSUME LedgerInv, PaceInv, NEW cmd \in CommandLines, RefuseSession(cmd)
  PROVE  PaceInv'
<1>1. PICK gap \in 0..MaxGap : wall' = wall + gap
  BY DEF RefuseSession
<1>2. /\ session < MaxSessions /\ session' = session + 1 /\ ending' = "refused"
      /\ UNCHANGED <<returned, overrun, simStart, now, tickCount, anchor>>
      /\ UNCHANGED <<topic, queue, ppc, fleet, results, snapshot, ticks, held, base>>
  BY DEF RefuseSession, clock, loopvars, fleetvars, faultvars
<1>3. wall' \in Int /\ session' \in 0..MaxSessions
  BY <1>1, <1>2, ProducerAssumption DEF PaceInv, ClockTypeOK
<1>4. FleetIds' = FleetIds
  BY <1>2 DEF FleetIds
<1> QED
  BY <1>2, <1>3, <1>4 DEF PaceInv, ClockTypeOK

LEMMA PaceStep == LedgerInv /\ PaceInv /\ [ProducerNext]_pvars => PaceInv'
  BY StartKeepsPace, RefuseKeepsPace, TickKeepsPace, SendKeepsPace, TickDoneKeepsPace,
     OthersKeepPace
  DEF ProducerNext, ProducerStep

\* ProducerTypeOK for every constellation, fault file, limit and broker: the
\* state of the loop, the clock and the queue is well formed.
THEOREM ProducerTyping == ProducerSpec => []ProducerTypeOK
<1>1. LedgerInv /\ PaceInv => ProducerTypeOK
  <2> SUFFICES ASSUME LedgerInv, PaceInv PROVE base \in 0..Len(topic)
    BY DEF LedgerInv, PaceInv, ProducerTypeOK
  <2>1. Len(topic) \in Nat
    BY OrderedLen DEF LedgerInv
  <2> QED
    BY <2>1 DEF LedgerInv, PaceInv
<1> QED
  BY LedgerInit, LedgerStep, PaceInit, PaceStep, <1>1, PTL DEF ProducerSpec

-----------------------------------------------------------------------------
(* What a step does to the messages a session has handed over              *)

\* p is what t has after its first b elements, and then q.
Follows(p, t, b, q) ==
  /\ Len(t) - b \in Nat /\ Len(q) \in Nat
  /\ Len(p) = (Len(t) - b) + Len(q) /\ DOMAIN p = 1..Len(p)
  /\ \A i \in 1..Len(t) - b : p[i] = t[b + i]
  /\ \A i \in 1..Len(q) : p[(Len(t) - b) + i] = q[i]

\* A message of the session is in the topic or, after that, in the queue.
LEMMA PublishedIs ==
  ASSUME NEW t, Ordered(t), NEW q, Ordered(q), NEW b \in Nat, b <= Len(t)
  PROVE  Follows(SubSeq(t, b + 1, Len(t)) \o q, t, b, q)
<1> DEFINE T == {t[i] : i \in DOMAIN t}
           Q == {q[i] : i \in DOMAIN q}
           S == T \cup Q
           sub == SubSeq(t, b + 1, Len(t))
           stored == Len(t) - b
<1>1. t \in Seq(T) /\ q \in Seq(Q)
  BY DEF Ordered
<1> HIDE DEF T, Q
<1>2. t \in Seq(S) /\ q \in Seq(S)
  BY <1>1
<1> HIDE DEF S
<1>3. stored \in Nat /\ Len(q) \in Nat /\ Len(t) \in Nat
  BY <1>2
<1>4. /\ sub \in Seq(S) /\ Len(sub) = stored
      /\ \A i \in 1..stored : sub[i] = t[b + i]
  <2>1. \A i \in b + 1..Len(t) : t[i] \in S
    BY <1>2, <1>3
  <2>2. /\ sub \in Seq(S)
        /\ Len(sub) = IF b + 1 <= Len(t) THEN Len(t) - (b + 1) + 1 ELSE 0
        /\ \A i \in 1..Len(t) - (b + 1) + 1 : sub[i] = t[b + 1 + i - 1]
    BY <1>3, <2>1, SubSeqProperties
  <2>3. Len(t) - (b + 1) + 1 = stored /\ \A i \in 1..stored : b + 1 + i - 1 = b + i
    BY <1>3
  <2> HIDE DEF sub
  <2>4. Len(sub) = stored
    <3>1. CASE b + 1 <= Len(t)
      BY <2>2, <2>3, <3>1
    <3>2. CASE b = Len(t)
      BY <1>3, <2>2, <3>2
    <3> QED
      BY <1>3, <3>1, <3>2
  <2> QED
    BY <2>2, <2>3, <2>4
<1> HIDE DEF sub, stored
<1>5. /\ Len(sub \o q) = Len(sub) + Len(q) /\ sub \o q \in Seq(S)
      /\ \A i \in 1..Len(sub) : (sub \o q)[i] = sub[i]
      /\ \A i \in 1..Len(q) : (sub \o q)[Len(sub) + i] = q[i]
  <2>1. /\ sub \o q \in Seq(S) /\ Len(sub \o q) = Len(sub) + Len(q)
        /\ \A i \in 1..Len(sub) + Len(q) :
             (sub \o q)[i] = IF i <= Len(sub) THEN sub[i] ELSE q[i - Len(sub)]
    BY <1>2, <1>4, ConcatProperties
  <2>2. Len(sub) \in Nat /\ Len(q) \in Nat
    BY <1>2, <1>4
  <2>3. ASSUME NEW i \in 1..Len(sub) PROVE (sub \o q)[i] = sub[i]
    BY <2>1, <2>2
  <2>4. ASSUME NEW i \in 1..Len(q) PROVE (sub \o q)[Len(sub) + i] = q[i]
    BY <2>1, <2>2
  <2> QED
    BY <2>1, <2>3, <2>4
<1>6. DOMAIN (sub \o q) = 1..Len(sub \o q)
  BY <1>5
<1>7. /\ stored \in Nat /\ Len(q) \in Nat
      /\ Len(sub \o q) = stored + Len(q) /\ DOMAIN (sub \o q) = 1..Len(sub \o q)
      /\ \A i \in 1..stored : (sub \o q)[i] = t[b + i]
      /\ \A i \in 1..Len(q) : (sub \o q)[stored + i] = q[i]
  BY <1>3, <1>4, <1>5, <1>6
<1> QED
  BY <1>7, Zenon DEF sub, stored, Follows

\* Some messages are gone, those left are in the order they were in.
Thinned(q, p) ==
  \E f \in [DOMAIN q -> DOMAIN p] :
    /\ \A i, j \in DOMAIN q : i < j => f[i] < f[j]
    /\ \A i \in DOMAIN q : q[i] = p[f[i]]

LEMMA PublishedFacts ==
  ASSUME LedgerInv, base <= Len(topic)
  PROVE  Follows(Published, topic, base, queue)
<1>1. Ordered(topic) /\ Ordered(queue) /\ base \in Nat
  BY DEF LedgerInv
<1> QED
  BY <1>1, PublishedIs DEF Published

\* Delivery moves a message from the queue to the topic.
LEMMA DeliverPublishes ==
  ASSUME LedgerInv, LedgerInv', base <= Len(topic), Deliver
  PROVE  /\ Len(Published') = Len(Published)
         /\ \A i \in DOMAIN Published : Published'[i] = Published[i]
<1>0. base \in Nat
  BY DEF LedgerInv
<1>1. /\ queue # <<>> /\ topic' = Append(topic, Head(queue)) /\ queue' = Tail(queue)
      /\ base' = base
  BY DEF Deliver, runvars
<1>2. /\ Len(topic') = Len(topic) + 1 /\ Len(queue') = Len(queue) - 1
      /\ Len(topic) \in Nat /\ Len(queue) \in Nat
      /\ \A i \in 1..Len(topic) : topic'[i] = topic[i]
      /\ topic'[Len(topic) + 1] = queue[1]
      /\ \A i \in 1..Len(queue) - 1 : queue'[i] = queue[i + 1]
  <2> DEFINE S == {topic[i] : i \in DOMAIN topic} \cup {queue[i] : i \in DOMAIN queue}
  <2>1. topic \in Seq(S) /\ queue \in Seq(S)
    <3> DEFINE T == {topic[i] : i \in DOMAIN topic}
               Q == {queue[i] : i \in DOMAIN queue}
    <3>1. topic \in Seq(T) /\ queue \in Seq(Q)
      BY DEF LedgerInv, Ordered
    <3> HIDE DEF T, Q
    <3>2. topic \in Seq(T \cup Q) /\ queue \in Seq(T \cup Q)
      BY <3>1
    <3> QED
      BY <3>2 DEF T, Q
  <2> HIDE DEF S
  <2> QED
    BY <1>1, <2>1
<1>3. base' \in Nat /\ base' <= Len(topic')
  BY <1>1, <1>2 DEF LedgerInv
<1> DEFINE stored == Len(topic) - base
<1>4. /\ Len(Published) = stored + Len(queue) /\ stored \in Nat
      /\ \A i \in 1..stored : Published[i] = topic[base + i]
      /\ \A i \in 1..Len(queue) : Published[stored + i] = queue[i]
      /\ DOMAIN Published = 1..Len(Published)
  BY PublishedFacts DEF Follows
<1>5. /\ Len(Published') = stored + 1 + Len(queue')
      /\ \A i \in 1..stored + 1 : Published'[i] = topic'[base + i]
      /\ \A i \in 1..Len(queue') : Published'[stored + 1 + i] = queue'[i]
  <2>1. Len(topic') - base' = stored + 1
    BY <1>0, <1>1, <1>2
  <2>2. Follows(Published', topic', base', queue')
    <3>1. Ordered(topic') /\ Ordered(queue')
      BY DEF LedgerInv
    <3> QED
      BY <1>3, <3>1, PublishedIs DEF Published
  <2> QED
    BY <1>1, <2>1, <2>2 DEF Follows
<1>6. ASSUME NEW i \in 1..stored + Len(queue) PROVE Published'[i] = Published[i]
  <2>1. CASE i <= stored
    <3>1. i \in 1..stored /\ i \in 1..stored + 1 /\ base + i \in 1..Len(topic)
      BY <1>0, <1>2, <1>4, <2>1
    <3> QED
      BY <1>2, <1>4, <1>5, <3>1
  <2>2. CASE i = stored + 1
    <3>1. Len(queue) >= 1 /\ base + i = Len(topic) + 1
      BY <1>2, <1>4, <2>2 DEF LedgerInv
    <3>2. Published[i] = queue[1]
      BY <1>2, <1>4, <2>2, <3>1
    <3>3. Published'[i] = topic'[Len(topic) + 1]
      BY <1>4, <1>5, <2>2, <3>1
    <3> QED
      BY <1>2, <3>2, <3>3
  <2>3. CASE i > stored + 1
    <3>1. PICK j \in 1..Len(queue) - 1 : i = stored + 1 + j /\ i = stored + (j + 1)
      <4>0. i \in Int /\ stored \in Int /\ i > stored + 1 /\ i <= stored + Len(queue)
        BY <1>2, <1>4, <2>3
      <4>1. i - stored - 1 \in 1..Len(queue) - 1
        BY <1>2, <4>0
      <4>2. i = stored + 1 + (i - stored - 1) /\ i = stored + ((i - stored - 1) + 1)
        BY <4>0
      <4> QED
        BY <4>1, <4>2
    <3>2. Published'[i] = queue'[j]
      BY <1>2, <1>5, <3>1
    <3>3. Published[i] = queue[j + 1]
      <4>1. j + 1 \in 1..Len(queue)
        BY <1>2, <3>1
      <4> QED
        BY <1>4, <3>1, <4>1
    <3> QED
      BY <1>2, <3>1, <3>2, <3>3
  <2> QED
    BY <1>4, <2>1, <2>2, <2>3
<1> QED
  BY <1>2, <1>4, <1>5, <1>6

\* A message that expires leaves a gap; a queue that is dropped cuts the rest off.
LEMMA LossThins ==
  ASSUME LedgerInv, LedgerInv', base <= Len(topic), topic' = topic, base' = base,
         (queue # <<>> /\ queue' = Tail(queue)) \/ queue' = <<>>
  PROVE  Thinned(Published', Published)
<1>1. base \in Nat /\ Len(topic) \in Nat /\ Len(queue) \in Nat /\ base' <= Len(topic')
  BY OrderedLen DEF LedgerInv
<1> DEFINE stored == Len(topic) - base
<1>2. /\ stored \in Nat
      /\ Len(Published) = stored + Len(queue) /\ DOMAIN Published = 1..Len(Published)
      /\ \A i \in 1..stored : Published[i] = topic[base + i]
      /\ \A i \in 1..Len(queue) : Published[stored + i] = queue[i]
  BY PublishedFacts DEF Follows
<1>3. /\ Len(queue') \in Nat
      /\ Len(Published') = stored + Len(queue') /\ DOMAIN Published' = 1..Len(Published')
      /\ \A i \in 1..stored : Published'[i] = topic[base + i]
      /\ \A i \in 1..Len(queue') : Published'[stored + i] = queue'[i]
  <2>1. Ordered(topic') /\ Ordered(queue') /\ base' \in Nat
    BY <1>1 DEF LedgerInv
  <2>2. Follows(Published', topic', base', queue')
    BY <1>1, <2>1, PublishedIs DEF Published
  <2> QED
    BY <2>2 DEF Follows
<1> HIDE DEF stored
<1>4. CASE queue # <<>> /\ queue' = Tail(queue)
  <2>1. /\ Len(queue') = Len(queue) - 1
        /\ \A i \in 1..Len(queue') : queue'[i] = queue[i + 1]
    <3> DEFINE Q == {queue[i] : i \in DOMAIN queue}
    <3>1. queue \in Seq(Q)
      BY DEF LedgerInv, Ordered
    <3> HIDE DEF Q
    <3> QED
      BY <1>4, <3>1
  <2> DEFINE f == [i \in 1..Len(Published') |-> IF i <= stored THEN i ELSE i + 1]
  <2>2. f \in [DOMAIN Published' -> DOMAIN Published]
    BY <1>1, <1>2, <1>3, <2>1
  <2>3. \A i, j \in DOMAIN Published' : i < j => f[i] < f[j]
    BY <1>1, <1>2, <1>3
  <2>4. ASSUME NEW i \in DOMAIN Published' PROVE Published'[i] = Published[f[i]]
    <3>1. CASE i <= stored
      BY <1>2, <1>3, <2>4, <3>1
    <3>2. CASE i > stored
      <4>1. i \in Int /\ i - stored \in 1..Len(queue') /\ stored + (i - stored) = i
        BY <1>2, <1>3, <3>2
      <4>2. Published'[i] = queue[(i - stored) + 1]
        BY <1>3, <2>1, <4>1
      <4>3. (i - stored) + 1 \in 1..Len(queue) /\ stored + ((i - stored) + 1) = i + 1
        BY <1>1, <1>2, <2>1, <4>1
      <4>4. Published[i + 1] = queue[(i - stored) + 1]
        BY <1>2, <4>3
      <4> QED
        BY <1>2, <1>3, <3>2, <4>1, <4>2, <4>4
    <3> QED
      BY <1>2, <1>3, <3>1, <3>2
  <2> HIDE DEF f
  <2> QED
    BY <2>2, <2>3, <2>4 DEF Thinned
<1>5. CASE queue' = <<>>
  <2> DEFINE f == [i \in 1..Len(Published') |-> i]
  <2>1. Len(Published') = stored
    BY <1>2, <1>3, <1>5
  <2>2. f \in [DOMAIN Published' -> DOMAIN Published]
    BY <1>1, <1>2, <1>3, <2>1
  <2>3. \A i, j \in DOMAIN Published' : i < j => f[i] < f[j]
    BY <1>3
  <2>4. \A i \in DOMAIN Published' : Published'[i] = Published[f[i]]
    BY <1>2, <1>3, <2>1
  <2> HIDE DEF f
  <2> QED
    BY <2>2, <2>3, <2>4 DEF Thinned
<1> QED
  BY <1>4, <1>5

LEMMA SendPublishes ==
  ASSUME LedgerInv, LedgerInv', base <= Len(topic), Send
  PROVE  /\ Len(Published') = Len(Published) + 1
         /\ \A i \in 1..Len(Published) : Published'[i] = Published[i]
         /\ Published'[Len(Published) + 1] = Message(Reported)
<1>1. /\ topic' = topic /\ base' = base /\ queue' = Append(queue, Message(Reported))
  BY DEF Send, runvars
<1>2. /\ base \in Nat /\ base' <= Len(topic') /\ Len(queue) \in Nat
      /\ Len(queue') = Len(queue) + 1
      /\ \A i \in 1..Len(queue) : queue'[i] = queue[i]
      /\ queue'[Len(queue) + 1] = Message(Reported)
  <2> DEFINE m == Message(Reported)
             Q == {queue[i] : i \in DOMAIN queue} \cup {m}
  <2>1. queue \in Seq(Q)
    <3> DEFINE R == {queue[i] : i \in DOMAIN queue}
    <3>1. queue \in Seq(R)
      BY DEF LedgerInv, Ordered
    <3> HIDE DEF R
    <3>2. queue \in Seq(R \cup {m})
      BY <3>1
    <3> QED
      BY <3>2 DEF R
  <2>2. queue' = Append(queue, m) /\ m \in Q
    BY <1>1
  <2>3. base \in Nat
    BY DEF LedgerInv
  <2> HIDE DEF Q, m
  <2>4. /\ Len(queue) \in Nat /\ Len(queue') = Len(queue) + 1
        /\ \A i \in 1..Len(queue) : queue'[i] = queue[i]
        /\ queue'[Len(queue) + 1] = m
    BY <2>1, <2>2
  <2> QED
    BY <1>1, <2>3, <2>4 DEF m
<1> DEFINE stored == Len(topic) - base
           m == Message(Reported)
<1>3. /\ stored \in Nat
      /\ Len(Published) = stored + Len(queue) /\ DOMAIN Published = 1..Len(Published)
      /\ \A i \in 1..stored : Published[i] = topic[base + i]
      /\ \A i \in 1..Len(queue) : Published[stored + i] = queue[i]
  BY PublishedFacts DEF Follows
<1>4. /\ Len(Published') = stored + Len(queue')
      /\ \A i \in 1..stored : Published'[i] = topic[base + i]
      /\ \A i \in 1..Len(queue') : Published'[stored + i] = queue'[i]
  <2>1. Ordered(topic') /\ Ordered(queue')
    BY DEF LedgerInv
  <2>2. Follows(Published', topic', base', queue')
    BY <1>1, <1>2, <2>1, PublishedIs DEF Published
  <2> QED
    BY <1>1, <2>2 DEF Follows
<1> HIDE DEF stored, m
<1>5. ASSUME NEW i \in 1..Len(Published) PROVE Published'[i] = Published[i]
  <2>1. CASE i <= stored
    BY <1>2, <1>3, <1>4, <2>1
  <2>2. CASE i > stored
    <3>1. i - stored \in 1..Len(queue) /\ stored + (i - stored) = i
      BY <1>2, <1>3, <2>2
    <3>2. i - stored \in 1..Len(queue')
      BY <1>2, <3>1
    <3> QED
      BY <1>2, <1>3, <1>4, <3>1, <3>2
  <2> QED
    BY <1>2, <1>3, <2>1, <2>2
<1>6. Published'[Len(Published) + 1] = m
  <2>1. Len(queue) + 1 \in 1..Len(queue') /\ Len(Published) + 1 = stored + (Len(queue) + 1)
    BY <1>2, <1>3
  <2> QED
    BY <1>2, <1>4, <2>1 DEF m
<1> QED
  BY <1>2, <1>3, <1>4, <1>5, <1>6 DEF m

-----------------------------------------------------------------------------
(* Messages keep their order.                                              *)

NamesDiffer == \A i, j \in DOMAIN fleet : fleet[i].id = fleet[j].id => i = j

LEMMA NamesInit == ProducerInit => NamesDiffer
  BY DEF ProducerInit, NamesDiffer

\* Only a new session has other satellites.
LEMMA NamesStep ==
  ASSUME DistinctNames, LedgerInv, PaceInv, NamesDiffer, [ProducerNext]_pvars
  PROVE  NamesDiffer'
<1>1. UNCHANGED fleet => NamesDiffer'
  BY DEF NamesDiffer
<1>2. ASSUME NEW cmd \in CommandLines, StartSession(cmd) PROVE NamesDiffer'
  <2> DEFINE chosen == Chosen(cmd.tle, cmd.limit)
  <2>1. \A i, j \in DOMAIN chosen : chosen[i].name = chosen[j].name => i = j
    BY <1>2 DEF DistinctNames, StartSession
  <2>2. fleet' = [i \in DOMAIN chosen |->
                   [id |-> chosen[i].name, tle |-> chosen[i].tle,
                    soc |-> InitialSoc, temp |-> InitialTemp]]
    BY <1>2 DEF StartSession, Build
  <2> HIDE DEF chosen
  <2> QED
    BY <2>1, <2>2 DEF NamesDiffer
<1>3. ASSUME NEW work \in 0..MaxWork, NEW oversleep \in 0..MaxOversleep,
             TickOnce(work, oversleep)
      PROVE  NamesDiffer'
  <2>1. FleetTick(work, oversleep)
    BY <1>3 DEF TickOnce
  <2> QED
    BY <2>1, TickKeepsNames DEF NamesDiffer
<1>4. ASSUME NEW cmd \in CommandLines, RefuseSession(cmd) PROVE UNCHANGED fleet
  BY <1>4 DEF RefuseSession, loopvars, fleetvars
<1>5. CASE Send \/ SendRaises \/ TickDone
  BY <1>1, <1>5 DEF Send, SendRaises, TickDone, fleetvars
<1>6. CASE \/ LeaveTicking \/ FlushDone \/ CloseDone
           \/ RequestHalt \/ Deliver \/ Expire \/ KillProducer \/ UNCHANGED pvars
  BY <1>1, <1>6 DEF LeaveTicking, FlushDone, CloseDone, RequestHalt, Deliver, Expire,
     KillProducer, pvars, loopvars, fleetvars
<1> QED
  BY <1>1, <1>2, <1>3, <1>4, <1>5, <1>6 DEF ProducerNext, ProducerStep

\* A message that is out: no later than the tick that is being sent, and of that
\* tick only where the loop over the satellites has been.
Past(m) ==
  /\ m.stamp \in Int
  /\ ppc = "loop" => m.stamp < now
  /\ ppc = "send" =>
       \/ m.stamp < snapshot
       \/ m.stamp = snapshot /\ \E k \in 1..nextSat - 1 : m.sat = fleet[k].id

InOrder(p) ==
  \A i, j \in DOMAIN p : i < j /\ p[i].sat = p[j].sat => p[i].stamp < p[j].stamp

OrderInv == InOrder(Published) /\ \A i \in DOMAIN Published : Past(Published[i])

\* To lose messages disturbs no order.
LEMMA ThinnedInOrder ==
  ASSUME NEW q, NEW p, Thinned(q, p), InOrder(p)
  PROVE  InOrder(q) /\ \A i \in DOMAIN q : \E j \in DOMAIN p : q[i] = p[j]
<1>1. PICK f \in [DOMAIN q -> DOMAIN p] :
        /\ \A i, j \in DOMAIN q : i < j => f[i] < f[j]
        /\ \A i \in DOMAIN q : q[i] = p[f[i]]
  BY DEF Thinned
<1> QED
  BY <1>1 DEF InOrder

LEMMA NothingPublished ==
  ASSUME NEW t, Ordered(t), NEW b, b = Len(t), NEW q, q = <<>>
  PROVE  DOMAIN (SubSeq(t, b + 1, Len(t)) \o q) = {}
<1>1. Ordered(q) /\ Len(q) = 0
  BY DEF Ordered
<1>2. Len(t) \in Nat /\ b \in Nat /\ b <= Len(t)
  <2>1. Len(t) \in Nat
    BY OrderedLen
  <2> QED
    BY <2>1
<1>3. Follows(SubSeq(t, b + 1, Len(t)) \o q, t, b, q)
  BY <1>1, <1>2, PublishedIs
<1> QED
  BY <1>1, <1>2, <1>3 DEF Follows

LEMMA OrderInit == ProducerInit => OrderInv
<1> SUFFICES ASSUME ProducerInit PROVE OrderInv
  OBVIOUS
<1>1. Ordered(topic) /\ base = Len(topic) /\ queue = <<>>
  BY DEF ProducerInit, Ordered
<1> QED
  BY <1>1, NothingPublished DEF OrderInv, InOrder, Published

\* Where nothing is handed over, it is enough that what is out stays out.
LEMMA NothingNew ==
  ASSUME OrderInv, \A m : Past(m) => Past(m)',
         \A i \in DOMAIN Published' : \E j \in DOMAIN Published : Published'[i] = Published[j],
         InOrder(Published')
  PROVE  OrderInv'
  BY DEF OrderInv

\* The clock is past the tick that was sent.
LEMMA ClockPastTick ==
  ASSUME LedgerInv, PaceInv, ppc = "send"
  PROVE  snapshot \in Int /\ now = snapshot + TickSeconds /\ now > snapshot
<1>1. /\ snapshot \in Int /\ simStart \in Int /\ ticks \in Nat /\ tickCount = ticks + 1
      /\ snapshot = simStart + ticks * TickSeconds
      /\ now = simStart + tickCount * TickSeconds
  BY DEF LedgerInv, PaceInv, ClockTypeOK
<1>2. (ticks + 1) * TickSeconds = ticks * TickSeconds + TickSeconds
  BY <1>1, TickSecondsType, OneMoreBudget
<1>3. PICK whole \in Int : whole = ticks * TickSeconds
  BY <1>1, TickSecondsType
<1> QED
  BY <1>1, <1>2, <1>3, TickSecondsType

LEMMA SendKeepsOrder ==
  ASSUME LedgerInv, LedgerInv', PaceInv, NamesDiffer, OrderInv, Send
  PROVE  OrderInv'
<1>1. /\ ppc = "send" /\ nextSat \in DOMAIN fleet /\ nextSat' = nextSat + 1
      /\ UNCHANGED <<ppc, fleet, snapshot, now>>
  BY DEF Send, clvars, clock, fleetvars
<1>2. /\ Len(Published') = Len(Published) + 1
      /\ \A i \in 1..Len(Published) : Published'[i] = Published[i]
      /\ Published'[Len(Published) + 1] = Message(Reported)
  BY SendPublishes DEF PaceInv
<1>3. /\ Len(Published) \in Nat /\ DOMAIN Published = 1..Len(Published)
      /\ DOMAIN Published' = 1..Len(Published')
  <2>1. Follows(Published, topic, base, queue)
    BY PublishedFacts DEF PaceInv
  <2>2. Follows(Published', topic', base', queue')
    <3>1. Ordered(topic') /\ Ordered(queue') /\ base' \in Nat
      BY DEF LedgerInv
    <3>2. base' <= Len(topic')
      BY DEF Send, runvars, PaceInv
    <3> QED
      BY <3>1, <3>2, PublishedIs DEF Published
  <2> QED
    BY <2>1, <2>2 DEF Follows
<1>4. Message(Reported).stamp = snapshot /\ Message(Reported).sat = fleet[nextSat].id
  BY DEF Message, SatId
<1>5. /\ DOMAIN fleet = 1..Len(fleet) /\ Len(fleet) \in Nat /\ nextSat \in 1..Len(fleet)
      /\ snapshot \in Int
  BY <1>1 DEF LedgerInv, PaceInv
<1> DEFINE n == Len(Published)
           m == Message(Reported)
           p == Published
           q == Published'
<1>6. /\ \A i \in 1..n : Past(p[i]) /\ InOrder(p)
  BY <1>3 DEF OrderInv
<1> HIDE DEF n, m, p, q
<1>7. /\ n \in Nat /\ DOMAIN p = 1..n /\ DOMAIN q = 1..n + 1
      /\ \A i \in 1..n : q[i] = p[i]
      /\ q[n + 1] = m
  BY <1>2, <1>3 DEF n, m, p, q
<1>8. ASSUME NEW e, Past(e) PROVE Past(e)'
  <2>1. 1..nextSat - 1 \subseteq 1..nextSat' - 1
    BY <1>1, <1>5
  <2> QED
    BY <1>1, <1>8, <2>1 DEF Past
<1>9. m.stamp = snapshot /\ m.sat = fleet[nextSat].id
  BY <1>4 DEF m
<1>10. \A i \in 1..n : p[i].sat = m.sat => p[i].stamp < m.stamp
  <2> SUFFICES ASSUME NEW i \in 1..n, p[i].sat = m.sat, ~(p[i].stamp < snapshot) PROVE FALSE
    BY <1>9
  <2>1. PICK k \in 1..nextSat - 1 : p[i].sat = fleet[k].id
    BY <1>1, <1>6 DEF Past
  <2>2. k \in DOMAIN fleet /\ k # nextSat
    BY <1>5, <2>1
  <2> QED
    BY <1>1, <1>9, <2>1, <2>2 DEF NamesDiffer
<1>11. InOrder(q)
  BY <1>6, <1>7, <1>10 DEF InOrder
<1>12. ASSUME NEW e, \E i \in DOMAIN q : e = q[i] PROVE Past(e)'
  <2>1. CASE e = m
    <3>1. nextSat \in 1..nextSat' - 1
      BY <1>1, <1>5
    <3> QED
      BY <1>1, <1>5, <1>9, <2>1, <3>1 DEF Past
  <2>2. CASE e # m
    <3>1. PICK i \in 1..n : e = p[i]
      BY <1>7, <1>12, <2>2
    <3> QED
      BY <1>6, <1>8, <3>1
  <2> QED
    BY <2>1, <2>2
<1> QED
  BY <1>11, <1>12 DEF OrderInv, q

\* Steps that hand nothing over: what was out stays out.
LEMMA StillPast ==
  ASSUME LedgerInv, PaceInv, NEW m, Past(m),
         \/ UNCHANGED <<ppc, now, snapshot, nextSat, fleet>>
         \/ ppc' \notin {"loop", "send"}
         \/ ppc = "loop" /\ ppc' = "send" /\ snapshot' = now
         \/ TickDone
  PROVE  Past(m)'
<1>1. CASE UNCHANGED <<ppc, now, snapshot, nextSat, fleet>>
  BY <1>1 DEF Past
<1>2. CASE ppc' \notin {"loop", "send"}
  BY <1>2 DEF Past
<1>3. CASE ppc = "loop" /\ ppc' = "send" /\ snapshot' = now
  BY <1>3 DEF Past
<1>4. CASE TickDone
  <2>1. ppc = "send" /\ ppc' = "loop" /\ now' = now
    BY <1>4 DEF TickDone, clvars, clock
  <2>2. snapshot \in Int /\ now \in Int /\ now > snapshot
    BY <2>1, ClockPastTick DEF PaceInv, ClockTypeOK
  <2> QED
    BY <2>1, <2>2 DEF Past
<1> QED
  BY <1>1, <1>2, <1>3, <1>4

LEMMA OrderStep ==
  ASSUME LedgerInv, LedgerInv', PaceInv, NamesDiffer, OrderInv, [ProducerNext]_pvars
  PROVE  OrderInv'
<1>0. base <= Len(topic)
  BY DEF PaceInv
<1>1. CASE UNCHANGED <<topic, queue, base>>
           /\ \/ UNCHANGED <<ppc, now, snapshot, nextSat, fleet>>
              \/ ppc' \notin {"loop", "send"}
              \/ ppc = "loop" /\ ppc' = "send" /\ snapshot' = now
              \/ TickDone
  <2>1. Published' = Published
    BY <1>1 DEF Published
  <2>2. \A m : Past(m) => Past(m)'
    BY <1>1, StillPast
  <2> QED
    BY <2>1, <2>2, NothingNew DEF OrderInv
<1>2. CASE Deliver
  <2>1. UNCHANGED <<ppc, now, snapshot, nextSat, fleet>>
    BY <1>2 DEF Deliver, clvars, clock, loopvars, fleetvars
  <2>2. \A m : Past(m) => Past(m)'
    BY <2>1, StillPast
  <2>3. /\ Len(Published') = Len(Published)
        /\ \A i \in DOMAIN Published : Published'[i] = Published[i]
    BY <1>0, <1>2, DeliverPublishes
  <2>4. DOMAIN Published' = DOMAIN Published
    <3>1. base' \in Nat /\ base' <= Len(topic') /\ Ordered(topic') /\ Ordered(queue')
      <4>1. base' = base /\ topic' = Append(topic, Head(queue))
        BY <1>2 DEF Deliver, runvars
      <4>2. Len(topic') = Len(topic) + 1 /\ Len(topic) \in Nat /\ base \in Nat
        BY <4>1, OrderedAppend, OrderedLen DEF LedgerInv
      <4> QED
        BY <1>0, <4>1, <4>2 DEF LedgerInv
    <3>2. Follows(Published', topic', base', queue')
      BY <3>1, PublishedIs DEF Published
    <3>3. Follows(Published, topic, base, queue)
      BY <1>0, PublishedFacts
    <3> QED
      BY <2>3, <3>2, <3>3 DEF Follows
  <2>5. InOrder(Published')
    BY <2>3, <2>4 DEF OrderInv, InOrder
  <2> QED
    BY <2>2, <2>3, <2>4, <2>5, NothingNew
<1>3. CASE Expire \/ KillProducer \/ CloseDone
  <2>1. /\ topic' = topic /\ base' = base
        /\ (queue # <<>> /\ queue' = Tail(queue)) \/ queue' = <<>>
        /\ UNCHANGED <<ppc, now, snapshot, nextSat, fleet>> \/ ppc' \notin {"loop", "send"}
    BY <1>3 DEF Expire, KillProducer, CloseDone, clvars, clock, loopvars, fleetvars, runvars
  <2>2. \A m : Past(m) => Past(m)'
    BY <2>1, StillPast
  <2>3. Thinned(Published', Published)
    BY <1>0, <2>1, LossThins
  <2> QED
    BY <2>2, <2>3, ThinnedInOrder, NothingNew DEF OrderInv
<1>4. CASE Send
  BY <1>4, SendKeepsOrder
<1>5. ASSUME NEW cmd \in CommandLines, StartSession(cmd) PROVE OrderInv'
  <2>1. Ordered(topic') /\ base' = Len(topic') /\ queue' = <<>>
    BY <1>5 DEF StartSession, LedgerInv
  <2>2. DOMAIN Published' = {}
    BY <2>1, NothingPublished DEF Published
  <2> QED
    BY <2>2 DEF OrderInv, InOrder
<1>6. ASSUME NEW cmd \in CommandLines, RefuseSession(cmd) PROVE OrderInv'
  BY <1>1, <1>6 DEF RefuseSession, clock, loopvars, fleetvars
<1>7. ASSUME NEW work \in 0..MaxWork, NEW oversleep \in 0..MaxOversleep,
             TickOnce(work, oversleep)
      PROVE  OrderInv'
  BY <1>1, <1>7 DEF TickOnce, runvars
<1>8. CASE TickDone \/ SendRaises
  BY <1>1, <1>8 DEF TickDone, SendRaises, runvars
<1>9. CASE LeaveTicking \/ FlushDone \/ RequestHalt \/ UNCHANGED pvars
  BY <1>1, <1>9 DEF LeaveTicking, FlushDone, RequestHalt, pvars, clvars, clock, loopvars,
     fleetvars, runvars
<1> QED
  BY <1>2, <1>3, <1>4, <1>5, <1>6, <1>7, <1>8, <1>9 DEF ProducerNext, ProducerStep

\* OrderWithinSession for every constellation whose satellites have a name each,
\* every fault file and every client, whichever messages it loses.
THEOREM SessionsKeepOrder ==
  ASSUME DistinctNames
  PROVE  ProducerSpec => []OrderWithinSession
<1>1. OrderInv => OrderWithinSession
  BY DEF OrderInv, InOrder, OrderWithinSession
<1>2. LedgerInv /\ PaceInv /\ NamesDiffer /\ [ProducerNext]_pvars => NamesDiffer'
  BY NamesStep
<1>3. LedgerInv /\ PaceInv /\ NamesDiffer /\ OrderInv /\ [ProducerNext]_pvars => OrderInv'
  BY LedgerStep, OrderStep
<1> QED
  BY LedgerInit, LedgerStep, PaceInit, PaceStep, NamesInit, OrderInit, <1>1, <1>2, <1>3, PTL
  DEF ProducerSpec
-----------------------------------------------------------------------------
(* The stream is the simulation, tick after tick.                          *)

\* Where the message of a tick and a satellite is in the stream, and what it is
Streamed(p) ==
  \A t \in 0..ticks, k \in DOMAIN fleet :
    LET i == t * Len(fleet) + k IN
    i <= Len(p) =>
      /\ p[i].sat = fleet[k].id
      /\ p[i].stamp = simStart + t * TickSeconds
      /\ p[i].geometry = p[i].stamp

\* The place of the round in which the loop is
Round == ticks * Len(fleet) <= sent /\ sent <= (ticks + 1) * Len(fleet)

StreamInv == ppc # "off" => Round /\ (lost = 0 => Streamed(Published))

\* A place of the stream belongs to one tick and one satellite.
LEMMA OnePlace ==
  ASSUME NEW n \in Nat, NEW t \in Nat, NEW u \in Nat, NEW k \in 1..n, NEW m \in 1..n,
         t * n + k = u * n + m
  PROVE  t = u /\ k = m
<1>1. \A a, b \in Nat, j, l \in 1..n : a < b => a * n + j < b * n + l
  <2> SUFFICES ASSUME NEW a \in Nat, NEW b \in Nat, NEW j \in 1..n, NEW l \in 1..n, a < b
               PROVE  a * n + j < b * n + l
    OBVIOUS
  <2>1. (a + 1) * n <= b * n /\ (a + 1) * n = a * n + n
    BY TimesLE, OneMoreBudget
  <2>2. PICK an \in Int, bn \in Int : an = a * n /\ bn = b * n
    OBVIOUS
  <2> QED
    BY <2>1, <2>2
<1>2. t = u
  <2>1. t * n + k \in Int /\ u * n + m \in Int
    OBVIOUS
  <2> QED
    BY <1>1, <2>1
<1>3. PICK tn \in Int : tn = t * n
  OBVIOUS
<1> QED
  BY <1>2, <1>3

\* As many messages as were sent, when none is lost
LEMMA PublishedLen ==
  ASSUME LedgerInv, PaceInv
  PROVE  /\ Len(Published) \in Nat /\ DOMAIN Published = 1..Len(Published)
         /\ Len(Published) + lost = sent
<1>1. Follows(Published, topic, base, queue)
  BY PublishedFacts DEF PaceInv
<1>2. /\ Len(topic) \in Nat /\ Len(queue) \in Nat /\ base \in Nat /\ lost \in Nat /\ sent \in Nat
      /\ Len(topic) + Len(queue) + lost = base + sent
  BY OrderedLen DEF LedgerInv
<1>3. Len(Published) = (Len(topic) - base) + Len(queue)
  BY <1>1 DEF Follows
<1>4. PICK a \in Int, b \in Int : a = Len(topic) /\ b = Len(queue)
  BY <1>2
<1>5. Len(Published) + lost = sent
  BY <1>2, <1>3, <1>4
<1> QED
  BY <1>1, <1>2, <1>5 DEF Follows

LEMMA SendKeepsStream ==
  ASSUME LedgerInv, LedgerInv', PaceInv, PaceInv', StreamInv, Send
  PROVE  StreamInv'
<1>1. /\ ppc = "send" /\ nextSat \in DOMAIN fleet
      /\ UNCHANGED <<ppc, fleet, simStart, ticks, lost>>
  BY DEF Send, clvars, clock, fleetvars
<1>2. /\ Len(fleet) \in Nat /\ DOMAIN fleet = 1..Len(fleet) /\ nextSat \in 1..Len(fleet)
      /\ ticks \in Nat /\ sent \in Nat /\ sent' = sent + 1
      /\ sent = ticks * Len(fleet) + nextSat - 1
  BY <1>1 DEF LedgerInv, Send
<1> DEFINE n == Len(fleet)
<1>3. Round'
  <2>1. PICK whole \in Int : whole = ticks * n
    BY <1>2
  <2>2. (ticks + 1) * n = whole + n
    BY <1>2, <2>1, OneMoreBudget
  <2>3. sent' = whole + nextSat
    BY <1>2, <2>1
  <2>4. whole <= sent' /\ sent' <= whole + n
    BY <1>2, <2>1, <2>3
  <2> QED
    BY <1>1, <2>1, <2>2, <2>4 DEF Round
<1>4. ASSUME lost = 0 PROVE Streamed(Published)'
  <2> DEFINE p == Published
             q == Published'
  <2>1. /\ Len(q) = Len(p) + 1
        /\ \A i \in 1..Len(p) : q[i] = p[i]
        /\ q[Len(p) + 1] = Message(Reported)
    BY SendPublishes DEF PaceInv
  <2>2. Len(p) \in Nat /\ Len(p) = sent /\ Streamed(p)
    BY <1>1, <1>2, <1>4, PublishedLen DEF StreamInv
  <2>3. /\ Message(Reported).sat = fleet[nextSat].id
        /\ Message(Reported).stamp = snapshot /\ Message(Reported).geometry = results.at
    BY DEF Message, SatId
  <2>4. snapshot = simStart + ticks * TickSeconds /\ results.at = snapshot
    BY <1>1 DEF PaceInv
  <2> HIDE DEF p, q
  <2>5. ASSUME NEW t \in 0..ticks, NEW k \in DOMAIN fleet, t * n + k <= Len(q)
        PROVE  LET i == t * n + k IN
               /\ q[i].sat = fleet[k].id
               /\ q[i].stamp = simStart + t * TickSeconds
               /\ q[i].geometry = q[i].stamp
    <3>1. k \in 1..n /\ t \in Nat /\ t * n \in Nat
      BY <1>2, <2>5
    <3>2. PICK i \in Int : i = t * n + k /\ i >= 1
      BY <3>1
    <3>3. CASE i <= Len(p)
      <4>1. q[i] = p[i]
        BY <2>1, <2>2, <3>2, <3>3
      <4>2. /\ p[i].sat = fleet[k].id
            /\ p[i].stamp = simStart + t * TickSeconds
            /\ p[i].geometry = p[i].stamp
        BY <2>2, <2>5, <3>2, <3>3 DEF Streamed
      <4> QED
        BY <3>2, <4>1, <4>2
    <3>4. CASE i > Len(p)
      <4>1. i = Len(p) + 1
        BY <2>1, <2>2, <2>5, <3>2, <3>4
      <4>2. i = ticks * n + nextSat
        <5>1. PICK whole \in Int : whole = ticks * n
          BY <1>2
        <5> QED
          BY <1>2, <2>2, <4>1, <5>1
      <4>3. t = ticks /\ k = nextSat
        BY <1>2, <3>1, <3>2, <4>2, OnePlace
      <4> QED
        BY <2>1, <2>3, <2>4, <3>2, <4>1, <4>3
    <3> QED
      BY <2>2, <3>2, <3>3, <3>4
  <2> QED
    BY <1>1, <2>5 DEF Streamed, q
<1> QED
  BY <1>1, <1>3, <1>4 DEF StreamInv

LEMMA TickDoneKeepsStream ==
  ASSUME LedgerInv, PaceInv, StreamInv, TickDone
  PROVE  StreamInv'
<1>1. /\ ppc = "send" /\ nextSat \notin DOMAIN fleet /\ ticks' = ticks + 1
      /\ UNCHANGED <<topic, queue, base, fleet, simStart, sent, lost>>
  BY DEF TickDone, clvars, clock, fleetvars, runvars
<1>2. /\ Len(fleet) \in Nat /\ DOMAIN fleet = 1..Len(fleet) /\ nextSat = Len(fleet) + 1
      /\ ticks \in Nat /\ sent \in Nat
      /\ sent = ticks * Len(fleet) + nextSat - 1
  BY <1>1 DEF LedgerInv
<1> DEFINE n == Len(fleet)
<1>3. sent = ticks' * n /\ ticks' * n <= (ticks' + 1) * n
  <2>1. PICK whole \in Int : whole = ticks * n
    BY <1>2
  <2>2. (ticks + 1) * n = whole + n /\ (ticks' + 1) * n = (ticks' * n) + n
    BY <1>1, <1>2, <2>1, OneMoreBudget
  <2>3. PICK next \in Int : next = ticks' * n
    BY <1>1, <1>2
  <2> QED
    BY <1>1, <1>2, <2>1, <2>2, <2>3
<1>4. ASSUME lost = 0, Streamed(Published) PROVE Streamed(Published)'
  <2> DEFINE p == Published
  <2>1. p' = p
    BY <1>1 DEF Published
  <2>2. Len(p) = sent
    <3>1. Len(p) \in Nat /\ Len(p) + lost = sent
      BY PublishedLen
    <3> QED
      BY <1>4, <3>1
  <2> HIDE DEF p
  <2>3. ASSUME NEW t \in 0..ticks', NEW k \in DOMAIN fleet, t * n + k <= Len(p)
        PROVE  t \in 0..ticks
    <3> SUFFICES ASSUME t = ticks' PROVE FALSE
      BY <1>1, <1>2, <2>3
    <3>1. t * n = sent /\ k \in 1..n
      BY <1>2, <1>3
    <3> QED
      BY <1>2, <2>2, <2>3, <3>1
  <2>4. Streamed(p)
    BY <1>4 DEF p
  <2> QED
    BY <1>1, <2>1, <2>3, <2>4 DEF Streamed, p
<1> QED
  BY <1>1, <1>2, <1>3, <1>4 DEF StreamInv, Round

\* A tick moves neither the messages nor the names.
LEMMA TickKeepsStream ==
  ASSUME LedgerInv, PaceInv, StreamInv, NEW work \in 0..MaxWork, NEW oversleep \in 0..MaxOversleep,
         TickOnce(work, oversleep)
  PROVE  StreamInv'
<1>1. /\ ppc = "loop" /\ simStart' = simStart /\ FleetTick(work, oversleep)
      /\ UNCHANGED <<topic, queue, ticks, sent, base, lost>>
  BY DEF TickOnce, FleetTick, Tick, runvars
<1>2. /\ DOMAIN fleet' = DOMAIN fleet
      /\ \A i \in DOMAIN fleet : fleet'[i].id = fleet[i].id
  BY <1>1, TickKeepsNames
<1>3. Len(fleet') = Len(fleet)
  <2> DEFINE advanced(i) == [fleet[i] EXCEPT
                !.soc = Stepped(fleet[i], InShadow(fleet[i].tle, now), TickSeconds).soc,
                !.temp = Stepped(fleet[i], InShadow(fleet[i].tle, now), TickSeconds).temp]
  <2>1. fleet' = [i \in DOMAIN fleet |-> advanced(i)]
    BY <1>1 DEF FleetTick
  <2> HIDE DEF advanced
  <2>2. DOMAIN fleet = 1..Len(fleet) /\ Len(fleet) \in Nat
    BY DEF LedgerInv
  <2> QED
    BY <2>1, <2>2
<1>4. Published' = Published
  BY <1>1 DEF Published
<1>5. Streamed(Published) => Streamed(Published)'
  BY <1>1, <1>2, <1>3, <1>4 DEF Streamed
<1> QED
  BY <1>1, <1>3, <1>5 DEF StreamInv, Round

LEMMA StreamInit == ProducerInit => StreamInv
  BY DEF ProducerInit, StreamInv

LEMMA StreamStep ==
  ASSUME LedgerInv, LedgerInv', PaceInv, PaceInv', StreamInv, [ProducerNext]_pvars
  PROVE  StreamInv'
<1>1. CASE /\ UNCHANGED <<fleet, simStart, ticks, sent, lost>>
           /\ UNCHANGED ppc \/ ppc # "off"
           /\ UNCHANGED <<topic, queue, base>> \/ Deliver
  <2>1. Streamed(Published) => Streamed(Published)'
    <3>1. CASE UNCHANGED <<topic, queue, base>>
      BY <1>1, <3>1 DEF Streamed, Published
    <3>2. CASE Deliver
      <4>1. /\ Len(Published') = Len(Published)
            /\ \A i \in DOMAIN Published : Published'[i] = Published[i]
        BY <3>2, DeliverPublishes DEF PaceInv
      <4>2. Len(Published) \in Nat /\ DOMAIN Published = 1..Len(Published)
        BY PublishedLen
      <4>3. /\ Len(fleet) \in Nat /\ DOMAIN fleet = 1..Len(fleet) /\ ticks \in Nat
        BY DEF LedgerInv
      <4>4. ASSUME NEW t \in 0..ticks, NEW k \in DOMAIN fleet,
                   t * Len(fleet) + k <= Len(Published)
            PROVE  t * Len(fleet) + k \in DOMAIN Published
        <5>1. k \in 1..Len(fleet) /\ t \in Nat
          BY <4>3
        <5>2. t * Len(fleet) \in Nat
          BY <4>3, <5>1
        <5>3. PICK whole \in Nat : whole = t * Len(fleet)
          BY <5>2
        <5> QED
          BY <4>2, <4>4, <5>1, <5>3
      <4> DEFINE p == Published
                 q == Published'
      <4>5. Len(q) = Len(p) /\ \A i \in DOMAIN p : q[i] = p[i]
        BY <4>1
      <4>6. \A t \in 0..ticks, k \in DOMAIN fleet :
              t * Len(fleet) + k <= Len(p) => t * Len(fleet) + k \in DOMAIN p
        BY <4>4
      <4> HIDE DEF p, q
      <4>7. Streamed(p) =>
              \A t \in 0..ticks, k \in DOMAIN fleet :
                LET i == t * Len(fleet) + k IN
                i <= Len(q) =>
                  /\ q[i].sat = fleet[k].id
                  /\ q[i].stamp = simStart + t * TickSeconds
                  /\ q[i].geometry = q[i].stamp
        BY <4>5, <4>6 DEF Streamed
      <4> QED
        BY <1>1, <4>7 DEF Streamed, p, q
    <3> QED
      BY <1>1, <3>1, <3>2
  <2> QED
    BY <1>1, <2>1 DEF StreamInv, Round
<1>2. CASE ppc' = "off"
  BY <1>2 DEF StreamInv
<1>3. CASE Expire
  <2>1. /\ UNCHANGED <<ppc, fleet, ticks, sent>> /\ lost' # 0
    BY <1>3 DEF Expire, loopvars, fleetvars, LedgerInv
  <2> QED
    BY <2>1 DEF StreamInv, Round
<1>4. CASE Send
  BY <1>4, SendKeepsStream
<1>5. ASSUME NEW cmd \in CommandLines, StartSession(cmd) PROVE StreamInv'
  <2>1. /\ ticks' = 0 /\ sent' = 0
        /\ Ordered(topic') /\ base' = Len(topic') /\ queue' = <<>>
    BY <1>5 DEF StartSession, LedgerInv
  <2>2. DOMAIN Published' = {}
    BY <2>1, NothingPublished DEF Published
  <2>3. Len(fleet') \in Nat /\ DOMAIN fleet' = 1..Len(fleet')
    BY DEF LedgerInv
  <2>4. Round'
    <3>1. 0 * Len(fleet') = 0 /\ (0 + 1) * Len(fleet') = Len(fleet')
      <4>1. \A n \in Nat : 0 * n = 0 /\ (0 + 1) * n = n
        OBVIOUS
      <4> QED
        BY <2>3, <4>1
    <3> QED
      BY <2>1, <2>3, <3>1 DEF Round
  <2>5. Len(Published') = 0
    <3>1. Ordered(queue') /\ Len(queue') = 0 /\ base' \in Nat /\ base' <= Len(topic')
      BY <2>1, OrderedLen DEF LedgerInv, Ordered
    <3>2. Follows(Published', topic', base', queue')
      BY <2>1, <3>1, PublishedIs DEF Published
    <3> QED
      BY <2>2, <3>2 DEF Follows
  <2>6. Streamed(Published)'
    <3>1. ASSUME NEW k \in 1..Len(fleet') PROVE ~(0 * Len(fleet') + k <= 0)
      <4>1. 0 * Len(fleet') = 0
        BY <2>3
      <4> QED
        BY <2>3, <4>1
    <3>2. 0..ticks' = {0}
      BY <2>1
    <3> QED
      BY <2>3, <2>5, <3>1, <3>2 DEF Streamed
  <2> QED
    BY <2>4, <2>6 DEF StreamInv
<1>6. ASSUME NEW cmd \in CommandLines, RefuseSession(cmd) PROVE StreamInv'
  BY <1>2, <1>6 DEF RefuseSession
<1>7. ASSUME NEW work \in 0..MaxWork, NEW oversleep \in 0..MaxOversleep,
             TickOnce(work, oversleep)
      PROVE  StreamInv'
  BY <1>7, TickKeepsStream
<1>8. CASE TickDone
  BY <1>8, TickDoneKeepsStream
<1>9. CASE SendRaises \/ Deliver \/ LeaveTicking \/ FlushDone \/ RequestHalt \/ UNCHANGED pvars
  BY <1>1, <1>9 DEF SendRaises, Deliver, LeaveTicking, FlushDone, RequestHalt, pvars, clvars,
     clock, loopvars, fleetvars, runvars
<1>10. CASE KillProducer \/ CloseDone
  BY <1>2, <1>10 DEF KillProducer, CloseDone
<1> QED
  BY <1>3, <1>4, <1>5, <1>6, <1>7, <1>8, <1>9, <1>10 DEF ProducerNext, ProducerStep

\* StreamsFollowTheClock for every constellation, command line, fault file, queue
\* limit and client: the topic and the queue hold whole rounds of the fleet, and
\* the round in which the loop is.
THEOREM StreamsAreRounds == ProducerSpec => []StreamsFollowTheClock
<1>1. LedgerInv /\ PaceInv /\ StreamInv => StreamsFollowTheClock
  <2> SUFFICES ASSUME LedgerInv, PaceInv, StreamInv, ppc # "off", lost = 0
               PROVE  /\ ticks * Len(fleet) <= Len(Published)
                      /\ Len(Published) <= (ticks + 1) * Len(fleet)
                      /\ Streamed(Published)
    BY DEF StreamsFollowTheClock, Streamed
  <2>1. Len(Published) \in Nat /\ Len(Published) + lost = sent
    BY PublishedLen
  <2>2. Len(Published) = sent
    BY <2>1
  <2> QED
    BY <2>2 DEF StreamInv, Round
<1>2. LedgerInv /\ PaceInv /\ StreamInv /\ [ProducerNext]_pvars => StreamInv'
  BY LedgerStep, PaceStep, StreamStep
<1> QED
  BY LedgerInit, LedgerStep, PaceInit, PaceStep, StreamInit, <1>1, <1>2, PTL DEF ProducerSpec

-----------------------------------------------------------------------------
(* What a session shows of a satellite is the satellite's own series.      *)

\* The satellite by itself, after n ticks of this session's clock
Series(k, n) == After(specs, fleet[k].id, fleet[k].tle, simStart, TickSeconds, n)

\* The sample of one satellite at one tick, whose faults all have a start
Shown(m) ==
  \E k \in DOMAIN fleet, t \in Nat :
    /\ m.sat = fleet[k].id /\ m.stamp = simStart + t * TickSeconds
    /\ ~StartRaises(specs, m.sat)
    /\ \A c \in Channels : m[c] = Series(k, t + 1).sample[c]

\* The faults of the session, as loaded and with their offsets resolved
FaultsInv ==
  /\ Len(file) \in Nat /\ DOMAIN file = 1..Len(file)
  /\ \A i \in DOMAIN file :
       /\ DOMAIN file[i] = {"sat", "type", "form", "at", "relative", "rate", "limit"}
       /\ file[i].type \in FaultTypes /\ file[i].at \in Int
  /\ specs = Bound(file, simStart)

\* A satellite is as far in its series as the clock has come, its stuck sensor as
\* far as the loop over the satellites has.
SeriesInv ==
  /\ FaultsInv
  /\ \A k \in DOMAIN fleet : /\ fleet[k].soc = Series(k, tickCount).state.soc
                             /\ fleet[k].temp = Series(k, tickCount).state.temp
  /\ ppc = "send" =>
       \A k \in DOMAIN fleet : results.ticked[k] = Series(k, ticks + 1).state
  /\ ppc \in {"loop", "send"} =>
       \A k \in DOMAIN fleet :
         held[fleet[k].id]
           = Series(k, IF ppc = "send" /\ k < nextSat THEN ticks + 1 ELSE ticks).held
  /\ \A i \in DOMAIN Published : Shown(Published[i])

\* What the faults are once their offsets are resolved
LEMMA BoundFaults ==
  ASSUME FaultsInv
  PROVE  /\ Len(specs) = Len(file) /\ Known(specs)
         /\ \A i \in DOMAIN file :
              /\ specs[i].sat = file[i].sat /\ specs[i].type = file[i].type
              /\ specs[i].form = file[i].form
              /\ file[i].form = "text" => specs[i].at = StartOf(file[i])
<1>1. /\ Len(file) \in Nat /\ DOMAIN file = 1..Len(file)
      /\ \A i \in DOMAIN file :
           /\ DOMAIN file[i] = {"sat", "type", "form", "at", "relative", "rate", "limit"}
           /\ file[i].type \in FaultTypes
  BY DEF FaultsInv
<1> DEFINE b(i) == IF file[i].relative /\ file[i].form = "text"
                   THEN [file[i] EXCEPT !.at = simStart + @, !.relative = FALSE]
                   ELSE file[i]
<1>2. specs = [i \in DOMAIN file |-> b(i)]
  BY DEF FaultsInv, Bound
<1>3. ASSUME NEW i \in DOMAIN file
      PROVE  /\ b(i).sat = file[i].sat /\ b(i).type = file[i].type /\ b(i).form = file[i].form
             /\ file[i].form = "text" => b(i).at = StartOf(file[i])
  BY <1>1 DEF StartOf
<1> HIDE DEF b
<1>4. Len(specs) = Len(file) /\ DOMAIN specs = DOMAIN file
  BY <1>1, <1>2
<1>5. \A i \in DOMAIN file : specs[i] = b(i)
  BY <1>2
<1> QED
  BY <1>1, <1>3, <1>4, <1>5 DEF Known

LEMMA StartHasFaults ==
  ASSUME NEW cmd \in CommandLines, StartSession(cmd)
  PROVE  FaultsInv'
<1> DEFINE faults == cmd.faults
           e(i) == faults[i]
<1>1. /\ Len(faults) \in Nat /\ DOMAIN faults = 1..Len(faults)
      /\ ~Refused(faults) /\ file' = FromYaml(faults) /\ specs' = Bound(file', simStart')
  BY ProducerAssumption DEF StartSession, Runs
<1> HIDE DEF faults
<1> DEFINE relative(i) == "start_offset" \in DOMAIN faults[i]
           start(i) == IF relative(i) THEN faults[i].start_offset ELSE faults[i].start_iso
           entry(i) == [sat |-> faults[i].sat, type |-> faults[i].type, form |-> start(i).form,
                        at |-> start(i).at, relative |-> relative(i),
                        rate |-> faults[i].rate, limit |-> faults[i].limit]
<1>2. file' = [i \in DOMAIN faults |-> entry(i)]
  BY <1>1 DEF FromYaml
<1>3. \A i \in DOMAIN faults : faults[i].type \in FaultTypes
  BY <1>1 DEF Refused
<1>6. \A i \in DOMAIN faults : start(i).at \in Int
  <2> SUFFICES ASSUME NEW i \in DOMAIN faults PROVE start(i).at \in Int
    OBVIOUS
  <2>1. \A key \in {"start_iso", "start_offset"} \cap DOMAIN faults[i] : faults[i][key].at \in Int
    BY ProducerAssumption DEF faults
  <2>2. "start_iso" \in DOMAIN faults[i] \/ "start_offset" \in DOMAIN faults[i]
    BY <1>1 DEF Refused
  <2> QED
    BY <2>1, <2>2
<1>4. \A i \in DOMAIN faults :
        /\ DOMAIN entry(i) = {"sat", "type", "form", "at", "relative", "rate", "limit"}
        /\ entry(i).type = faults[i].type /\ entry(i).at = start(i).at
  OBVIOUS
<1> HIDE DEF entry
<1>5. Len(file') = Len(faults) /\ DOMAIN file' = DOMAIN faults
      /\ \A i \in DOMAIN faults : file'[i] = entry(i)
  BY <1>1, <1>2
<1> QED
  BY <1>1, <1>3, <1>4, <1>5, <1>6 DEF FaultsInv

LEMMA SeriesInit == ProducerInit => SeriesInv
<1> SUFFICES ASSUME ProducerInit PROVE SeriesInv
  OBVIOUS
<1>1. fleet = <<>> /\ file = <<>> /\ specs = <<>> /\ ppc = "off"
  BY DEF ProducerInit
<1>2. DOMAIN fleet = {} /\ DOMAIN file = {} /\ Len(file) = 0
  BY <1>1
<1>3. FaultsInv
  <2>1. Bound(file, simStart) = <<>>
    BY <1>1 DEF Bound
  <2>2. 1..0 = {}
    OBVIOUS
  <2> QED
    BY <1>1, <1>2, <2>1, <2>2 DEF FaultsInv
<1>4. DOMAIN Published = {}
  <2>1. Ordered(topic) /\ base = Len(topic) /\ queue = <<>>
    BY DEF ProducerInit, Ordered
  <2> QED
    BY <2>1, NothingPublished DEF Published
<1> QED
  BY <1>1, <1>2, <1>3, <1>4 DEF SeriesInv

\* Only Send adds a message, and StartSession begins a new stream.
LEMMA OthersPublishNothing ==
  ASSUME LedgerInv, LedgerInv', base <= Len(topic),
         \/ UNCHANGED <<topic, queue, base>>
         \/ Deliver \/ Expire \/ KillProducer \/ CloseDone
  PROVE  \A i \in DOMAIN Published' : \E j \in DOMAIN Published : Published'[i] = Published[j]
<1>1. CASE UNCHANGED <<topic, queue, base>>
  BY <1>1 DEF Published
<1>2. CASE Deliver
  <2>1. /\ Len(Published') = Len(Published)
        /\ \A i \in DOMAIN Published : Published'[i] = Published[i]
    BY <1>2, DeliverPublishes
  <2>2. base' \in Nat /\ base' <= Len(topic') /\ Ordered(topic') /\ Ordered(queue')
    <3>1. base' = base /\ topic' = Append(topic, Head(queue))
      BY <1>2 DEF Deliver, runvars
    <3>2. Len(topic') = Len(topic) + 1 /\ Len(topic) \in Nat /\ base \in Nat
      BY <3>1, OrderedAppend, OrderedLen DEF LedgerInv
    <3> QED
      BY <3>1, <3>2 DEF LedgerInv
  <2>3. Follows(Published', topic', base', queue')
    BY <2>2, PublishedIs DEF Published
  <2>4. Follows(Published, topic, base, queue)
    BY PublishedFacts
  <2> QED
    BY <2>1, <2>3, <2>4 DEF Follows
<1>3. CASE Expire \/ KillProducer \/ CloseDone
  <2>1. /\ topic' = topic /\ base' = base
        /\ (queue # <<>> /\ queue' = Tail(queue)) \/ queue' = <<>>
    BY <1>3 DEF Expire, KillProducer, CloseDone, runvars
  <2>2. Thinned(Published', Published)
    BY <2>1, LossThins
  <2> QED
    BY <2>2 DEF Thinned
<1> QED
  BY <1>1, <1>2, <1>3

\* Where the satellites and their faults are the same, so are their series.
LEMMA SameSeries ==
  ASSUME specs' = specs, simStart' = simStart, DOMAIN fleet' = DOMAIN fleet,
         \A k \in DOMAIN fleet : fleet'[k].id = fleet[k].id /\ fleet'[k].tle = fleet[k].tle
  PROVE  /\ \A n : \A k \in DOMAIN fleet : Series(k, n)' = Series(k, n)
         /\ \A m : Shown(m) => Shown(m)'
<1>1. \A n : \A k \in DOMAIN fleet : Series(k, n)' = Series(k, n)
  BY DEF Series
<1> QED
  BY <1>1 DEF Shown

LEMMA StartKeepsSeries ==
  ASSUME LedgerInv', NEW cmd \in CommandLines, StartSession(cmd)
  PROVE  SeriesInv'
<1>1. /\ tickCount' = 0 /\ ppc' = "loop" /\ ticks' = 0
      /\ base' = Len(topic') /\ queue' = <<>>
      /\ held' = [sat \in {fleet'[i].id : i \in DOMAIN fleet'} |-> {}]
  BY DEF StartSession, NewClock
<1>2. \A k \in DOMAIN fleet' : fleet'[k].soc = InitialSoc /\ fleet'[k].temp = InitialTemp
  <2> DEFINE chosen == Chosen(cmd.tle, cmd.limit)
  <2>1. fleet' = [i \in DOMAIN chosen |->
                   [id |-> chosen[i].name, tle |-> chosen[i].tle,
                    soc |-> InitialSoc, temp |-> InitialTemp]]
    BY DEF StartSession, Build
  <2> HIDE DEF chosen
  <2> QED
    BY <2>1
<1>3. \A k \in DOMAIN fleet' : Series(k, 0)' = [state |-> InitialState, held |-> {}]
  <2> SUFFICES ASSUME NEW k \in DOMAIN fleet'
               PROVE  Series(k, 0)' = [state |-> InitialState, held |-> {}]
    OBVIOUS
  <2>1. After(specs', fleet'[k].id, fleet'[k].tle, simStart', TickSeconds, 0)
          = [state |-> InitialState, held |-> {}]
    <3>1. 0 \in Nat
      OBVIOUS
    <3> QED
      BY <3>1, AfterNext
  <2> QED
    BY <2>1 DEF Series
<1>4. \A k \in DOMAIN fleet' : held'[fleet'[k].id] = {}
  BY <1>1
<1>5. DOMAIN Published' = {}
  <2>1. Ordered(topic')
    BY DEF LedgerInv
  <2> QED
    BY <1>1, <2>1, NothingPublished DEF Published
<1>6. FaultsInv'
  BY StartHasFaults
<1>7. \A k \in DOMAIN fleet' : /\ fleet'[k].soc = Series(k, tickCount)'.state.soc
                               /\ fleet'[k].temp = Series(k, tickCount)'.state.temp
                               /\ held'[fleet'[k].id] = Series(k, ticks)'.held
  <2> SUFFICES ASSUME NEW k \in DOMAIN fleet'
               PROVE  /\ fleet'[k].soc = Series(k, tickCount)'.state.soc
                      /\ fleet'[k].temp = Series(k, tickCount)'.state.temp
                      /\ held'[fleet'[k].id] = Series(k, ticks)'.held
    OBVIOUS
  <2>1. Series(k, tickCount)' = Series(k, 0)' /\ Series(k, ticks)' = Series(k, 0)'
    BY <1>1 DEF Series
  <2>2. Series(k, 0)'.state = InitialState /\ Series(k, 0)'.held = {}
    BY <1>3
  <2>3. InitialState.soc = InitialSoc /\ InitialState.temp = InitialTemp
    BY DEF InitialState
  <2> QED
    BY <1>2, <1>4, <2>1, <2>2, <2>3
<1> QED
  BY <1>1, <1>5, <1>6, <1>7 DEF SeriesInv

\* A tick takes every satellite one further in its series.
LEMMA TickKeepsSeries ==
  ASSUME LedgerInv, LedgerInv', PaceInv, SeriesInv, NEW work \in 0..MaxWork,
         NEW oversleep \in 0..MaxOversleep, TickOnce(work, oversleep)
  PROVE  SeriesInv'
<1>1. /\ ppc = "loop" /\ ppc' = "send" /\ nextSat' = 1 /\ tickCount = ticks
      /\ ticks' = ticks /\ tickCount' = tickCount + 1 /\ simStart' = simStart
      /\ FleetTick(work, oversleep) /\ ticks \in Nat
      /\ UNCHANGED <<topic, queue, base, file, specs, held>>
  BY DEF TickOnce, FleetTick, Tick, faultvars, runvars, PaceInv, LedgerInv
<1>2. /\ DOMAIN fleet' = DOMAIN fleet /\ DOMAIN fleet = 1..Len(fleet) /\ Len(fleet) \in Nat
      /\ \A k \in DOMAIN fleet : fleet'[k].id = fleet[k].id /\ fleet'[k].tle = fleet[k].tle
  BY <1>1, TickKeepsNames DEF LedgerInv
<1>3. /\ \A n : \A k \in DOMAIN fleet : Series(k, n)' = Series(k, n)
      /\ \A m : Shown(m) => Shown(m)'
  BY <1>1, <1>2, SameSeries
<1>4. now = simStart + ticks * TickSeconds
  BY <1>1 DEF PaceInv, ClockTypeOK
<1>5. ASSUME NEW k \in DOMAIN fleet
      PROVE  /\ results'.ticked[k] = Series(k, ticks + 1).state
             /\ fleet'[k].soc = Series(k, ticks + 1).state.soc
             /\ fleet'[k].temp = Series(k, ticks + 1).state.temp
  <2> DEFINE shadow == InShadow(fleet[k].tle, now)
             was == Series(k, ticks).state
             tick == Stepped(fleet[k], shadow, TickSeconds)
  <2>1. results'.ticked[k] = tick /\ fleet'[k].soc = tick.soc /\ fleet'[k].temp = tick.temp
    <3> DEFINE ticked == [i \in DOMAIN fleet |->
                           Stepped(fleet[i], InShadow(fleet[i].tle, now), TickSeconds)]
    <3>1. /\ results' = [at |-> now, ticked |-> ticked]
          /\ fleet' = [i \in DOMAIN fleet |->
                [fleet[i] EXCEPT !.soc = ticked[i].soc, !.temp = ticked[i].temp]]
      BY <1>1 DEF FleetTick
    <3>2. ticked[k] = tick
      OBVIOUS
    <3> HIDE DEF ticked, tick
    <3>3. DOMAIN fleet[k] = {"id", "tle", "soc", "temp"}
      BY DEF PaceInv
    <3> QED
      BY <3>1, <3>2, <3>3
  <2>2. fleet[k].soc = was.soc /\ fleet[k].temp = was.temp
    BY <1>1 DEF SeriesInv
  <2>3. tick = Stepped(was, shadow, TickSeconds)
    <3> HIDE DEF was, shadow
    <3> QED
      BY <2>2 DEF Stepped
  <2>4. Series(k, ticks + 1).state = Stepped(was, shadow, TickSeconds)
    <3>1. Series(k, ticks + 1)
            = Lived(specs, fleet[k].id, fleet[k].tle, simStart, TickSeconds, ticks + 1,
                    Series(k, ticks))
      BY <1>1, AfterNext DEF Series
    <3>2. (ticks + 1) - 1 = ticks
      BY <1>1
    <3> QED
      BY <1>4, <3>1, <3>2 DEF Lived
  <2> QED
    BY <2>1, <2>3, <2>4
<1>6. ASSUME NEW k \in DOMAIN fleet PROVE held[fleet[k].id] = Series(k, ticks).held
  BY <1>1 DEF SeriesInv
<1>7. \A k \in DOMAIN fleet' : ~(k < 1)
  BY <1>2
<1>8. Published' = Published
  BY <1>1 DEF Published
<1>9. \A k \in DOMAIN fleet' :
        /\ fleet'[k].soc = Series(k, tickCount)'.state.soc
        /\ fleet'[k].temp = Series(k, tickCount)'.state.temp
        /\ results'.ticked[k] = Series(k, ticks + 1)'.state
        /\ held'[fleet'[k].id] = Series(k, ticks)'.held
  <2> SUFFICES ASSUME NEW k \in DOMAIN fleet
               PROVE  /\ fleet'[k].soc = Series(k, tickCount)'.state.soc
                      /\ fleet'[k].temp = Series(k, tickCount)'.state.temp
                      /\ results'.ticked[k] = Series(k, ticks + 1)'.state
                      /\ held'[fleet'[k].id] = Series(k, ticks)'.held
    BY <1>2
  <2>1. /\ Series(k, tickCount)' = Series(k, ticks + 1)
        /\ Series(k, ticks + 1)' = Series(k, ticks + 1)
        /\ Series(k, ticks)' = Series(k, ticks)
    BY <1>1, <1>2 DEF Series
  <2> QED
    BY <1>1, <1>2, <1>5, <1>6, <2>1
<1>10. FaultsInv'
  BY <1>1 DEF SeriesInv, FaultsInv
<1>11. (\A i \in DOMAIN Published : Shown(Published[i]))'
  BY <1>3, <1>8 DEF SeriesInv
<1> QED
  BY <1>1, <1>7, <1>9, <1>10, <1>11 DEF SeriesInv

\* What Send makes of a tick result is the next sample of the series.
LEMMA SendKeepsSeries ==
  ASSUME LedgerInv, LedgerInv', PaceInv, NamesDiffer, SeriesInv, Send
  PROVE  SeriesInv'
<1>1. /\ ppc = "send" /\ ppc' = ppc /\ nextSat \in DOMAIN fleet /\ nextSat' = nextSat + 1
      /\ ~StartRaises(specs, SatId) /\ ticks \in Nat
      /\ held' = [held EXCEPT ![SatId] = Reported.held]
      /\ UNCHANGED <<fleet, results, ticks, tickCount, simStart, specs, file>>
  BY DEF Send, clvars, clock, fleetvars, runvars, LedgerInv
<1>2. /\ DOMAIN fleet = 1..Len(fleet) /\ Len(fleet) \in Nat
      /\ DOMAIN held = FleetIds /\ SatId \in FleetIds
      /\ snapshot = simStart + ticks * TickSeconds
  BY <1>1 DEF LedgerInv, PaceInv, FleetIds, SatId
<1>3. /\ \A n : \A k \in DOMAIN fleet : Series(k, n)' = Series(k, n)
      /\ \A m : Shown(m) => Shown(m)'
  BY <1>1, SameSeries
<1> DEFINE tick == results.ticked[nextSat]
           prev == Series(nextSat, ticks)
           next == Series(nextSat, ticks + 1)
           shown == Reported
<1>4. tick = next.state /\ held[SatId] = prev.held
  <2>1. ~(nextSat < nextSat)
    BY <1>1, <1>2
  <2> QED
    BY <1>1, <2>1 DEF SeriesInv, SatId
<1>5. /\ next.held = shown.held
      /\ next.sample = [tick EXCEPT !.soc = shown.soc, !.temp = shown.temp]
  <2> DEFINE nominal == Stepped(prev.state, InShadow(fleet[nextSat].tle, snapshot), TickSeconds)
             layered == Apply(specs, SatId, snapshot, nominal, prev.held)
  <2>1. next = [state |-> nominal, held |-> layered.held,
                sample |-> [nominal EXCEPT !.soc = layered.soc, !.temp = layered.temp]]
    <3>1. next = Lived(specs, fleet[nextSat].id, fleet[nextSat].tle, simStart, TickSeconds,
                       ticks + 1, prev)
      BY <1>1, AfterNext DEF Series
    <3>2. (ticks + 1) - 1 = ticks
      BY <1>1
    <3> HIDE DEF next, prev
    <3> QED
      BY <1>2, <3>1, <3>2 DEF Lived, SatId
  <2>2. next.state = nominal
    <3> HIDE DEF next, nominal, layered
    <3> QED
      BY <2>1
  <2>3. layered = shown
    BY <1>4, <2>2 DEF Reported
  <2> HIDE DEF next, nominal, layered, shown, tick
  <2> QED
    BY <1>4, <2>1, <2>2, <2>3
<1>6. DOMAIN tick = Channels
  <2>1. \E s, shadow : next.state = Stepped(s, shadow, TickSeconds)
    <3>1. next = Lived(specs, fleet[nextSat].id, fleet[nextSat].tle, simStart, TickSeconds,
                       ticks + 1, prev)
      BY <1>1, AfterNext DEF Series
    <3> HIDE DEF next, prev
    <3> QED
      BY <3>1 DEF Lived
  <2> HIDE DEF next, tick
  <2> QED
    BY <1>4, <2>1 DEF Stepped, Channels
<1> DEFINE m == Message(Reported)
<1>7. m.sat = SatId /\ m.stamp = snapshot /\ \A c \in Channels : m[c] = next.sample[c]
  <2>1. /\ m.sat = SatId /\ m.stamp = snapshot
        /\ m.shadow = tick.shadow /\ m.soc = shown.soc /\ m.net = tick.net
        /\ m.temp = shown.temp /\ m.heat = tick.heat
    BY DEF Message
  <2> HIDE DEF m, tick, shown, next
  <2>2. /\ next.sample.shadow = tick.shadow /\ next.sample.soc = shown.soc
        /\ next.sample.net = tick.net /\ next.sample.temp = shown.temp
        /\ next.sample.heat = tick.heat
    BY <1>5, <1>6 DEF Channels
  <2> QED
    BY <2>1, <2>2 DEF Channels
<1>8. Shown(m)
  BY <1>1, <1>2, <1>7 DEF Shown, SatId
<1>9. (\A i \in DOMAIN Published : Shown(Published[i]))'
  <2>1. /\ Len(Published') = Len(Published) + 1
        /\ \A i \in 1..Len(Published) : Published'[i] = Published[i]
        /\ Published'[Len(Published) + 1] = m
    BY SendPublishes DEF PaceInv
  <2>2. /\ Len(Published) \in Nat /\ DOMAIN Published = 1..Len(Published)
        /\ DOMAIN Published' = 1..Len(Published')
    <3>1. Follows(Published, topic, base, queue)
      BY PublishedFacts DEF PaceInv
    <3>2. base' = base /\ topic' = topic /\ base <= Len(topic)
      BY DEF Send, runvars, PaceInv
    <3>3. Follows(Published', topic', base', queue')
      BY <3>2, PublishedIs DEF Published, LedgerInv
    <3> QED
      BY <3>1, <3>3 DEF Follows
  <2>3. \A i \in 1..Len(Published) : Shown(Published[i])
    BY <2>2 DEF SeriesInv
  <2> DEFINE p == Published  q == Published'
  <2> HIDE DEF p, q, m
  <2>4. \A i \in 1..Len(p) + 1 : i \in 1..Len(p) \/ i = Len(p) + 1
    BY <2>2 DEF p
  <2>5. \A i \in DOMAIN q : Shown(q[i])
    BY <1>8, <2>1, <2>2, <2>3, <2>4 DEF p, q
  <2> QED
    BY <1>3, <2>5 DEF q
<1>10. ASSUME NEW k \in DOMAIN fleet
       PROVE  held'[fleet[k].id] = Series(k, IF k < nextSat' THEN ticks + 1 ELSE ticks).held
  <2>1. k \in Int /\ nextSat \in Int /\ k \in 1..Len(fleet) /\ fleet[k].id \in DOMAIN held
    BY <1>1, <1>2 DEF FleetIds
  <2>2. held[fleet[k].id] = Series(k, IF k < nextSat THEN ticks + 1 ELSE ticks).held
    BY <1>1 DEF SeriesInv
  <2>3. CASE k = nextSat
    <3>1. k < nextSat' /\ fleet[k].id = SatId
      BY <1>1, <2>1, <2>3 DEF SatId
    <3>2. held'[SatId] = Reported.held
      BY <1>1, <1>2
    <3> QED
      BY <1>5, <2>3, <3>1, <3>2
  <2>4. CASE k # nextSat
    <3>1. (k < nextSat') <=> (k < nextSat)
      BY <1>1, <2>1, <2>4
    <3>2. fleet[k].id # SatId
      BY <1>1, <2>4 DEF NamesDiffer, SatId
    <3>3. held'[fleet[k].id] = held[fleet[k].id]
      BY <1>1, <2>1, <3>2
    <3> QED
      BY <2>2, <3>1, <3>3
  <2> QED
    BY <2>3, <2>4
<1>11. FaultsInv'
  BY <1>1 DEF SeriesInv, FaultsInv
<1>12. \A k \in DOMAIN fleet' :
         /\ fleet'[k].soc = Series(k, tickCount)'.state.soc
         /\ fleet'[k].temp = Series(k, tickCount)'.state.temp
         /\ results'.ticked[k] = Series(k, ticks + 1)'.state
         /\ held'[fleet'[k].id]
              = Series(k, IF ppc = "send" /\ k < nextSat THEN ticks + 1 ELSE ticks)'.held
  <2> SUFFICES ASSUME NEW k \in DOMAIN fleet
               PROVE  /\ fleet[k].soc = Series(k, tickCount)'.state.soc
                      /\ fleet[k].temp = Series(k, tickCount)'.state.temp
                      /\ results.ticked[k] = Series(k, ticks + 1)'.state
                      /\ held'[fleet[k].id]
                           = Series(k, IF ppc = "send" /\ k < nextSat THEN ticks + 1 ELSE ticks)'.held
    BY <1>1
  <2>1. /\ Series(k, tickCount)' = Series(k, tickCount)
        /\ Series(k, ticks + 1)' = Series(k, ticks + 1)
        /\ Series(k, IF ppc = "send" /\ k < nextSat THEN ticks + 1 ELSE ticks)'
             = Series(k, IF k < nextSat' THEN ticks + 1 ELSE ticks)
    BY <1>1 DEF Series
  <2> QED
    BY <1>1, <1>10, <2>1 DEF SeriesInv
<1> QED
  BY <1>1, <1>9, <1>11, <1>12 DEF SeriesInv

\* Every step but Send, TickOnce and StartSession leaves the series alone.
LEMMA SeriesStep ==
  ASSUME LedgerInv, LedgerInv', PaceInv, NamesDiffer, SeriesInv, [ProducerNext]_pvars
  PROVE  SeriesInv'
<1>0. base <= Len(topic)
  BY DEF PaceInv
<1>1. CASE /\ UNCHANGED <<fleet, simStart, tickCount, specs, file>>
           /\ \/ UNCHANGED <<ppc, results, ticks, held, nextSat>>
              \/ ppc' \notin {"loop", "send"}
              \/ TickDone
           /\ \/ UNCHANGED <<topic, queue, base>>
              \/ Deliver \/ Expire \/ KillProducer \/ CloseDone
  <2>1. /\ \A n : \A k \in DOMAIN fleet : Series(k, n)' = Series(k, n)
        /\ \A m : Shown(m) => Shown(m)'
    BY <1>1, SameSeries
  <2>2. (\A i \in DOMAIN Published : Shown(Published[i]))'
    <3>1. \A i \in DOMAIN Published' : \E j \in DOMAIN Published : Published'[i] = Published[j]
      BY <1>0, <1>1, OthersPublishNothing
    <3> QED
      BY <2>1, <3>1 DEF SeriesInv
  <2>3. FaultsInv'
    BY <1>1 DEF SeriesInv, FaultsInv
  <2>4. \A k \in DOMAIN fleet' : /\ fleet'[k].soc = Series(k, tickCount)'.state.soc
                                 /\ fleet'[k].temp = Series(k, tickCount)'.state.temp
    <3>1. \A k \in DOMAIN fleet : Series(k, tickCount)' = Series(k, tickCount)
      BY <1>1 DEF Series
    <3> QED
      BY <1>1, <3>1 DEF SeriesInv
  <2>5. CASE UNCHANGED <<ppc, results, ticks, held, nextSat>>
    <3>1. \A k \in DOMAIN fleet :
            /\ Series(k, ticks + 1)' = Series(k, ticks + 1)
            /\ Series(k, IF ppc = "send" /\ k < nextSat THEN ticks + 1 ELSE ticks)'
                 = Series(k, IF ppc = "send" /\ k < nextSat THEN ticks + 1 ELSE ticks)
      BY <1>1, <2>5 DEF Series
    <3> QED
      BY <1>1, <2>2, <2>3, <2>4, <2>5, <3>1 DEF SeriesInv
  <2>6. CASE ppc' \notin {"loop", "send"}
    BY <2>2, <2>3, <2>4, <2>6 DEF SeriesInv
  <2>7. CASE TickDone
    <3>1. /\ ppc = "send" /\ ppc' = "loop" /\ nextSat \notin DOMAIN fleet
          /\ ticks' = ticks + 1 /\ held' = held
          /\ DOMAIN fleet = 1..Len(fleet) /\ nextSat \in 1..Len(fleet) + 1
          /\ Len(fleet) \in Nat
      BY <2>7 DEF TickDone, faultvars, LedgerInv
    <3>2. \A k \in DOMAIN fleet : k < nextSat
      BY <3>1
    <3>3. \A k \in DOMAIN fleet' : held'[fleet'[k].id] = Series(k, ticks)'.held
      <4>1. \A k \in DOMAIN fleet : Series(k, ticks)' = Series(k, ticks + 1)
        BY <1>1, <3>1 DEF Series
      <4>2. \A k \in DOMAIN fleet : held[fleet[k].id] = Series(k, ticks + 1).held
        BY <3>1, <3>2 DEF SeriesInv
      <4> QED
        BY <1>1, <3>1, <4>1, <4>2
    <3> QED
      BY <2>2, <2>3, <2>4, <3>1, <3>3 DEF SeriesInv
  <2> QED
    BY <1>1, <2>5, <2>6, <2>7
<1>2. CASE Send
  BY <1>2, SendKeepsSeries
<1>3. ASSUME NEW cmd \in CommandLines, StartSession(cmd) PROVE SeriesInv'
  BY <1>3, StartKeepsSeries
<1>4. ASSUME NEW cmd \in CommandLines, RefuseSession(cmd) PROVE SeriesInv'
  BY <1>1, <1>4 DEF RefuseSession, clock, loopvars, fleetvars, faultvars
<1>5. ASSUME NEW work \in 0..MaxWork, NEW oversleep \in 0..MaxOversleep,
             TickOnce(work, oversleep)
      PROVE  SeriesInv'
  BY <1>5, TickKeepsSeries
<1>6. CASE TickDone \/ SendRaises
  BY <1>1, <1>6 DEF TickDone, SendRaises, clvars, clock, faultvars, fleetvars, runvars
<1>7. CASE LeaveTicking \/ FlushDone \/ RequestHalt \/ UNCHANGED pvars
  BY <1>1, <1>7 DEF LeaveTicking, FlushDone, RequestHalt, pvars, clvars, clock, loopvars,
     fleetvars, faultvars, runvars
<1>8. CASE Deliver \/ Expire \/ KillProducer \/ CloseDone
  BY <1>1, <1>8 DEF Deliver, Expire, KillProducer, CloseDone, clvars, clock, loopvars,
     fleetvars, faultvars, runvars
<1> QED
  BY <1>2, <1>3, <1>4, <1>5, <1>6, <1>7, <1>8 DEF ProducerNext, ProducerStep

\* The tick of a message, counted from its stamp
LEMMA TickFromStamp ==
  ASSUME NEW m, NEW t \in Nat, simStart \in Int, m.stamp = simStart + t * TickSeconds
  PROVE  TickOf(m) = t + 1
<1> DEFINE d == TickSeconds
<1>1. d \in Nat \ {0}
  BY TickSecondsType
<1> HIDE DEF d
<1>2. \A a \in Nat, b \in Nat \ {0} : (a * b) \div b = a
  BY SMT
<1>3. PICK whole \in Int : whole = t * d
  BY <1>1
<1>4. m.stamp - simStart = whole
  BY <1>3 DEF d
<1>5. whole \div d = t
  BY <1>1, <1>2, <1>3
<1> QED
  BY <1>4, <1>5 DEF TickOf, d

\* A message shows the satellite's own sample, and Alone finds it.
LEMMA MessageFacts ==
  ASSUME PaceInv, NamesDiffer, SeriesInv, NEW i \in DOMAIN Published
  PROVE  LET m == Published[i] IN
         \E k \in DOMAIN fleet, t \in Nat :
           /\ m.sat = fleet[k].id /\ m.stamp = simStart + t * TickSeconds
           /\ TickOf(m) = t + 1
           /\ \A f \in DOMAIN file : file[f].sat = m.sat => file[f].form = "text"
           /\ \A c \in Channels : m[c] = Series(k, t + 1).sample[c]
           /\ \A faults, n :
                Alone(faults, m.sat, n)
                  = RunOneSat(faults, m.sat, fleet[k].tle, simStart, TickSeconds, n)
<1> DEFINE m == Published[i]
<1>1. Shown(m) /\ FaultsInv
  BY DEF SeriesInv
<1> HIDE DEF m
<1>2. PICK k \in DOMAIN fleet, t \in Nat :
        /\ m.sat = fleet[k].id /\ m.stamp = simStart + t * TickSeconds
        /\ ~StartRaises(specs, m.sat)
        /\ \A c \in Channels : m[c] = Series(k, t + 1).sample[c]
  BY <1>1 DEF Shown
<1>3. TickOf(m) = t + 1
  BY <1>2, TickFromStamp DEF PaceInv, ClockTypeOK
<1>4. \A f \in DOMAIN file : file[f].sat = m.sat => file[f].form = "text"
  <2>1. /\ DOMAIN specs = DOMAIN file
        /\ \A f \in DOMAIN file : specs[f].sat = file[f].sat /\ specs[f].form = file[f].form
    <3>1. DOMAIN specs = DOMAIN file
      BY <1>1 DEF FaultsInv, Bound
    <3> QED
      BY <1>1, <3>1, BoundFaults
  <2> QED
    BY <1>2, <2>1 DEF StartRaises
<1>5. (CHOOSE j \in DOMAIN fleet : fleet[j].id = m.sat) = k
  BY <1>2 DEF NamesDiffer
<1>6. \A faults, n :
        Alone(faults, m.sat, n)
          = RunOneSat(faults, m.sat, fleet[k].tle, simStart, TickSeconds, n)
  BY <1>5 DEF Alone
<1> QED
  BY <1>2, <1>3, <1>4, <1>6 DEF m

\* The physics at the time of a message, and where its sample differs from them
LEMMA TruthFacts ==
  ASSUME NEW k \in DOMAIN fleet, NEW t \in Nat, NEW sat, sat = fleet[k].id, FaultsInv
  PROVE  LET real == RunOneSat(<<>>, sat, fleet[k].tle, simStart, TickSeconds, t + 1)[t + 1]
             a == Series(k, t + 1)
             Reached(type) == \E j \in 1..Len(specs) :
                specs[j].type = type /\ Active(specs[j], sat, simStart + t * TickSeconds)
         IN  /\ \A c \in {"shadow", "net", "heat"} : a.sample[c] = real[c]
             /\ a.sample.soc # real.soc => Reached("fade")
             /\ a.sample.temp # real.temp => Reached("stuck") \/ Reached("runaway")
<1> DEFINE real == RunOneSat(<<>>, sat, fleet[k].tle, simStart, TickSeconds, t + 1)[t + 1]
           a == Series(k, t + 1)
           b == After(<<>>, sat, fleet[k].tle, simStart, TickSeconds, t + 1)
           Reached(type) == \E j \in 1..Len(specs) :
             specs[j].type = type /\ Active(specs[j], sat, simStart + t * TickSeconds)
<1>0. t + 1 \in Nat /\ t + 1 \in 1..t + 1
  OBVIOUS
<1>1. real = b.sample
  BY <1>0, SamplesDrawn
<1>2. \A c \in Channels : b.sample[c] = b.state[c]
  BY NoFaultNoChange
<1>3. a.state = b.state
  BY <1>0, FaultsLeaveThePhysics DEF Series
<1>4. Known(specs)
  BY BoundFaults
<1>5. /\ \A c \in {"shadow", "net", "heat"} : a.sample[c] = a.state[c]
      /\ a.sample.soc # a.state.soc => Reached("fade")
      /\ a.sample.temp # a.state.temp => Reached("stuck") \/ Reached("runaway")
  <2> DEFINE s == After(specs, sat, fleet[k].tle, simStart, TickSeconds, t + 1)
  <2>1. /\ \A c \in {"shadow", "net", "heat"} : s.sample[c] = s.state[c]
        /\ s.sample.soc # s.state.soc => Reached("fade")
        /\ s.sample.temp # s.state.temp => Reached("stuck") \/ Reached("runaway")
    BY <1>4, SampleFacts
  <2>2. a = s
    BY DEF Series
  <2> QED
    BY <2>1, <2>2
<1> HIDE DEF real, a, b, Reached
<1>6. \A c \in Channels : real[c] = a.state[c]
  BY <1>1, <1>2, <1>3
<1>7. /\ \A c \in {"shadow", "net", "heat"} : a.sample[c] = real[c]
      /\ a.sample.soc # real.soc => Reached("fade")
      /\ a.sample.temp # real.temp => Reached("stuck") \/ Reached("runaway")
  BY <1>5, <1>6 DEF Channels
<1> QED
  BY <1>7 DEF real, a, Reached

\* A channel that deviates has a fault of the file behind it that has started.
LEMMA SeriesDeviateWhereFaulty ==
  ASSUME PaceInv, NamesDiffer, SeriesInv
  PROVE  OnlyFaultyChannelsDeviate
<1> DEFINE Started(m, type) == \E i \in FaultsOf(m.sat, type) : StartOf(file[i]) <= m.stamp
<1>1. FaultsInv
  BY DEF SeriesInv
<1>2. ASSUME NEW i \in DOMAIN Published
      PROVE  LET m == Published[i]
                 real == Truth(m) IN
             /\ m.soc # real.soc => Started(m, "fade")
             /\ m.temp # real.temp => Started(m, "stuck") \/ Started(m, "runaway")
             /\ m.net = real.net /\ m.heat = real.heat
             /\ \A f \in DOMAIN file : file[f].sat = m.sat => file[f].form = "text"
  <2> DEFINE m == Published[i]
  <2>1. PICK k \in DOMAIN fleet, t \in Nat :
          /\ m.sat = fleet[k].id /\ m.stamp = simStart + t * TickSeconds
          /\ TickOf(m) = t + 1
          /\ \A f \in DOMAIN file : file[f].sat = m.sat => file[f].form = "text"
          /\ \A c \in Channels : m[c] = Series(k, t + 1).sample[c]
          /\ \A faults, n :
               Alone(faults, m.sat, n)
                 = RunOneSat(faults, m.sat, fleet[k].tle, simStart, TickSeconds, n)
    BY MessageFacts
  <2> HIDE DEF m
  <2> DEFINE real == RunOneSat(<<>>, m.sat, fleet[k].tle, simStart, TickSeconds, t + 1)[t + 1]
             a == Series(k, t + 1)
             Reached(type) == \E j \in 1..Len(specs) :
               specs[j].type = type /\ Active(specs[j], m.sat, simStart + t * TickSeconds)
  <2>2. Truth(m) = real
    BY <2>1 DEF Truth
  <2>3. /\ \A c \in {"shadow", "net", "heat"} : a.sample[c] = real[c]
        /\ a.sample.soc # real.soc => Reached("fade")
        /\ a.sample.temp # real.temp => Reached("stuck") \/ Reached("runaway")
    BY <1>1, <2>1, TruthFacts
  <2>4. ASSUME NEW type, Reached(type) PROVE Started(m, type)
    <3>1. PICK j \in 1..Len(specs) :
            specs[j].type = type /\ Active(specs[j], m.sat, simStart + t * TickSeconds)
      BY <2>4
    <3>2. /\ j \in DOMAIN file /\ file[j].sat = specs[j].sat /\ file[j].type = specs[j].type
          /\ file[j].form = "text" => specs[j].at = StartOf(file[j])
      <4>1. Len(specs) = Len(file) /\ DOMAIN file = 1..Len(file)
        BY <1>1, BoundFaults DEF FaultsInv
      <4> QED
        BY <1>1, <3>1, <4>1, BoundFaults
    <3>3. specs[j].sat = m.sat /\ simStart + t * TickSeconds >= specs[j].at
      BY <3>1 DEF Active
    <3>4. file[j].form = "text" /\ j \in FaultsOf(m.sat, type)
      BY <2>1, <3>1, <3>2, <3>3 DEF FaultsOf
    <3>5. StartOf(file[j]) <= m.stamp
      BY <2>1, <3>2, <3>3, <3>4
    <3> QED
      BY <3>4, <3>5
  <2> HIDE DEF real, a, Reached, Started
  <2>5. /\ m.soc = a.sample.soc /\ m.temp = a.sample.temp
        /\ m.net = a.sample.net /\ m.heat = a.sample.heat
    BY <2>1 DEF a, Channels
  <2>6. /\ m.soc # real.soc => Started(m, "fade")
        /\ m.temp # real.temp => Started(m, "stuck") \/ Started(m, "runaway")
        /\ m.net = real.net /\ m.heat = real.heat
    BY <2>3, <2>4, <2>5
  <2> QED
    BY <2>1, <2>2, <2>6 DEF m
<1> QED
  BY <1>2 DEF OnlyFaultyChannelsDeviate

\* Two messages of one satellite are of one series.
LEMMA StuckShowsOneValue ==
  ASSUME LedgerInv, PaceInv, NamesDiffer, SeriesInv
  PROVE  StuckReadsOneValue
<1>1. FaultsInv /\ Known(specs) /\ Len(specs) = Len(file) /\ DOMAIN file = 1..Len(file)
  BY BoundFaults DEF SeriesInv, FaultsInv
<1> SUFFICES ASSUME NEW sat \in FleetIds, NEW f \in FaultsOf(sat, "stuck"),
                    \A r \in FaultsOf(sat, "runaway") : r < f,
                    NEW i \in DOMAIN Published, NEW j \in DOMAIN Published,
                    Published[i].sat = sat, Published[j].sat = sat,
                    StartOf(file[f]) <= Published[i].stamp,
                    Published[i].stamp <= Published[j].stamp
             PROVE  Published[i].temp = Published[j].temp
  BY DEF StuckReadsOneValue
<1> DEFINE Facts(m, k, t) ==
             /\ m.sat = fleet[k].id /\ m.stamp = simStart + t * TickSeconds
             /\ \A g \in DOMAIN file : file[g].sat = m.sat => file[g].form = "text"
             /\ \A c \in Channels : m[c] = Series(k, t + 1).sample[c]
<1>2. PICK k \in DOMAIN fleet, t \in Nat : Facts(Published[i], k, t)
  BY MessageFacts
<1>3. PICK l \in DOMAIN fleet, u \in Nat : Facts(Published[j], l, u)
  BY MessageFacts
<1> DEFINE p == Published[i]  q == Published[j]
<1>4. Facts(p, k, t) /\ Facts(q, l, u) /\ p.sat = sat /\ q.sat = sat
      /\ StartOf(file[f]) <= p.stamp /\ p.stamp <= q.stamp
  BY <1>2, <1>3
<1> HIDE DEF p, q
<1>5. l = k
  BY <1>4 DEF NamesDiffer
<1>6. t <= u
  <2>1. simStart \in Int
    BY DEF PaceInv, ClockTypeOK
  <2>2. PICK d \in Nat \ {0} : d = TickSeconds
    BY TickSecondsType
  <2>3. simStart + t * d <= simStart + u * d
    BY <1>4, <2>2
  <2>4. \A a, b \in Nat : a < b => a * d < b * d
    BY <2>2, SMT
  <2>5. PICK td \in Int, ud \in Int : td = t * d /\ ud = u * d
    OBVIOUS
  <2>6. td <= ud
    BY <2>1, <2>3, <2>5
  <2> QED
    BY <2>4, <2>5, <2>6
<1>7. /\ f \in 1..Len(specs) /\ specs[f].type = "stuck" /\ specs[f].sat = sat
      /\ specs[f].at = StartOf(file[f])
      /\ \A r \in 1..Len(specs) : specs[r].type = "runaway" /\ specs[r].sat = sat => r < f
  <2>1. \A g \in DOMAIN file :
          /\ specs[g].sat = file[g].sat /\ specs[g].type = file[g].type
          /\ file[g].form = "text" => specs[g].at = StartOf(file[g])
    BY <1>1, BoundFaults
  <2>2. f \in DOMAIN file /\ file[f].sat = sat /\ file[f].type = "stuck"
    BY DEF FaultsOf
  <2> QED
    BY <1>1, <1>4, <2>1, <2>2 DEF FaultsOf
<1>8. ASSUME NEW v \in Nat, StartOf(file[f]) <= simStart + v * TickSeconds
      PROVE  /\ Series(k, v + 1).held # {}
             /\ Series(k, v + 1).sample.temp = CHOOSE value \in Series(k, v + 1).held : TRUE
  <2>1. Active(specs[f], sat, simStart + v * TickSeconds)
    BY <1>7, <1>8 DEF Active
  <2> DEFINE a == After(specs, sat, fleet[k].tle, simStart, TickSeconds, v + 1)
  <2>2. a.held # {} /\ a.sample.temp = CHOOSE value \in a.held : TRUE
    BY <1>1, <1>7, <2>1, SampleFacts
  <2>3. a = Series(k, v + 1)
    BY <1>4 DEF Series
  <2> QED
    BY <2>2, <2>3
<1>9. /\ StartOf(file[f]) <= simStart + t * TickSeconds
      /\ StartOf(file[f]) <= simStart + u * TickSeconds
  <2>1. q.stamp = simStart + u * TickSeconds /\ p.stamp = simStart + t * TickSeconds
    BY <1>4
  <2>2. simStart \in Int /\ file[f].at \in Int
    BY <1>1 DEF PaceInv, ClockTypeOK, FaultsOf, FaultsInv
  <2>3. StartOf(file[f]) \in Int /\ p.stamp \in Int /\ q.stamp \in Int
    BY <2>1, <2>2, TickSecondsType DEF StartOf
  <2> QED
    BY <1>4, <2>1, <2>3
<1>10. Series(k, u + 1).held = Series(k, t + 1).held
  <2>1. Series(k, t + 1).held # {} /\ t + 1 \in Nat /\ u + 1 \in Nat /\ t + 1 <= u + 1
    BY <1>6, <1>8, <1>9
  <2> QED
    BY <1>1, <2>1, HeldForGood DEF Series
<1>11. p.temp = q.temp
  <2>1. p.temp = Series(k, t + 1).sample.temp /\ q.temp = Series(k, u + 1).sample.temp
    BY <1>4, <1>5 DEF Channels
  <2> QED
    BY <1>8, <1>9, <1>10, <2>1
<1> QED
  BY <1>11 DEF p, q

\* The figure's satellite runs through the session's series.
LEMMA FigureIsTheSeries ==
  ASSUME PaceInv, NamesDiffer, SeriesInv
  PROVE  FigureShowsTheStream
<1>1. FaultsInv /\ Known(specs)
  BY BoundFaults DEF SeriesInv
<1>2. ASSUME NEW i \in DOMAIN Published
      PROVE  LET n     == TickOf(Published[i])
                 drawn == Alone(Bound(file, simStart), Published[i].sat, n)
                 spans == EclipseSpans([k \in DOMAIN drawn |-> drawn[k].shadow])
             IN  /\ \A channel \in DOMAIN drawn[n] : Published[i][channel] = drawn[n][channel]
                 /\ \A k \in 1..n - 1 :
                      drawn[k].shadow <=> \E s \in spans : s[1] <= k /\ k < s[2]
  <2> DEFINE m == Published[i]
             n == TickOf(m)
             drawn == Alone(Bound(file, simStart), m.sat, n)
             dark == [j \in DOMAIN drawn |-> drawn[j].shadow]
  <2>1. PICK k \in DOMAIN fleet, t \in Nat :
          /\ m.sat = fleet[k].id /\ TickOf(m) = t + 1
          /\ \A c \in Channels : m[c] = Series(k, t + 1).sample[c]
          /\ \A faults, l :
               Alone(faults, m.sat, l)
                 = RunOneSat(faults, m.sat, fleet[k].tle, simStart, TickSeconds, l)
    BY MessageFacts
  <2> HIDE DEF m
  <2>2. n \in Nat /\ n = t + 1 /\ n \in 1..n
    BY <2>1
  <2>3. drawn = RunOneSat(specs, m.sat, fleet[k].tle, simStart, TickSeconds, n)
    BY <1>1, <2>1 DEF FaultsInv
  <2>4. DOMAIN drawn = 1..n /\ drawn[n] = Series(k, n).sample
    BY <2>1, <2>2, <2>3, SamplesDrawn DEF Series
  <2>5. DOMAIN drawn[n] = Channels
    <3> DEFINE a == After(specs, fleet[k].id, fleet[k].tle, simStart, TickSeconds, t + 1)
    <3>1. DOMAIN a.sample = Channels
      BY <1>1, SampleFacts
    <3>2. a = Series(k, n)
      BY <2>2 DEF Series
    <3> HIDE DEF a, n, drawn
    <3> QED
      BY <2>4, <3>1, <3>2
  <2>6. \A channel \in DOMAIN drawn[n] : m[channel] = drawn[n][channel]
    <3> HIDE DEF drawn, n
    <3> QED
      BY <2>1, <2>2, <2>4, <2>5
  <2> HIDE DEF n, drawn
  <2>7. Len(dark) = n /\ \A j \in 1..n : dark[j] = drawn[j].shadow
    <3>1. dark = [j \in 1..n |-> drawn[j].shadow]
      BY <2>4
    <3> HIDE DEF dark
    <3> QED
      BY <2>2, <3>1
  <2> HIDE DEF dark
  <2>8. ASSUME NEW j \in 1..n - 1
        PROVE  drawn[j].shadow <=> \E s \in EclipseSpans(dark) : s[1] <= j /\ j < s[2]
    <3>1. Len(dark) \in Nat /\ j \in 1..Len(dark) - 1 /\ j \in 1..n
      BY <2>2, <2>7
    <3>2. dark[j] <=> \E s \in EclipseSpans(dark) : s[1] <= j /\ j < s[2]
      BY <3>1, SpansAreEclipses
    <3> QED
      BY <2>7, <3>1, <3>2
  <2> QED
    BY <2>6, <2>8 DEF m, n, drawn, dark
<1> QED
  BY <1>2 DEF FigureShowsTheStream

\* All that is kept of a session and its series
SessionInv == LedgerInv /\ PaceInv /\ NamesDiffer /\ SeriesInv

LEMMA SessionInvariant ==
  ASSUME DistinctNames
  PROVE  ProducerSpec => []SessionInv
<1>1. LedgerInv /\ PaceInv /\ NamesDiffer /\ [ProducerNext]_pvars => NamesDiffer'
  BY NamesStep
<1>2. LedgerInv /\ PaceInv /\ NamesDiffer /\ SeriesInv /\ [ProducerNext]_pvars => SeriesInv'
  BY LedgerStep, SeriesStep
<1>3. ProducerSpec => [](LedgerInv /\ PaceInv /\ NamesDiffer /\ SeriesInv)
  BY LedgerInit, LedgerStep, PaceInit, PaceStep, NamesInit, SeriesInit, <1>1, <1>2, PTL
  DEF ProducerSpec
<1> QED
  BY <1>3, PTL DEF SessionInv

\* OnlyFaultyChannelsDeviate for every constellation whose satellites have a name
\* each, every fault file, every pattern of eclipses, all parameters of the
\* physics and every client.
THEOREM FaultsStayInTheirChannels ==
  ASSUME DistinctNames
  PROVE  ProducerSpec => []OnlyFaultyChannelsDeviate
<1>1. SessionInv => OnlyFaultyChannelsDeviate
  BY SeriesDeviateWhereFaulty DEF SessionInv
<1> QED
  BY <1>1, SessionInvariant, PTL

\* StuckReadsOneValue for the same: what a sensor captured is kept until the
\* session ends.
THEOREM StuckSensorsStayStuck ==
  ASSUME DistinctNames
  PROVE  ProducerSpec => []StuckReadsOneValue
<1>1. SessionInv => StuckReadsOneValue
  BY StuckShowsOneValue DEF SessionInv
<1> QED
  BY <1>1, SessionInvariant, PTL

\* FigureShowsTheStream for the same: the scripts, which drive one satellite by
\* itself, draw what the producer streams of it.
THEOREM FiguresMatchTheStream ==
  ASSUME DistinctNames
  PROVE  ProducerSpec => []FigureShowsTheStream
<1>1. SessionInv => FigureShowsTheStream
  BY FigureIsTheSeries DEF SessionInv
<1> QED
  BY <1>1, SessionInvariant, PTL

-----------------------------------------------------------------------------
(* Faults do not heal.                                                     *)

\* The entries of the fault files that load make their channel worse, never better.
Degrading ==
  \A cmd \in CommandLines : Runs(cmd) => \A i \in DOMAIN cmd.faults :
    LET entry == cmd.faults[i] IN
    /\ entry.rate \in Nat /\ entry.limit \in Nat
    /\ entry.type = "fade" => entry.limit <= 100

\* The unit of charge is so small that no satellite's fades leave a rest.
WholeCharges ==
  \A cmd \in CommandLines : Runs(cmd) =>
    LET chosen == Chosen(cmd.tle, cmd.limit) IN
    \A k \in DOMAIN chosen : \E g \in Grains(cmd.faults, chosen[k].name) :
      \A charge \in {InitialSoc, MinSoc, MaxSoc,
                     NetPower(TRUE) * TickSeconds, NetPower(FALSE) * TickSeconds} :
        Multiple(charge, g[0])

\* The command line that fleet and faults of a session are of
Commanded ==
  fleet # <<>> =>
    \E cmd \in CommandLines :
      LET chosen == Chosen(cmd.tle, cmd.limit) IN
      /\ Runs(cmd) /\ file = FromYaml(cmd.faults)
      /\ \A k \in DOMAIN fleet : k \in DOMAIN chosen /\ fleet[k].id = chosen[k].name

LEMMA CommandedInit == ProducerInit => Commanded
  BY DEF ProducerInit, Commanded

LEMMA CommandedStep ==
  ASSUME PaceInv, Commanded, [ProducerNext]_pvars
  PROVE  Commanded'
<1>1. UNCHANGED <<fleet, file>> => Commanded'
  BY DEF Commanded
<1>2. ASSUME NEW cmd \in CommandLines, StartSession(cmd) PROVE Commanded'
  <2> DEFINE chosen == Chosen(cmd.tle, cmd.limit)
  <2>1. fleet' = [i \in DOMAIN chosen |->
                   [id |-> chosen[i].name, tle |-> chosen[i].tle,
                    soc |-> InitialSoc, temp |-> InitialTemp]]
    BY <1>2 DEF StartSession, Build
  <2>2. file' = FromYaml(cmd.faults) /\ Runs(cmd)
    BY <1>2 DEF StartSession
  <2> HIDE DEF chosen
  <2>3. \A k \in DOMAIN fleet' : k \in DOMAIN chosen /\ fleet'[k].id = chosen[k].name
    BY <2>1
  <2> QED
    BY <2>2, <2>3 DEF Commanded, chosen
<1>3. ASSUME NEW work \in 0..MaxWork, NEW oversleep \in 0..MaxOversleep,
             TickOnce(work, oversleep)
      PROVE  Commanded'
  <2>1. FleetTick(work, oversleep) /\ file' = file
    BY <1>3 DEF TickOnce, runvars
  <2>2. DOMAIN fleet' = DOMAIN fleet /\ \A k \in DOMAIN fleet : fleet'[k].id = fleet[k].id
    BY <2>1, TickKeepsNames
  <2>3. fleet = <<>> => fleet' = <<>>
    <3>1. fleet' = [i \in DOMAIN fleet |-> fleet'[i]]
      BY <2>1, <2>2 DEF FleetTick
    <3> QED
      BY <2>2, <3>1
  <2> QED
    BY <2>1, <2>2, <2>3 DEF Commanded
<1>4. ASSUME NEW cmd \in CommandLines, RefuseSession(cmd) PROVE UNCHANGED <<fleet, file>>
  BY <1>4 DEF RefuseSession, loopvars, fleetvars
<1>5. CASE Send \/ SendRaises \/ TickDone
  BY <1>1, <1>5 DEF Send, SendRaises, TickDone, fleetvars, runvars
<1>6. CASE \/ LeaveTicking \/ FlushDone \/ CloseDone
           \/ RequestHalt \/ Deliver \/ Expire \/ KillProducer \/ UNCHANGED pvars
  BY <1>1, <1>6 DEF LeaveTicking, FlushDone, CloseDone, RequestHalt, Deliver, Expire,
     KillProducer, pvars, loopvars, fleetvars, runvars
<1> QED
  BY <1>1, <1>2, <1>3, <1>4, <1>5, <1>6 DEF ProducerNext, ProducerStep

\* A satellite by itself stays within its envelope, too, and its charge in whole
\* units of whatever all steps and limits are whole units of.
LEMMA StatesInside ==
  ASSUME NEW faults, NEW sat, NEW tle, NEW start, NEW dt \in Nat, Stable(dt), NEW n \in Nat
  PROVE  LET s == After(faults, sat, tle, start, dt, n).state
         IN  s.soc \in MinSoc..MaxSoc /\ s.temp \in Coldest..Hottest
<1> DEFINE A(i) == After(faults, sat, tle, start, dt, i)
           dark(i) == InShadow(tle, start + (i - 1) * dt)
           T == {i \in Nat : A(i).state.soc \in MinSoc..MaxSoc /\ A(i).state.temp \in Coldest..Hottest}
<1>1. \A i \in Nat : /\ A(i + 1).state.soc = NextSoc(A(i).state.soc, dark(i + 1), dt)
                     /\ A(i + 1).state.temp = NextTemp(A(i).state.temp, dark(i + 1), dt)
  <2> SUFFICES ASSUME NEW i \in Nat
               PROVE  /\ A(i + 1).state.soc = NextSoc(A(i).state.soc, dark(i + 1), dt)
                      /\ A(i + 1).state.temp = NextTemp(A(i).state.temp, dark(i + 1), dt)
    OBVIOUS
  <2>1. A(i + 1) = Lived(faults, sat, tle, start, dt, i + 1, A(i))
    BY AfterNext, Zenon
  <2> HIDE DEF A
  <2> QED
    BY <2>1 DEF Lived, Stepped
<1>2. A(0).state = InitialState
  BY AfterNext
<1> HIDE DEF A, dark
<1>3. 0 \in T
  BY <1>2, EpsAssumption, ThermalAssumption DEF EpsParams, ThermalParams, InitialState
<1>4. ASSUME NEW i \in Nat, i \in T PROVE i + 1 \in T
  <2>1. A(i).state.soc \in MinSoc..MaxSoc /\ A(i).state.temp \in Coldest..Hottest
    BY <1>4
  <2>2. A(i).state.soc \in Int
    BY <2>1
  <2>3. A(i + 1).state.soc \in MinSoc..MaxSoc
    BY <1>1, <2>2, ClippedInside
  <2>4. A(i + 1).state.temp \in Coldest..Hottest
    BY <1>1, <2>1, StepInside
  <2> QED
    BY <2>3, <2>4
<1>5. Nat \subseteq T
  <2> HIDE DEF T
  <2> QED
    BY <1>3, <1>4, ByCounting
<1> QED
  BY <1>5 DEF A

LEMMA ChargeInUnits ==
  ASSUME NEW g \in Nat \ {0}, NEW dt \in Nat,
         Multiple(InitialSoc, g), Multiple(MinSoc, g), Multiple(MaxSoc, g),
         Multiple(NetPower(TRUE) * dt, g), Multiple(NetPower(FALSE) * dt, g),
         NEW faults, NEW sat, NEW tle, NEW start, NEW n \in Nat
  PROVE  Multiple(After(faults, sat, tle, start, dt, n).state.soc, g)
<1> DEFINE A(i) == After(faults, sat, tle, start, dt, i)
           dark(i) == InShadow(tle, start + (i - 1) * dt)
           T == {i \in Nat : Multiple(A(i).state.soc, g)}
<1>1. \A i \in Nat : A(i + 1).state.soc = NextSoc(A(i).state.soc, dark(i + 1), dt)
  <2> SUFFICES ASSUME NEW i \in Nat
               PROVE  A(i + 1).state.soc = NextSoc(A(i).state.soc, dark(i + 1), dt)
    OBVIOUS
  <2>1. After(faults, sat, tle, start, dt, i + 1)
          = Lived(faults, sat, tle, start, dt, i + 1, After(faults, sat, tle, start, dt, i))
    BY AfterNext
  <2>2. A(i + 1) = Lived(faults, sat, tle, start, dt, i + 1, A(i))
    BY <2>1
  <2> HIDE DEF A
  <2> QED
    BY <2>2 DEF Lived, Stepped
<1>2. A(0).state = InitialState
  BY AfterNext
<1> HIDE DEF A, dark
<1>3. 0 \in T
  BY <1>2 DEF InitialState
<1>4. ASSUME NEW soc, Multiple(soc, g), NEW shadow PROVE Multiple(NextSoc(soc, shadow, dt), g)
  <2>1. Multiple(NetPower(shadow) * dt, g)
    <3>1. NetPower(shadow) = NetPower(TRUE) \/ NetPower(shadow) = NetPower(FALSE)
      BY DEF NetPower
    <3> QED
      BY <3>1
  <2>2. PICK p \in Int, q \in Int : soc = p * g /\ NetPower(shadow) * dt = q * g
    BY <1>4, <2>1 DEF Multiple
  <2>3. soc + NetPower(shadow) * dt = (p + q) * g /\ p + q \in Int
    BY <2>2
  <2>4. Multiple(soc + NetPower(shadow) * dt, g)
    BY <2>3 DEF Multiple
  <2>5. \A x : Multiple(x, g) => Multiple(Clip(x), g)
    BY DEF Clip
  <2> QED
    BY <2>4, <2>5 DEF NextSoc
<1>5. \A i \in Nat : i \in T => i + 1 \in T
  BY <1>1, <1>4
<1>6. Nat \subseteq T
  <2> HIDE DEF T
  <2> QED
    BY <1>3, <1>5, ByCounting
<1> QED
  BY <1>6 DEF A

\* The sample of a tick is its state with the faults laid over it.
LEMMA SampleIsApplied ==
  ASSUME NEW faults, NEW sat, NEW tle, NEW start, NEW dt, NEW n \in Nat
  PROVE  LET a == After(faults, sat, tle, start, dt, n + 1)
             shown == Apply(faults, sat, start + n * dt, a.state,
                            After(faults, sat, tle, start, dt, n).held)
         IN  a.sample.soc = shown.soc /\ a.sample.temp = shown.temp
<1> DEFINE a == After(faults, sat, tle, start, dt, n + 1)
           before == After(faults, sat, tle, start, dt, n)
           at == start + n * dt
           tick == Stepped(before.state, InShadow(tle, at), dt)
           shown == Apply(faults, sat, at, tick, before.held)
<1>1. a = [state |-> tick, held |-> shown.held,
           sample |-> [tick EXCEPT !.soc = shown.soc, !.temp = shown.temp]]
  <2>1. a = Lived(faults, sat, tle, start, dt, n + 1, before)
    BY AfterNext, Zenon
  <2>2. (n + 1) - 1 = n
    OBVIOUS
  <2> HIDE DEF a, before
  <2> QED
    BY <2>1, <2>2 DEF Lived
<1>2. DOMAIN tick = Channels
  BY DEF Stepped, Channels
<1>3. shown = Apply(faults, sat, at, tick, before.held)
  OBVIOUS
<1> HIDE DEF a, tick, shown, before, at
<1>4. a.state = tick /\ a.sample.soc = shown.soc /\ a.sample.temp = shown.temp
  BY <1>1, <1>2 DEF Channels
<1> QED
  BY <1>3, <1>4 DEF a, before, at

\* What the physics come to at the time of a message is the state of its series.
LEMMA TruthIsTheState ==
  ASSUME NEW m, NEW k \in DOMAIN fleet, NEW t \in Nat, TickOf(m) = t + 1, m.sat = fleet[k].id,
         \A faults, n :
           Alone(faults, m.sat, n)
             = RunOneSat(faults, m.sat, fleet[k].tle, simStart, TickSeconds, n)
  PROVE  \A c \in Channels : Truth(m)[c] = Series(k, t + 1).state[c]
<1> DEFINE b == After(<<>>, m.sat, fleet[k].tle, simStart, TickSeconds, t + 1)
<1>0. t + 1 \in Nat /\ t + 1 \in 1..t + 1
  OBVIOUS
<1>1. Truth(m) = b.sample
  <2>1. Truth(m) = RunOneSat(<<>>, m.sat, fleet[k].tle, simStart, TickSeconds, t + 1)[t + 1]
    BY DEF Truth
  <2> QED
    BY <1>0, <2>1, SamplesDrawn
<1>2. \A c \in Channels : b.sample[c] = b.state[c]
  BY NoFaultNoChange
<1>3. Series(k, t + 1).state = b.state
  BY <1>0, FaultsLeaveThePhysics DEF Series
<1> HIDE DEF b
<1> QED
  BY <1>1, <1>2, <1>3

\* The faults of a session are those of its command line.
LEMMA SessionFaults ==
  ASSUME Degrading, WholeCharges, Commanded, FaultsInv, simStart \in Int,
         NEW k \in DOMAIN fleet, fleet # <<>>,
         \A i \in DOMAIN file : file[i].sat = fleet[k].id => file[i].form = "text"
  PROVE  /\ Worsening(specs, fleet[k].id)
         /\ \A i \in DOMAIN file : specs[i].limit = file[i].limit
         /\ \E g \in Grains(specs, fleet[k].id) :
              \A charge \in {InitialSoc, MinSoc, MaxSoc,
                             NetPower(TRUE) * TickSeconds, NetPower(FALSE) * TickSeconds} :
                Multiple(charge, g[0])
<1> DEFINE sat == fleet[k].id
<1>1. PICK cmd \in CommandLines :
        LET chosen == Chosen(cmd.tle, cmd.limit) IN
        /\ Runs(cmd) /\ file = FromYaml(cmd.faults)
        /\ k \in DOMAIN chosen /\ sat = chosen[k].name
  BY DEF Commanded
<1> DEFINE faults == cmd.faults
<1>2. Len(faults) \in Nat /\ DOMAIN faults = 1..Len(faults)
  BY ProducerAssumption
<1>3. \A i \in DOMAIN faults : /\ faults[i].rate \in Nat /\ faults[i].limit \in Nat
                               /\ faults[i].type = "fade" => faults[i].limit <= 100
  BY <1>1 DEF Degrading
<1>4. PICK g \in Grains(faults, sat) :
        \A charge \in {InitialSoc, MinSoc, MaxSoc,
                       NetPower(TRUE) * TickSeconds, NetPower(FALSE) * TickSeconds} :
          Multiple(charge, g[0])
  BY <1>1 DEF WholeCharges
<1>5. /\ DOMAIN file = DOMAIN faults
      /\ \A i \in DOMAIN faults : /\ file[i].sat = faults[i].sat /\ file[i].type = faults[i].type
                                  /\ file[i].rate = faults[i].rate /\ file[i].limit = faults[i].limit
  BY <1>1 DEF FromYaml
<1> HIDE DEF faults
<1>6. /\ Len(file) \in Nat /\ DOMAIN file = 1..Len(file)
      /\ \A i \in DOMAIN file :
           /\ DOMAIN file[i] = {"sat", "type", "form", "at", "relative", "rate", "limit"}
           /\ file[i].type \in FaultTypes /\ file[i].at \in Int
  BY DEF FaultsInv
<1>7. /\ Len(specs) = Len(file)
      /\ \A i \in DOMAIN file :
           /\ specs[i].sat = file[i].sat /\ specs[i].type = file[i].type
           /\ file[i].form = "text" => specs[i].at = StartOf(file[i])
  BY BoundFaults
<1>8. \A i \in DOMAIN file : specs[i].rate = file[i].rate /\ specs[i].limit = file[i].limit
  <2> DEFINE b(i) == IF file[i].relative /\ file[i].form = "text"
                     THEN [file[i] EXCEPT !.at = simStart + @, !.relative = FALSE]
                     ELSE file[i]
  <2>1. specs = [i \in DOMAIN file |-> b(i)]
    BY DEF FaultsInv, Bound
  <2>2. ASSUME NEW i \in DOMAIN file
        PROVE  b(i).rate = file[i].rate /\ b(i).limit = file[i].limit
    BY <1>6
  <2> HIDE DEF b
  <2> QED
    BY <2>1, <2>2
<1>9. \A i \in DOMAIN file : StartOf(file[i]) \in Int
  BY <1>6 DEF StartOf
<1>10. Len(file) = Len(faults)
  BY <1>2, <1>5, <1>6
<1>11. Worsening(specs, sat)
  <2> SUFFICES ASSUME NEW i \in 1..Len(specs), specs[i].sat = sat
               PROVE  /\ specs[i].at \in Int /\ specs[i].rate \in Nat /\ specs[i].limit \in Nat
                      /\ specs[i].type = "fade" => specs[i].limit <= 100
    BY DEF Worsening
  <2>1. i \in DOMAIN file /\ i \in DOMAIN faults
    BY <1>2, <1>5, <1>6, <1>7
  <2>2. file[i].sat = sat /\ file[i].form = "text"
    BY <1>7, <2>1
  <2>3. specs[i].at \in Int
    BY <1>7, <1>9, <2>1, <2>2
  <2>4. specs[i].rate = faults[i].rate /\ specs[i].limit = faults[i].limit
        /\ specs[i].type = faults[i].type
    BY <1>5, <1>7, <1>8, <2>1
  <2>5. /\ faults[i].rate \in Nat /\ faults[i].limit \in Nat
        /\ faults[i].type = "fade" => faults[i].limit <= 100
    BY <1>3, <2>1
  <2> QED
    BY <2>3, <2>4, <2>5
<1>12. g \in Grains(specs, sat)
  <2>1. Len(specs) = Len(faults)
    BY <1>7, <1>10
  <2>2. \A i \in 1..Len(specs) : specs[i].sat = faults[i].sat /\ specs[i].type = faults[i].type
    BY <1>2, <1>5, <1>7, <2>1
  <2> HIDE DEF sat
  <2>3. /\ g \in [0..Len(faults) -> Nat \ {0}]
        /\ \A j \in 1..Len(faults) :
             g[j - 1] = IF faults[j].sat = sat /\ faults[j].type = "fade" THEN 100 * g[j] ELSE g[j]
    BY DEF Grains
  <2>4. /\ g \in [0..Len(specs) -> Nat \ {0}]
        /\ \A j \in 1..Len(specs) :
             g[j - 1] = IF specs[j].sat = sat /\ specs[j].type = "fade" THEN 100 * g[j] ELSE g[j]
    BY <2>1, <2>2, <2>3
  <2> QED
    BY <2>4 DEF Grains
<1> QED
  BY <1>4, <1>8, <1>11, <1>12

LEMMA LaterMessagesAreWorse ==
  ASSUME Degrading, WholeCharges, MinSoc \in Nat, Stable(TickSeconds),
         PaceInv, NamesDiffer, SeriesInv, Commanded, OrderWithinSession
  PROVE  FaultsNeverHeal
<1> SUFFICES ASSUME NEW i \in DOMAIN Published, NEW j \in DOMAIN Published,
                    i < j, Published[i].sat = Published[j].sat
             PROVE  LET before == Truth(Published[i])  after == Truth(Published[j]) IN
                    /\ Published[j].soc * before.soc <= Published[i].soc * after.soc
                    /\ \A f \in FaultsOf(Published[i].sat, "fade") :
                         FaultsOf(Published[i].sat, "fade") = {f} =>
                           file[f].limit * after.soc <= 100 * Published[j].soc
                    /\ FaultsOf(Published[i].sat, "stuck") = {} =>
                         /\ Published[i].temp - before.temp <= Published[j].temp - after.temp
                         /\ \A f \in FaultsOf(Published[i].sat, "runaway") :
                              FaultsOf(Published[i].sat, "runaway") = {f} =>
                                Published[j].temp - after.temp <= file[f].limit
  BY DEF FaultsNeverHeal
<1> DEFINE m == Published[i]  w == Published[j]
<1>1. m.stamp < w.stamp
  BY DEF OrderWithinSession
<1>2. FaultsInv /\ simStart \in Int /\ TickSeconds \in Nat \ {0}
  BY TickSecondsType DEF SeriesInv, PaceInv, ClockTypeOK
<1>3. PICK k \in DOMAIN fleet, t \in Nat :
        /\ m.sat = fleet[k].id /\ m.stamp = simStart + t * TickSeconds
        /\ TickOf(m) = t + 1
        /\ \A f \in DOMAIN file : file[f].sat = m.sat => file[f].form = "text"
        /\ \A c \in Channels : m[c] = Series(k, t + 1).sample[c]
        /\ \A faults, n :
             Alone(faults, m.sat, n)
               = RunOneSat(faults, m.sat, fleet[k].tle, simStart, TickSeconds, n)
  BY MessageFacts
<1>4. PICK l \in DOMAIN fleet, u \in Nat :
        /\ w.sat = fleet[l].id /\ w.stamp = simStart + u * TickSeconds
        /\ TickOf(w) = u + 1
        /\ \A c \in Channels : w[c] = Series(l, u + 1).sample[c]
        /\ \A faults, n :
             Alone(faults, w.sat, n)
               = RunOneSat(faults, w.sat, fleet[l].tle, simStart, TickSeconds, n)
  BY MessageFacts
<1>13. m.sat = w.sat
  OBVIOUS
<1> HIDE DEF m, w
<1>5. l = k
  BY <1>3, <1>4, <1>13 DEF NamesDiffer
<1> DEFINE sat == fleet[k].id
           p == simStart + t * TickSeconds  q == simStart + u * TickSeconds
           now1 == Series(k, t + 1).state  now2 == Series(k, u + 1).state
           was1 == Series(k, t).held  was2 == Series(k, u).held
           first == Apply(specs, sat, p, now1, was1)
           later == Apply(specs, sat, q, now2, was2)
<1>6. p \in Int /\ q \in Int /\ p <= q
  <2>1. PICK x \in Int, y \in Int : x = t * TickSeconds /\ y = u * TickSeconds
    BY <1>2
  <2> QED
    BY <1>1, <1>2, <1>3, <1>4, <2>1
<1>7. /\ m.soc = first.soc /\ m.temp = first.temp
      /\ w.soc = later.soc /\ w.temp = later.temp
  <2>1. /\ Series(k, t + 1).sample.soc = first.soc /\ Series(k, t + 1).sample.temp = first.temp
        /\ Series(k, u + 1).sample.soc = later.soc /\ Series(k, u + 1).sample.temp = later.temp
    BY SampleIsApplied DEF Series
  <2> QED
    BY <1>3, <1>4, <1>5, <2>1 DEF Channels
<1>8. /\ Truth(m).soc = now1.soc /\ Truth(m).temp = now1.temp
      /\ Truth(w).soc = now2.soc /\ Truth(w).temp = now2.temp
  <2>1. \A c \in Channels : Truth(m)[c] = now1[c]
    BY <1>3, TruthIsTheState
  <2>2. \A c \in Channels : Truth(w)[c] = now2[c]
    BY <1>4, <1>5, TruthIsTheState
  <2> HIDE DEF now1, now2
  <2> QED
    BY <2>1, <2>2 DEF Channels
<1>9. /\ now1.soc \in Nat /\ now1.temp \in Int /\ now2.soc \in Nat /\ now2.temp \in Int
  <2>1. /\ now1.soc \in MinSoc..MaxSoc /\ now1.temp \in Coldest..Hottest
        /\ now2.soc \in MinSoc..MaxSoc /\ now2.temp \in Coldest..Hottest
    BY <1>2, StatesInside DEF Series
  <2> HIDE DEF now1, now2
  <2> QED
    BY <2>1, EpsAssumption, ThermalAssumption DEF EpsParams, ThermalParams
<1>10. /\ Worsening(specs, sat)
       /\ \A f \in DOMAIN file : specs[f].limit = file[f].limit
       /\ \E g \in Grains(specs, sat) :
            \A charge \in {InitialSoc, MinSoc, MaxSoc,
                           NetPower(TRUE) * TickSeconds, NetPower(FALSE) * TickSeconds} :
              Multiple(charge, g[0])
  <2>1. fleet # <<>>
    OBVIOUS
  <2> QED
    BY <1>2, <1>3, <2>1, SessionFaults
<1>11. Known(specs) /\ Len(specs) = Len(file) /\ DOMAIN file = 1..Len(file)
       /\ \A f \in DOMAIN file : specs[f].sat = file[f].sat /\ specs[f].type = file[f].type
  BY <1>2, BoundFaults DEF FaultsInv
<1>12. PICK g \in Grains(specs, sat) : Multiple(now1.soc, g[0]) /\ Multiple(now2.soc, g[0])
  <2>1. PICK g \in Grains(specs, sat) :
            \A charge \in {InitialSoc, MinSoc, MaxSoc,
                           NetPower(TRUE) * TickSeconds, NetPower(FALSE) * TickSeconds} :
              Multiple(charge, g[0])
    BY <1>10
  <2>2. g[0] \in Nat \ {0}
    BY <1>11 DEF Grains, Known
  <2> DEFINE unit == g[0]
  <2>4. /\ unit \in Nat \ {0} /\ TickSeconds \in Nat
        /\ Multiple(InitialSoc, unit) /\ Multiple(MinSoc, unit) /\ Multiple(MaxSoc, unit)
        /\ Multiple(NetPower(TRUE) * TickSeconds, unit)
        /\ Multiple(NetPower(FALSE) * TickSeconds, unit)
    BY <1>2, <2>1, <2>2
  <2> HIDE DEF unit
  <2>5. \A n \in Nat : Multiple(Series(k, n).state.soc, unit)
    <3> SUFFICES ASSUME NEW n \in Nat PROVE Multiple(Series(k, n).state.soc, unit)
      OBVIOUS
    <3>1. Multiple(After(specs, fleet[k].id, fleet[k].tle, simStart, TickSeconds, n).state.soc, unit)
      BY <2>4, ChargeInUnits
    <3> QED
      BY <3>1 DEF Series
  <2>3. Multiple(now1.soc, g[0]) /\ Multiple(now2.soc, g[0])
    <3>1. t + 1 \in Nat /\ u + 1 \in Nat
      OBVIOUS
    <3> QED
      BY <2>5, <3>1 DEF unit
  <2> QED
    BY <2>3
<1> HIDE DEF sat, p, q, now1, now2, was1, was2
<1>14. later.soc * now1.soc <= first.soc * now2.soc
  BY <1>6, <1>9, <1>10, <1>11, <1>12, LaterIsWorse
<1>15. ASSUME FaultsOf(sat, "stuck") = {}
       PROVE  /\ first.temp - now1.temp <= later.temp - now2.temp
              /\ \A f \in FaultsOf(sat, "runaway") :
                   FaultsOf(sat, "runaway") = {f} => later.temp - now2.temp <= file[f].limit
  <2>1. \A f \in 1..Len(specs) : ~(specs[f].sat = sat /\ specs[f].type = "stuck")
    BY <1>11, <1>15 DEF FaultsOf
  <2>2. /\ first.temp - now1.temp <= later.temp - now2.temp
        /\ \A f \in 1..Len(specs) :
             /\ specs[f].sat = sat
             /\ \A n \in 1..Len(specs) : specs[n].sat = sat /\ specs[n].type = "runaway" => n = f
             => later.temp - now2.temp <= specs[f].limit
    BY <1>6, <1>9, <1>10, <1>11, <2>1, LaterIsHotter
  <2>3. ASSUME NEW f \in FaultsOf(sat, "runaway"), FaultsOf(sat, "runaway") = {f}
        PROVE  later.temp - now2.temp <= file[f].limit
    <3>1. f \in 1..Len(specs) /\ specs[f].sat = sat /\ specs[f].limit = file[f].limit
      BY <1>10, <1>11 DEF FaultsOf
    <3>2. \A n \in 1..Len(specs) : specs[n].sat = sat /\ specs[n].type = "runaway" => n = f
      BY <1>11, <2>3 DEF FaultsOf
    <3> HIDE DEF first, later
    <3> QED
      BY <2>2, <3>1, <3>2
  <2> QED
    BY <2>2, <2>3
<1>17. ASSUME NEW f \in FaultsOf(sat, "fade"), FaultsOf(sat, "fade") = {f}
       PROVE  file[f].limit * now2.soc <= 100 * later.soc
  <2>1. f \in 1..Len(specs) /\ specs[f].sat = sat /\ specs[f].type = "fade"
        /\ specs[f].limit = file[f].limit
    BY <1>10, <1>11 DEF FaultsOf
  <2>2. \A n \in 1..Len(specs) : specs[n].sat = sat /\ specs[n].type = "fade" => n = f
    BY <1>11, <1>17 DEF FaultsOf
  <2>3. specs[f].limit * now2.soc <= 100 * Apply(specs, sat, q, now2, was2).soc
    BY <1>6, <1>9, <1>10, <1>11, <1>12, <2>1, <2>2, FadeHasAFloor
  <2> QED
    BY <2>1, <2>3
<1> HIDE DEF first, later
<1>16. m.sat = sat
  BY <1>3 DEF sat
<1> QED
  BY <1>7, <1>8, <1>14, <1>15, <1>16, <1>17 DEF m, w

\* FaultsNeverHeal for every fault file whose entries make things worse, every
\* list of satellites with a name each, all stable physics whose charge is not
\* negative, in units small enough for the fades, and every client.
THEOREM FaultsOnlyWorsen ==
  ASSUME DistinctNames, Degrading, WholeCharges, MinSoc \in Nat, Stable(TickSeconds)
  PROVE  ProducerSpec => []FaultsNeverHeal
<1>1. SessionInv /\ Commanded /\ OrderWithinSession => FaultsNeverHeal
  BY LaterMessagesAreWorse DEF SessionInv
<1>2. SessionInv /\ Commanded /\ [ProducerNext]_pvars => Commanded'
  BY CommandedStep DEF SessionInv
<1> QED
  BY CommandedInit, SessionInvariant, SessionsKeepOrder, <1>1, <1>2, PTL DEF ProducerSpec

-----------------------------------------------------------------------------
(* Samples are numbers.                                                    *)

\* Faults of whole numbers
Numeric(faults) ==
  /\ Known(faults)
  /\ \A i \in 1..Len(faults) : faults[i].at \in Int /\ faults[i].rate \in Int /\ faults[i].limit \in Int

LEMMA LayersAreNumbers ==
  ASSUME NEW faults, Numeric(faults), NEW sat, NEW t \in Int, NEW nominal,
         nominal.soc \in Int, nominal.temp \in Int, NEW was \in SUBSET Int
  PROVE  LET shown == Apply(faults, sat, t, nominal, was)
         IN  shown.soc \in Int /\ shown.temp \in Int /\ shown.held \subseteq Int
<1> DEFINE L == Layers(faults, sat, t, nominal, was)
           Fine(r) == DOMAIN r = Reading /\ r.soc \in Int /\ r.temp \in Int /\ r.held \subseteq Int
           T == {i \in Nat : i <= Len(faults) => Fine(L[i])}
<1>0. Len(faults) \in Nat
  BY DEF Numeric, Known
<1>1. /\ L[0] = [soc |-> nominal.soc, temp |-> nominal.temp, held |-> was]
      /\ \A i \in 1..Len(faults) :
           L[i] = IF Active(faults[i], sat, t) THEN Layered(L[i - 1], faults[i], t) ELSE L[i - 1]
  BY <1>0, LayersUnfold
<1> HIDE DEF L
<1>2. ASSUME NEW r, Fine(r), NEW spec, spec.type \in FaultTypes,
             spec.at \in Int, spec.rate \in Int, spec.limit \in Int
      PROVE  Fine(Layered(r, spec, t))
  <2>1. CASE spec.type = "fade"
    <3>1. Layered(r, spec, t) = [r EXCEPT !.soc = (@ * Fade(spec, t)) \div 100]
      BY <2>1 DEF Layered
    <3>2. Fade(spec, t) \in Int
      BY <1>2 DEF Fade, Higher
    <3>3. (r.soc * Fade(spec, t)) \div 100 \in Int
      <4>1. \A a, b \in Int : (a * b) \div 100 \in Int
        BY SMT
      <4> QED
        BY <1>2, <3>2, <4>1
    <3> QED
      BY <1>2, <3>1, <3>3 DEF Reading
  <2>2. CASE spec.type = "stuck"
    <3> DEFINE captured == IF r.held = {} THEN {r.temp} ELSE r.held
               value == CHOOSE v \in captured : TRUE
    <3>1. Layered(r, spec, t) = [r EXCEPT !.temp = value, !.held = captured]
      BY <2>2 DEF Layered
    <3>2. captured # {} /\ captured \subseteq Int
      BY <1>2
    <3>3. value \in captured
      <4> HIDE DEF captured
      <4> QED
        BY <3>2
    <3> HIDE DEF captured, value
    <3> QED
      BY <1>2, <3>1, <3>2, <3>3 DEF Reading
  <2>3. CASE spec.type = "runaway"
    <3>1. Layered(r, spec, t) = [r EXCEPT !.temp = @ + Bias(spec, t)]
      BY <2>3 DEF Layered
    <3>2. Bias(spec, t) \in Int
      BY <1>2 DEF Bias, Lower
    <3> QED
      BY <1>2, <3>1, <3>2 DEF Reading
  <2> QED
    BY <1>2, <2>1, <2>2, <2>3 DEF FaultTypes
<1>3. 0 \in T
  BY <1>1 DEF Reading
<1> HIDE DEF Fine
<1>4. ASSUME NEW i \in Nat, i \in T PROVE i + 1 \in T
  <2> SUFFICES ASSUME i + 1 <= Len(faults) PROVE Fine(L[i + 1])
    OBVIOUS
  <2>1. i + 1 \in 1..Len(faults) /\ (i + 1) - 1 = i /\ i <= Len(faults)
    BY <1>0
  <2>2. Fine(L[i])
    BY <1>4, <2>1
  <2>3. /\ faults[i + 1].type \in FaultTypes
        /\ faults[i + 1].at \in Int /\ faults[i + 1].rate \in Int /\ faults[i + 1].limit \in Int
    BY <2>1 DEF Numeric, Known
  <2>4. Fine(Layered(L[i], faults[i + 1], t))
    BY <1>2, <2>2, <2>3
  <2> QED
    BY <1>1, <2>1, <2>2, <2>4
<1>5. Nat \subseteq T
  <2> HIDE DEF T
  <2> QED
    BY <1>3, <1>4, ByCounting
<1>6. Fine(L[Len(faults)])
  BY <1>0, <1>5
<1> QED
  BY <1>6 DEF Apply, L, Fine

\* What a satellite samples of itself are numbers.
LEMMA SamplesAreNumbers ==
  ASSUME NEW faults, Numeric(faults), NEW sat, NEW tle, NEW start \in Int, NEW dt \in Nat,
         Stable(dt), NEW n \in Nat
  PROVE  LET s == After(faults, sat, tle, start, dt, n + 1).sample
         IN  s.soc \in Int /\ s.temp \in Int /\ s.heat \in Int
<1> DEFINE A(i) == After(faults, sat, tle, start, dt, i)
           shown(i) == Apply(faults, sat, start + i * dt, A(i + 1).state, A(i).held)
           T == {i \in Nat : A(i).held \subseteq Int}
<1>1. \A i \in Nat : A(i).state.soc \in Int /\ A(i).state.temp \in Coldest..Hottest
  <2> TAKE i \in Nat
  <2>1. A(i).state.soc \in MinSoc..MaxSoc /\ A(i).state.temp \in Coldest..Hottest
    BY StatesInside
  <2> QED
    BY <2>1
<1>2. \A i \in Nat : /\ A(i + 1).sample.soc = shown(i).soc /\ A(i + 1).sample.temp = shown(i).temp
                     /\ A(i + 1).held = shown(i).held
                     /\ A(i + 1).sample.heat
                          = NetHeat(A(i).state.temp, InShadow(tle, start + i * dt))
  <2> TAKE i \in Nat
  <2> DEFINE a == After(faults, sat, tle, start, dt, i + 1)
             before == After(faults, sat, tle, start, dt, i)
             at == start + i * dt
             tick == Stepped(before.state, InShadow(tle, at), dt)
             result == Apply(faults, sat, at, tick, before.held)
  <2>1. a = [state |-> tick, held |-> result.held,
             sample |-> [tick EXCEPT !.soc = result.soc, !.temp = result.temp]]
    <3>1. a = Lived(faults, sat, tle, start, dt, i + 1, before)
      BY AfterNext, Zenon
    <3>2. (i + 1) - 1 = i
      OBVIOUS
    <3> HIDE DEF a, before
    <3> QED
      BY <3>1, <3>2 DEF Lived
  <2>2. /\ DOMAIN tick = Channels
        /\ tick.heat = NetHeat(before.state.temp, InShadow(tle, at))
    BY DEF Stepped, Channels
  <2>3. result = Apply(faults, sat, at, tick, before.held)
    OBVIOUS
  <2> HIDE DEF a, tick, result, before, at
  <2>4. /\ a.state = tick /\ a.held = result.held
        /\ a.sample.soc = result.soc /\ a.sample.temp = result.temp
        /\ a.sample.heat = tick.heat
    BY <2>1, <2>2 DEF Channels
  <2> QED
    BY <2>2, <2>3, <2>4 DEF a, before, at
<1>3. A(0).held = {}
  BY AfterNext
<1>4. \A i \in Nat : start + i * dt \in Int
  OBVIOUS
<1>5. \A i \in Nat : A(i + 1).state.soc \in Int /\ A(i + 1).state.temp \in Int
  <2> TAKE i \in Nat
  <2>1. i + 1 \in Nat
    OBVIOUS
  <2>2. A(i + 1).state.soc \in Int /\ A(i + 1).state.temp \in Coldest..Hottest
    BY <1>1, <2>1
  <2> HIDE DEF A
  <2> QED
    BY <2>2, ThermalAssumption DEF ThermalParams
<1> HIDE DEF A
<1>6. ASSUME NEW i \in Nat, A(i).held \subseteq Int
      PROVE  shown(i).soc \in Int /\ shown(i).temp \in Int /\ shown(i).held \subseteq Int
  <2>1. /\ A(i + 1).state.soc \in Int /\ A(i + 1).state.temp \in Int
        /\ start + i * dt \in Int /\ A(i).held \in SUBSET Int
    BY <1>4, <1>5, <1>6
  <2> QED
    BY <2>1, LayersAreNumbers
<1> HIDE DEF shown
<1>7. 0 \in T
  BY <1>3
<1>8. ASSUME NEW i \in Nat, i \in T PROVE i + 1 \in T
  BY <1>2, <1>6, <1>8
<1>9. Nat \subseteq T
  <2> HIDE DEF T
  <2> QED
    BY <1>7, <1>8, ByCounting
<1>10. A(n + 1).sample.soc \in Int /\ A(n + 1).sample.temp \in Int
  BY <1>2, <1>6, <1>9
<1>11. A(n + 1).sample.heat \in Int
  <2>1. A(n).state.temp \in Coldest..Hottest
    BY <1>1
  <2>2. ASSUME NEW temp \in Coldest..Hottest, NEW shadow PROVE NetHeat(temp, shadow) \in Int
    <3>1. Radiated[temp] \in Int /\ SunHeat \in Int /\ SteadyHeat \in Int
      BY ThermalAssumption DEF ThermalParams
    <3>2. (IF shadow THEN 0 ELSE SunHeat) \in Int
      BY <3>1
    <3> QED
      BY <3>1, <3>2 DEF NetHeat
  <2>3. NetHeat(A(n).state.temp, InShadow(tle, start + n * dt)) \in Int
    BY <2>1, <2>2
  <2> QED
    BY <1>2, <2>3
<1> QED
  BY <1>10, <1>11 DEF A

\* The faults of a session are numbers when those of the files are.
LEMMA SessionIsNumeric ==
  ASSUME FaultsInv, Commanded, simStart \in Int, fleet # <<>>
  PROVE  Numeric(specs)
<1>1. PICK cmd \in CommandLines : file = FromYaml(cmd.faults)
  BY DEF Commanded
<1> DEFINE faults == cmd.faults
<1>2. \A i \in DOMAIN faults : faults[i].rate \in Int /\ faults[i].limit \in Int
  BY ProducerAssumption
<1>3. /\ DOMAIN file = DOMAIN faults
      /\ \A i \in DOMAIN faults : file[i].rate = faults[i].rate /\ file[i].limit = faults[i].limit
  BY <1>1 DEF FromYaml
<1> HIDE DEF faults
<1>4. /\ Len(file) \in Nat /\ DOMAIN file = 1..Len(file)
      /\ \A i \in DOMAIN file :
           /\ DOMAIN file[i] = {"sat", "type", "form", "at", "relative", "rate", "limit"}
           /\ file[i].type \in FaultTypes /\ file[i].at \in Int
  BY DEF FaultsInv
<1> DEFINE b(i) == IF file[i].relative /\ file[i].form = "text"
                   THEN [file[i] EXCEPT !.at = simStart + @, !.relative = FALSE]
                   ELSE file[i]
<1>5. specs = [i \in DOMAIN file |-> b(i)]
  BY DEF FaultsInv, Bound
<1>6. ASSUME NEW i \in DOMAIN file
      PROVE  b(i).at \in Int /\ b(i).rate \in Int /\ b(i).limit \in Int
  <2>1. file[i].at \in Int /\ file[i].rate \in Int /\ file[i].limit \in Int
    BY <1>2, <1>3, <1>4
  <2> QED
    BY <1>4, <2>1
<1> HIDE DEF b
<1>7. Known(specs) /\ Len(specs) = Len(file)
  BY BoundFaults
<1>8. \A i \in 1..Len(specs) : specs[i] = b(i) /\ i \in DOMAIN file
  BY <1>4, <1>5, <1>7
<1> QED
  BY <1>6, <1>7, <1>8 DEF Numeric

\* So are the samples it shows.
LEMMA SeriesIsNumeric ==
  ASSUME FaultsInv, Commanded, simStart \in Int, Stable(TickSeconds),
         NEW k \in DOMAIN fleet, fleet # <<>>, NEW i \in Nat \ {0}
  PROVE  LET s == Series(k, i).sample IN s.soc \in Int /\ s.temp \in Int /\ s.heat \in Int
<1> DEFINE d == TickSeconds
<1>1. d \in Nat
  BY TickSecondsType
<1>2. i - 1 \in Nat /\ (i - 1) + 1 = i
  OBVIOUS
<1>3. Numeric(specs)
  BY SessionIsNumeric
<1>4. Stable(d)
  OBVIOUS
<1> HIDE DEF d
<1> DEFINE s == After(specs, fleet[k].id, fleet[k].tle, simStart, d, (i - 1) + 1).sample
<1>5. s.soc \in Int /\ s.temp \in Int /\ s.heat \in Int
  BY <1>1, <1>2, <1>3, <1>4, SamplesAreNumbers
<1>6. s = Series(k, i).sample
  BY <1>2 DEF Series, d
<1> HIDE DEF s
<1> QED
  BY <1>5, <1>6
=============================================================================
