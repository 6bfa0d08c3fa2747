-------------------------------- MODULE Demo --------------------------------
(***************************************************************************)
(* `make demo-full` from the physics to the scorecards: satellites in      *)
(* orbit, faults over what they report, the minute rollup of the rows that *)
(* reached the archive, a detection run over it and its evaluation against *)
(* the same fault file.  How rows get into the archive is Pipeline's       *)
(* subject; here they are the ticks that were not lost.                    *)
(*                                                                         *)
(* A scenario is [orbits, faults, start, dt, ticks, lost]: the orbital     *)
(* elements of satellite i are orbits[i], and `lost` are pairs of a        *)
(* satellite and a tick.                                                   *)
(***************************************************************************)
EXTENDS Detection, Figures, Marts, TLC

CONSTANTS Scenarios,
          Grain,      \* a multiple of the number of ticks in a minute; readings
                      \* of a sample are in units of 1/Grain
          NoScenario

VARIABLE scenario

demovars == <<dvars, scenario>>

\* What a satellite of the scenario reports, tick by tick
Series(s, specs, sat) ==
  RunOneSat(Bound(specs, s.start), sat, s.orbits[sat], s.start, s.dt, s.ticks)

Reported(s) ==
  UNION {LET series == Series(s, FromYaml(s.faults), sat)
         IN  {series[i] @@ [sat |-> sat, stamp |-> s.start + (i - 1) * s.dt] :
                i \in {k \in 1..s.ticks : <<sat, k>> \notin s.lost}} :
         sat \in DOMAIN s.orbits}

\* The columns the query selects; net heat as the change of temperature that
\* update() expects of it over a minute
SampleOf(row) ==
  LET mean(total) == (Grain * total) \div row.count
  IN  [sat |-> row.sat, minute |-> row.minute, soc |-> mean(row.soc),
       temp |-> mean(row.temp), delta |-> mean(row.heat) * MinuteLength]

\* ORDER BY sat_id, minute_bucket
Table(s) ==
  LET samples == {SampleOf(row) : row \in Rollup(Reported(s), MinuteLength)}
      Before(r) == {q \in samples : q.sat < r.sat \/ (q.sat = r.sat /\ q.minute < r.minute)}
  IN  [k \in 1..Cardinality(samples) |->
        CHOOSE r \in samples : Cardinality(Before(r)) = k - 1]

DemoInit ==
  /\ FreshRun
  /\ \/ rows \in Tables /\ scenario = NoScenario
     \/ \E s \in Scenarios : rows = Table(s) /\ scenario = s

\* A simulated table is scored against the file it was simulated with.
Files == IF scenario = NoScenario THEN FaultFiles ELSE {FromYaml(scenario.faults)}

DemoNext ==
  /\ ReadRow \/ \E file \in Files : Score(file) \/ ScoreRaises(file)
  /\ UNCHANGED scenario

DemoSpec == DemoInit /\ [][DemoNext]_demovars

-----------------------------------------------------------------------------
(* Properties *)

\* When the fault began in the simulation
Began(s, fault) == IF fault.relative THEN s.start + fault.at ELSE fault.at

\* At least one tick a minute, and no two minutes in succession without a row
MinuteByMinute(s) ==
  /\ s.dt <= MinuteLength
  /\ \A i \in 1..Len(rows) - 1 :
       rows[i].sat = rows[i + 1].sat => rows[i + 1].minute - rows[i].minute <= 2

\* Whatever the orbits, tick length and gaps of one minute, the eclipses and the
\* charge cycle of a healthy satellite set off no detector, nor does a fault
\* set off a detector it is not for, or before it began.
HealthySatellitesStaySilent ==
  scenario # NoScenario /\ MinuteByMinute(scenario) =>
    \A k \in DOMAIN events :
      \E i \in DOMAIN scenario.faults :
        LET fault == FromYaml(scenario.faults)[i] IN
        /\ fault.sat = events[k].sat /\ fault.type = events[k].detector
        /\ Began(scenario, fault) < TimeOf(events[k]) + MinuteLength

\* All faults of a complete simulation are found, none of them before it began;
\* the scorecards measure latency from less than a minute before that, the mart
\* having minutes only.
InjectedFaultsAreFound ==
  scenario # NoScenario /\ dpc = "scored" /\ scenario.lost = {} /\ scenario.dt <= MinuteLength =>
    /\ \A det \in FaultTypes :
         scorecards[det].false_negatives = 0 /\ scorecards[det].false_positives = 0
    /\ \A i \in DOMAIN faults :
         LET began == Began(scenario, FromYaml(scenario.faults)[i])
         IN  began - MinuteLength < faults[i].at /\ faults[i].at <= began

=============================================================================
