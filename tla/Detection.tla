----------------------------- MODULE Detection -----------------------------
(***************************************************************************)
(* run_detection (src/orbit_ops/detection/runner.py) over the minute       *)
(* rollup, and the scoring of its events against a fault file as           *)
(* scripts/evaluate_detectors.py does it.  A step is one row, fed to the   *)
(* three detectors of its satellite.                                       *)
(***************************************************************************)
EXTENDS Detectors, Evaluator

CONSTANTS Tables,      \* the rows of the rollup, as the query orders them
          FaultFiles,  \* the specs of fault files to score against
          NoSat        \* None

\* The mart has one row per satellite and minute, and the query orders by both.
ASSUME TablesAssumption ==
  /\ NoSat \notin Int
  /\ \A t \in Tables :
       /\ t \in Seq([sat : Int, minute : Int, soc : Int, temp : Int, delta : Int])
       /\ \A i, j \in DOMAIN t :
            i < j => t[i].sat < t[j].sat \/ (t[i].sat = t[j].sat /\ t[i].minute < t[j].minute)

\* What from_yaml makes of a file; the rates and limits play no part in scoring.
ASSUME FaultFilesAssumption ==
  FaultFiles \subseteq
    Seq([sat : Int, type : FaultTypes, form : {"text", "bare", "null"}, at : Int,
         relative : BOOLEAN])

VARIABLES rows,        \* the query's result
          next,        \* the row the loop is at
          current,     \* current_sat
          detectors,   \* the instances of current_sat
          events,
          sats,        \* RunnerStats.sats_processed
          dpc,         \* "read", "scored" or "raised"
          faults,      \* the fault file, offsets resolved
          scorecards

dvars == <<rows, next, current, detectors, events, sats, dpc, faults, scorecards>>

\* _make_detectors
NewDetectors == [fade |-> NewFade, stuck |-> NewStuck, runaway |-> NewRunaway]

\* run_detection with the query's result at hand
FreshRun ==
  /\ next = 1
  /\ current = NoSat /\ detectors = NewDetectors
  /\ events = <<>> /\ sats = 0
  /\ dpc = "read" /\ faults = <<>> /\ scorecards = <<>>

DetectionInit == rows \in Tables /\ FreshRun

\* Mutant of InstancesFor: the detectors are made once.
InstancesForAll(sat) == detectors

InstancesFor(sat) == IF sat = current THEN detectors ELSE NewDetectors

\* The log after one detector's update
Emitted(log, row, det, old, new) ==
  IF new[det].fired /\ ~old[det].fired
  THEN Append(log, [sat |-> row.sat, detector |-> det, minute |-> row.minute])
  ELSE log

ReadRow ==
  /\ dpc = "read" /\ next <= Len(rows)
  /\ LET row == rows[next]
         old == InstancesFor(row.sat)
         new == [fade    |-> FadeUpdate(old.fade, row),
                 stuck   |-> StuckUpdate(old.stuck, row),
                 runaway |-> RunawayUpdate(old.runaway, row)]
     IN  /\ detectors' = new
         /\ events' = Emitted(Emitted(Emitted(events, row, "fade", old, new),
                                      row, "stuck", old, new),
                              row, "runaway", old, new)
         /\ sats' = IF row.sat = current THEN sats ELSE sats + 1
         /\ current' = row.sat
  /\ next' = next + 1
  /\ UNCHANGED <<rows, dpc, faults, scorecards>>

\* The earliest minute of the mart stands in for the simulation's start.
ProxyStart == LET minutes == {rows[i].minute : i \in DOMAIN rows}
              IN  MinuteLength * CHOOSE m \in minutes : \A n \in minutes : m <= n

HasOffsets(file) == \E i \in DOMAIN file : file[i].relative /\ file[i].form # "null"

Score(file) ==
  /\ dpc = "read" /\ next > Len(rows)
  /\ ~HasOffsets(file) \/ (rows # <<>> /\ ~BindRaises(file))
  /\ ~Unscorable(events, file)
  /\ faults' = IF HasOffsets(file) THEN Bound(file, ProxyStart) ELSE file
  /\ scorecards' = [det \in FaultTypes |-> Scorecard(events, faults', det)]
  /\ dpc' = "scored"
  /\ UNCHANGED <<rows, next, current, detectors, events, sats>>

\* An empty mart has no earliest minute to resolve offsets against, and not every
\* start from the file is one.
ScoreRaises(file) ==
  /\ dpc = "read" /\ next > Len(rows)
  /\ \/ HasOffsets(file) /\ (rows = <<>> \/ BindRaises(file))
     \/ Unscorable(events, file)
  /\ dpc' = "raised"
  /\ UNCHANGED <<rows, next, current, detectors, events, sats, faults, scorecards>>

DetectionNext ==
  \/ ReadRow
  \/ \E file \in FaultFiles : Score(file) \/ ScoreRaises(file)

DetectionSpec == DetectionInit /\ [][DetectionNext]_dvars

-----------------------------------------------------------------------------
(* Properties *)

\* The run's state is well formed; there was one set of detectors per satellite.
DetectionTypeOK ==
  /\ next \in 1..Len(rows) + 1
  /\ sats = Cardinality({rows[i].sat : i \in 1..next - 1})
  /\ detectors.stuck.count \in Nat /\ detectors.fade.cusum \in Nat
  /\ Len(detectors.fade.window) <= FadeWindow
  /\ Len(detectors.runaway.window) <= SlopeWindow
  /\ dpc \in {"read", "scored", "raised"}

\* A detector raises one event per satellite at most, however long its condition
\* lasts or how often it returns.
OneEventEach ==
  \A i, j \in DOMAIN events :
    events[i].sat = events[j].sat /\ events[i].detector = events[j].detector => i = j

\* The events of one detector
Raised(log, det) == {log[i] : i \in {k \in DOMAIN log : log[k].detector = det}}

\* The rows read so far that are the first one of their satellite a rule holds for
FirstOf(due) ==
  {r \in due : r < next /\ \A q \in due : rows[q].sat = rows[r].sat => r <= q}

\* The samples of a satellite make a detector fire at the first row its rule
\* holds for, and never when there is none.
FiresFirstAt(due, det) ==
  Raised(events, det) =
    {[sat |-> rows[r].sat, detector |-> det, minute |-> rows[r].minute] : r \in FirstOf(due)}

\* The first row of a row's satellite; its rows follow one another.
FirstRow(t, r) ==
  CHOOSE f \in 1..r : t[f].sat = t[r].sat /\ \A q \in 1..f - 1 : t[q].sat # t[r].sat

\* The highest charge of the window that ends with a row
Top(t, r) == Highest([k \in 1..FadeWindow |-> t[r - FadeWindow + k].soc])

\* What the windows from row j on stayed below the one the baseline is from
Drift(t, baseline, j, r) ==
  LET sum[k \in 0..Len(t)] ==
        IF k < j THEN 0 ELSE sum[k - 1] + Top(t, baseline) - Top(t, k) - FadeSlack
  IN  sum[r]

\* The rows of a table that each detector's rule holds for
FadeDue(t) ==
  {r \in DOMAIN t :
     LET baseline == FirstRow(t, r) + FadeWindow - 1
     IN  \E j \in baseline + 1..r : Drift(t, baseline, j, r) >= FadeThreshold}

StuckDue(t) ==
  {r \in DOMAIN t :
     LET before == r - RequiredMinutes
     IN  /\ before >= 1 /\ t[before].sat = t[r].sat
         /\ \A k \in before + 1..r : Mismatch(t[k - 1].temp, t[k])}

RunawayDue(t) ==
  {r \in DOMAIN t :
     LET start == r - SlopeWindow + 1
     IN  /\ start >= 1 /\ t[start].sat = t[r].sat
         /\ t[r].temp > TemperatureCeiling
         /\ t[r].temp - t[start].temp >= MinRise}

\* The fade detector's running sum is the CUSUM it is named after: it fires at
\* the first minute up to which the ceiling's shortfall, from some minute on,
\* adds up to the threshold; samples of other satellites play no part.
FadeEventsFollowCusum == FiresFirstAt(FadeDue(rows), "fade")

\* The stuck-sensor detector fires at the first minute that ends an unbroken
\* run of the required number of minutes contradicting the heat balance.
StuckEventsFollowRuns == FiresFirstAt(StuckDue(rows), "stuck")

\* The runaway detector fires at the first minute above the ceiling that is a
\* full window's rise above the sample the window starts with.
RunawayEventsFollowClimbs == FiresFirstAt(RunawayDue(rows), "runaway")

\* No two faults of one type on one satellite
OneFaultOfAKind ==
  \A i, j \in DOMAIN faults :
    faults[i].sat = faults[j].sat /\ faults[i].type = faults[j].type => i = j

\* The scorecards account for everything: each event is a true or a false
\* positive, each fault was detected or missed and not both, so recall and
\* precision have the totals they claim.  An event before its fault counts
\* against the detector twice, as the detector will not fire again.
ScoresAccountForAll ==
  dpc = "scored" =>
    \A det \in FaultTypes :
      LET sc == scorecards[det] IN
      /\ sc.true_positives + sc.false_positives =
           Cardinality({i \in DOMAIN events : events[i].detector = det})
      /\ OneFaultOfAKind =>
           sc.true_positives + sc.false_negatives =
             Cardinality({i \in DOMAIN faults : faults[i].type = det})
      /\ \A k \in DOMAIN sc.latencies_seconds : sc.latencies_seconds[k] >= 0

=============================================================================
