----------------------------- MODULE Evaluator -----------------------------
(***************************************************************************)
(* The detectors' scorecards (src/orbit_ops/detection/evaluator.py): the   *)
(* events of a detection run against the faults of the fault file.         *)
(*                                                                         *)
(* An event is [sat, detector, minute], a fault as in FaultRegistry with   *)
(* its offset resolved.  DETECTOR_FOR_FAULT is one to one: a detector is   *)
(* named by the type of fault it is for.                                   *)
(***************************************************************************)
EXTENDS FaultRegistry, FiniteSetsExt

CONSTANT MinuteLength   \* units of simulated time in a minute bucket

ASSUME EvaluatorAssumption == MinuteLength \in Nat \ {0}

TimeOf(event) == event.minute * MinuteLength

StartsOf(faults, sat, type) ==
  {faults[i].at : i \in {k \in DOMAIN faults : faults[k].sat = sat /\ faults[k].type = type}}

\* The event is not before the first fault its detector is for.
Hits(e, faults) ==
  LET starts == StartsOf(faults, e.sat, e.detector) IN
  starts # {} /\ TimeOf(e) >= Min(starts)

\* The start of a fault is looked at where its satellite and detector have events.
Unscorable(events, faults) ==
  \E i \in DOMAIN faults, k \in DOMAIN events :
    /\ faults[i].form # "text"
    /\ events[k].sat = faults[i].sat /\ events[k].detector = faults[i].type

\* Mutant of Missed: a fault is found by an event of any time.
MissedIfNoEvent(events, faults, det) ==
  {i \in DOMAIN faults :
     /\ faults[i].type = det
     /\ \A k \in DOMAIN events :
          ~(events[k].sat = faults[i].sat /\ events[k].detector = det)}

\* Faults that no event of their satellite and detector hits, all of a kind
\* together.
Missed(events, faults, det) ==
  {i \in DOMAIN faults :
     /\ faults[i].type = det
     /\ \A k \in DOMAIN events :
          ~(events[k].sat = faults[i].sat /\ events[k].detector = det /\ Hits(events[k], faults))}

\* The latencies are those of the true positives.
Scorecard(events, faults, det) ==
  LET own  == {k \in DOMAIN events : events[k].detector = det}
      hits == {k \in own : Hits(events[k], faults)}
  IN  [true_positives  |-> Cardinality(hits),
       false_positives |-> Cardinality(own \ hits),
       false_negatives |-> Cardinality(Missed(events, faults, det)),
       latencies_seconds |->
         [k \in hits |-> TimeOf(events[k]) - Min(StartsOf(faults, events[k].sat, det))]]

=============================================================================
