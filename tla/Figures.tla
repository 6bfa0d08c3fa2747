------------------------------ MODULE Figures ------------------------------
(***************************************************************************)
(* The series the figure scripts draw (scripts/plot_fault_signatures.py,   *)
(* plot_orbit_eclipse.py): one satellite by itself, without producer,      *)
(* messages or archive, from a fixed start.                                *)
(***************************************************************************)
EXTENDS Subsystems, FaultRegistry

\* Satellite.state().eclipsed: whether the satellite with these orbital elements
\* is in the Earth's shadow at a simulated time.
CONSTANT InShadow(_, _)

\* run_one_sat, one time around its loop: the faults are laid over what the tick
\* computed; the state goes on without them.
Lived(specs, sat, tle, start, dt, i, prev) ==
  LET at    == start + (i - 1) * dt
      tick  == Stepped(prev.state, InShadow(tle, at), dt)
      shown == Apply(specs, sat, at, tick, prev.held)
  IN  [state |-> tick, held |-> shown.held,
       sample |-> [tick EXCEPT !.soc = shown.soc, !.temp = shown.temp]]

\* The satellite after 0 to n ticks
Life(specs, sat, tle, start, dt, n) ==
  LET run[i \in 0..n] ==
        IF i = 0 THEN [state |-> InitialState, held |-> {}]
        ELSE Lived(specs, sat, tle, start, dt, i, run[i - 1])
  IN  run

\* The series it returns
RunOneSat(specs, sat, tle, start, dt, n) ==
  LET run == Life(specs, sat, tle, start, dt, n)
  IN  [i \in 1..n |-> run[i].sample]

\* The shading loop of plot_orbit_eclipse, for one minute: a stretch in eclipse
\* starts, or ends at the first minute after it.
Shaded(dark, i, s) ==
  IF dark[i] /\ ~s.open THEN [s EXCEPT !.open = TRUE, !.from = i]
  ELSE IF ~dark[i] /\ s.open
  THEN [s EXCEPT !.open = FALSE, !.spans = @ \cup {<<s.from, i>>}]
  ELSE s

Shading(dark, n) ==
  LET scan[i \in 0..n] ==
        IF i = 0 THEN [open |-> FALSE, from |-> 0, spans |-> {}]
        ELSE Shaded(dark, i, scan[i - 1])
  IN  scan

\* The stretches, one still open at the last minute up to the end of the axis
EclipseSpans(dark) ==
  LET n    == Len(dark)
      last == Shading(dark, n)[n]
  IN  last.spans \cup (IF last.open THEN {<<last.from, n>>} ELSE {})

=============================================================================
