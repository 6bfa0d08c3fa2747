--------------------------- MODULE FaultRegistry ---------------------------
(***************************************************************************)
(* FaultRegistry (src/orbit_ops/sim/faults.py): faults as a layer over the *)
(* nominal readings of a satellite.  Nothing here changes state but the    *)
(* value a stuck sensor holds, here the set of it or the empty set before; *)
(* its owner is the module that calls Apply.                               *)
(*                                                                         *)
(* A file is the sequence of its entries [sat, type, rate, limit] with a   *)
(* start under start_iso, start_offset or both, [form, at]: its form is    *)
(* "text", or "null", or "bare" for a date or a number, which is what YAML *)
(* makes of a time without quotes.                                         *)
(*                                                                         *)
(* A spec is [sat, type, form, at, relative, rate, limit]: `at` is an      *)
(* offset from the simulation's start when `relative`, a simulated time    *)
(* when not; `rate` and `limit` are fade_rate_per_day and floor, in per    *)
(* cent, or rate_k_per_hour and cap_k, both per unit of simulated time.  A *)
(* reading is [soc, temp].  The code computes in floats; here are whole    *)
(* numbers, which instances choose so that no division leaves a rest.      *)
(***************************************************************************)
EXTENDS Integers, Sequences

FaultTypes == {"fade", "stuck", "runaway"}

Lower(a, b)  == IF a < b THEN a ELSE b
Higher(a, b) == IF a < b THEN b ELSE a

\* from_yaml accepts an entry with exactly one key for its start, whatever the
\* value, and a known type.
Refused(file) ==
  \E i \in DOMAIN file :
    \/ ("start_iso" \in DOMAIN file[i]) = ("start_offset" \in DOMAIN file[i])
    \/ file[i].type \notin FaultTypes

\* from_yaml; a file that does not exist is one without entries.
FromYaml(file) ==
  [i \in DOMAIN file |->
    LET e == file[i]
        relative == "start_offset" \in DOMAIN e
        start == IF relative THEN e.start_offset ELSE e.start_iso
    IN  [sat |-> e.sat, type |-> e.type, form |-> start.form, at |-> start.at,
         relative |-> relative, rate |-> e.rate, limit |-> e.limit]]

\* _parse_offset on what is not a string
BindRaises(specs) == \E i \in DOMAIN specs : specs[i].relative /\ specs[i].form = "bare"

\* Mutant of Bound: offsets are taken for simulated times.
BoundToNothing(specs, start) ==
  [i \in DOMAIN specs |-> [specs[i] EXCEPT !.relative = FALSE]]

\* bind_to_sim_start: offsets become times, times stay, and so does a null offset.
Bound(specs, start) ==
  [i \in DOMAIN specs |->
    IF specs[i].relative /\ specs[i].form = "text"
    THEN [specs[i] EXCEPT !.at = start + @, !.relative = FALSE]
    ELSE specs[i]]

\* FaultSpec.start of a spec after binding: one without a start, or with a start
\* that is not text, raises whenever its satellite's faults are looked up.
StartRaises(specs, sat) == \E i \in DOMAIN specs : specs[i].sat = sat /\ specs[i].form # "text"

\* active_for: the satellite's faults that have begun
Active(spec, sat, t) == spec.sat = sat /\ t >= spec.at

\* Mutant of Fade: the part of the elapsed time below a day, here of two units,
\* stands for all of it.
FadeWrapping(spec, t) == Higher(spec.limit, 100 - spec.rate * ((t - spec.at) % 2))

\* What is left of the capacity, in per cent.
Fade(spec, t) == Higher(spec.limit, 100 - spec.rate * (t - spec.at))

\* Mutant of Bias: the added heat has no cap.
BiasUncapped(spec, t) == spec.rate * (t - spec.at)

\* What a runaway adds.
Bias(spec, t) == Lower(spec.limit, spec.rate * (t - spec.at))

\* One active fault over a reading; `held` is what the satellite's stuck sensor
\* captured, one value for all its stuck faults.
Layered(r, spec, t) ==
  CASE spec.type = "fade"    -> [r EXCEPT !.soc = (@ * Fade(spec, t)) \div 100]
    [] spec.type = "stuck"   ->
         LET captured == IF r.held = {} THEN {r.temp} ELSE r.held
         IN  [r EXCEPT !.temp = CHOOSE value \in captured : TRUE, !.held = captured]
    [] spec.type = "runaway" -> [r EXCEPT !.temp = @ + Bias(spec, t)]

\* apply: through the file in its order, each active fault over the result of
\* those before it
Layers(specs, sat, t, nominal, held) ==
  LET layer[i \in 0..Len(specs)] ==
        IF i = 0 THEN [soc |-> nominal.soc, temp |-> nominal.temp, held |-> held]
        ELSE IF Active(specs[i], sat, t) THEN Layered(layer[i - 1], specs[i], t)
        ELSE layer[i - 1]
  IN  layer

\* Mutant of Apply: the captured value is not kept.
ApplyForgetting(specs, sat, t, nominal, held) ==
  Layers(specs, sat, t, nominal, {})[Len(specs)]

Apply(specs, sat, t, nominal, held) == Layers(specs, sat, t, nominal, held)[Len(specs)]

=============================================================================
