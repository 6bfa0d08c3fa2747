------------------------------- MODULE MCDemo -------------------------------
(***************************************************************************)
(* TLC instance of Demo, and with it of Detection.  Tables of two kinds:   *)
(*                                                                         *)
(* any series of samples out of three families, one per detector, for a    *)
(* satellite, and one of a few for a second, which has no sample for one   *)
(* of the minutes;                                                         *)
(*                                                                         *)
(* twelve minutes of simulation, four orbits of three minutes (S in the    *)
(* sun, E in eclipse), from the beginning or the middle of a minute, with  *)
(* two ticks in a minute or one.                                           *)
(***************************************************************************)
EXTENDS Demo

Sample(soc, temp, delta) == [soc |-> soc, temp |-> temp, delta |-> delta]

ChargeSeries == [1..6 -> {Sample(c, 0, 0) : c \in {800, 400, 0}}]

ThermalSeries == [1..6 -> {Sample(800, t, d) : t \in {0, 20}, d \in {0, 20}}]

HeatSeries == [1..5 -> {Sample(800, t, 0) : t \in {200, 202, 203, 205}}]

AnySeries == ChargeSeries \cup ThermalSeries \cup HeatSeries

Few ==
  { <<>>,
    [i \in 1..5 |-> Sample(IF i > 3 THEN 0 ELSE 800, 0, 0)],
    [i \in 1..4 |-> Sample(0, 20 * i, 20)],
    [i \in 1..5 |-> Sample(800, 0, 20)] }

RowsOf(sat, series) ==
  [i \in DOMAIN series |->
    [sat |-> sat, minute |-> IF sat = 2 /\ i > 2 THEN i + 1 ELSE i,
     soc |-> series[i].soc, temp |-> series[i].temp, delta |-> series[i].delta]]

Rollups == {<<>>} \cup {RowsOf(1, a) \o RowsOf(2, b) : a \in AnySeries, b \in Few}

Fault(sat, type, at, relative) ==
  [sat |-> sat, type |-> type, form |-> "text", at |-> at, relative |-> relative]

NullFault(sat, type, relative) == [Fault(sat, type, 0, relative) EXCEPT !.form = "null"]

SomeFiles ==
  { <<>>,
    << Fault(1, "fade", 4, TRUE), Fault(2, "stuck", 7, FALSE), Fault(1, "runaway", 5, TRUE) >>,
    << Fault(1, "stuck", 8, FALSE), Fault(1, "stuck", 3, TRUE), Fault(2, "fade", 0, TRUE),
       Fault(3, "runaway", 0, TRUE) >>,
    << Fault(1, "fade", 9, FALSE), Fault(1, "runaway", 9, FALSE) >>,
    << NullFault(1, "fade", TRUE), Fault(1, "stuck", 3, TRUE) >> }

-----------------------------------------------------------------------------

Shadow(tle, t) == tle[((t \div 2) % 3) + 1] = "E"

Radiation == [t \in 24..101 |-> t \div 6]

SSE == <<"S", "S", "E">>
ESS == <<"E", "S", "S">>
SEE == <<"S", "E", "E">>
SSS == <<"S", "S", "S">>

Entry(sat, type, key, at, rate, limit) ==
  [sat |-> sat, type |-> type, rate |-> rate, limit |-> limit] @@ (key :> [form |-> "text", at |-> at])

\* The faults of faults.example.yaml: a fade from the start, a sensor that gets
\* stuck, and a runaway later on.
StuckAndFade ==
  << Entry(2, "fade", "start_offset", 0, 10, 40), Entry(1, "stuck", "start_offset", 2, 0, 0) >>

FadeAndRunaway ==
  << Entry(1, "fade", "start_iso", 4, 10, 40), Entry(2, "runaway", "start_offset", 3, 3, 200) >>

Simulated(orbits, entries, start, dt, lost) ==
  [orbits |-> orbits, faults |-> entries, start |-> start, dt |-> dt,
   ticks |-> 24 \div dt, lost |-> lost]

\* A stuck sensor takes an orbit in which the temperature swings.
Complete ==
  {Simulated(<<a, b>>, FadeAndRunaway, start, dt, {}) :
     a \in {SSE, ESS, SEE, SSS}, b \in {SSE, SSS}, start \in {2, 3}, dt \in {1, 2}}
  \cup {Simulated(<<SSE, b>>, StuckAndFade, start, dt, {}) :
     b \in {SSE, ESS, SEE}, start \in {2, 3}, dt \in {1, 2}}
  \cup {Simulated(<<a, SSE>>, <<>>, start, dt, {}) :
     a \in {ESS, SEE, SSS}, start \in {2, 3}, dt \in {1, 2, 4}}

\* One tick or one minute is missing.
WithGaps ==
  {Simulated(<<a>>, <<>>, 2, 1, {<<1, k>>} \cup {<<1, m>>}) :
     a \in {SSE, ESS, SEE}, k \in {1, 2, 3, 4, 7, 8, 13, 14}, m \in {1, 3, 7, 13}}
  \cup {Simulated(<<a>>, <<>>, 3, 2, {<<1, k>>}) : a \in {SSE, ESS, SEE, SSS}, k \in 1..12}
  \cup {Simulated(<<SSE, ESS>>, StuckAndFade, 2, 1, {<<1, k>>, <<2, k>>}) : k \in 1..12}

Runs == Complete \cup WithGaps

=============================================================================
