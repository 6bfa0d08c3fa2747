----------------------------- MODULE Detectors -----------------------------
(***************************************************************************)
(* The three anomaly detectors (src/orbit_ops/detection/detectors.py) as   *)
(* functions from a detector's state and a minute sample to its next       *)
(* state.  update() returns an event exactly when it sets _fired.          *)
(*                                                                         *)
(* A sample is [soc, temp, delta]: `delta` is expected_delta, the change   *)
(* that net_heat_w_mean lets expect over 60 s.  All quantities are whole   *)
(* numbers of units small enough for the thresholds.                       *)
(***************************************************************************)
EXTENDS Integers, Sequences

CONSTANTS FadeWindow,        \* window_minutes
          FadeThreshold,     \* threshold
          FadeSlack,         \* slack
          ResidualThreshold, \* residual_threshold_k
          SmallDelta,        \* 0.01: no movement is predicted
          RequiredMinutes,   \* consecutive_minutes_required
          TemperatureCeiling,
          SlopeWindow,       \* slope_window_minutes
          MinRise,           \* min_positive_slope_k_per_min over the window
          NoReading          \* None

ASSUME DetectorAssumption ==
  /\ FadeWindow \in Nat \ {0} /\ SlopeWindow \in Nat \ {0, 1}
  /\ RequiredMinutes \in Nat \ {0}
  /\ FadeSlack \in Nat /\ FadeThreshold \in Nat \ {0}
  /\ ResidualThreshold \in Nat /\ SmallDelta \in Nat
  /\ TemperatureCeiling \in Int /\ MinRise \in Int
  /\ NoReading \notin Int

Abs(x) == IF x < 0 THEN -x ELSE x

AtLeastZero(x) == IF x < 0 THEN 0 ELSE x

Highest(window) ==
  CHOOSE x \in {window[i] : i \in DOMAIN window} : \A i \in DOMAIN window : window[i] <= x

\* A deque of at most `size` values
Slide(window, x, size) ==
  LET w == Append(window, x) IN IF Len(w) > size THEN Tail(w) ELSE w

-----------------------------------------------------------------------------
(* CapacityFadeDetector *)

NewFade == [window |-> <<>>, baseline |-> NoReading, cusum |-> 0, fired |-> FALSE]

\* Mutant of FadeUpdate: upward deviations are carried as credit.
FadeUpdateUnclipped(d, s) ==
  LET w == Slide(d.window, s.soc, FadeWindow)
      full == Len(w) >= FadeWindow
      cusum == d.cusum + d.baseline - Highest(w) - FadeSlack
      watching == full /\ d.baseline # NoReading
  IN  [window   |-> w,
       baseline |-> IF full /\ ~watching THEN Highest(w) ELSE d.baseline,
       cusum    |-> IF watching THEN cusum ELSE d.cusum,
       fired    |-> d.fired \/ (watching /\ cusum >= FadeThreshold)]

\* Mutant of FadeUpdate: the last charge stands in for the highest of the window.
FadeUpdateOfLast(d, s) ==
  LET w == Slide(d.window, s.soc, FadeWindow)
      full == Len(w) >= FadeWindow
      cusum == AtLeastZero(d.cusum + d.baseline - s.soc - FadeSlack)
      watching == full /\ d.baseline # NoReading
  IN  [window   |-> w,
       baseline |-> IF full /\ ~watching THEN Highest(w) ELSE d.baseline,
       cusum    |-> IF watching THEN cusum ELSE d.cusum,
       fired    |-> d.fired \/ (watching /\ cusum >= FadeThreshold)]

\* The first full window sets the baseline for good; from then on, what the
\* window's maximum is below it adds up, less the slack, and never below zero.
FadeUpdate(d, s) ==
  LET w == Slide(d.window, s.soc, FadeWindow)
      full == Len(w) >= FadeWindow
      cusum == AtLeastZero(d.cusum + d.baseline - Highest(w) - FadeSlack)
      watching == full /\ d.baseline # NoReading
  IN  [window   |-> w,
       baseline |-> IF full /\ ~watching THEN Highest(w) ELSE d.baseline,
       cusum    |-> IF watching THEN cusum ELSE d.cusum,
       fired    |-> d.fired \/ (watching /\ cusum >= FadeThreshold)]

-----------------------------------------------------------------------------
(* StuckSensorDetector *)

NewStuck == [last |-> NoReading, count |-> 0, fired |-> FALSE]

\* A sample whose change from the one before is not what its heat predicts
Mismatch(last, s) ==
  /\ Abs(s.delta - (s.temp - last)) > ResidualThreshold
  /\ Abs(s.delta) > SmallDelta

\* Mutant of StuckUpdate: a minute in line with the heat does not end the run.
StuckUpdateWithoutReset(d, s) ==
  LET count == IF d.last # NoReading /\ Mismatch(d.last, s) THEN d.count + 1 ELSE d.count
  IN  [last |-> s.temp, count |-> count, fired |-> d.fired \/ count >= RequiredMinutes]

\* The first sample has none before it to differ from.
StuckUpdate(d, s) ==
  LET count == IF d.last # NoReading /\ Mismatch(d.last, s) THEN d.count + 1 ELSE 0
  IN  [last |-> s.temp, count |-> count, fired |-> d.fired \/ count >= RequiredMinutes]

-----------------------------------------------------------------------------
(* ThermalRunawayDetector *)

NewRunaway == [window |-> <<>>, fired |-> FALSE]

\* Mutant of RunawayUpdate: a window that is not full is good enough.
RunawayUpdateEarly(d, s) ==
  LET w == Slide(d.window, s.temp, SlopeWindow)
      climbs == /\ s.temp > TemperatureCeiling
                /\ w[Len(w)] - w[1] >= MinRise
  IN  [window |-> w, fired |-> d.fired \/ climbs]

\* Mutant of RunawayUpdate: the event is not remembered.
RunawayUpdateUnlatched(d, s) ==
  LET w == Slide(d.window, s.temp, SlopeWindow)
      climbs == /\ s.temp > TemperatureCeiling
                /\ Len(w) >= SlopeWindow
                /\ w[Len(w)] - w[1] >= MinRise
  IN  [window |-> w, fired |-> climbs]

RunawayUpdate(d, s) ==
  LET w == Slide(d.window, s.temp, SlopeWindow)
      climbs == /\ s.temp > TemperatureCeiling
                /\ Len(w) >= SlopeWindow
                /\ w[Len(w)] - w[1] >= MinRise
  IN  [window |-> w, fired |-> d.fired \/ climbs]

=============================================================================
