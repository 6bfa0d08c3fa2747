----------------------------- MODULE Subsystems -----------------------------
(***************************************************************************)
(* The electrical power and the thermal model of a satellite               *)
(* (src/orbit_ops/sim/subsystems.py, subsystem_params.py): forward Euler   *)
(* over the eclipse flag.  Of SatelliteState nothing else is read.         *)
(*                                                                         *)
(* The code computes in floats; here charge, temperature, power and heat   *)
(* are whole numbers of units in which the factors 1/3600, 1/capacity and  *)
(* 1/(mass * specific heat) are 1.  The heat radiated at a temperature is  *)
(* given as a function.                                                    *)
(***************************************************************************)
EXTENDS Integers

CONSTANTS ArrayOutput,                \* flux * array area * array efficiency
          SunlitLoad, EclipseLoad,    \* bus_load_w, eclipse_load_w
          MinSoc, MaxSoc, InitialSoc,
          SunHeat,                    \* flux * cross section * absorptivity
          SteadyHeat,                 \* internal_dissipation_w + earth_ir_w
          Radiated,                   \* Stefan-Boltzmann, by temperature
          InitialTemp,
          Coldest, Hottest            \* temperatures Radiated is given for

\* The battery starts within its limits.
EpsParams ==
  /\ ArrayOutput \in Nat /\ SunlitLoad \in Nat /\ EclipseLoad \in Nat
  /\ MinSoc \in Int /\ MaxSoc \in Int
  /\ InitialSoc \in MinSoc..MaxSoc

ASSUME EpsAssumption == EpsParams

\* At the one end the bus radiates no more than it always
\* absorbs, at the other no less than it ever absorbs.
ThermalParams ==
  /\ Coldest \in Int /\ Hottest \in Int
  /\ InitialTemp \in Coldest..Hottest
  /\ SunHeat \in Nat /\ SteadyHeat \in Nat
  /\ Radiated \in [Coldest..Hottest -> Int]
  /\ Radiated[Coldest] <= SteadyHeat
  /\ Radiated[Hottest] >= SteadyHeat + SunHeat

ASSUME ThermalAssumption == ThermalParams

\* A step short enough for Euler's method: of two temperatures the higher one
\* stays the higher one.  With the parameters of the code that is below 4 hours.
Stable(dt) ==
  \A a, b \in Coldest..Hottest :
    a <= b => a - Radiated[a] * dt <= b - Radiated[b] * dt

\* _SatRuntime's eps and thermal, as a new satellite has them
InitialState == [soc |-> InitialSoc, temp |-> InitialTemp]

\* np.clip
Clip(x) == IF x < MinSoc THEN MinSoc ELSE IF x > MaxSoc THEN MaxSoc ELSE x

\* _solar_array_power less _bus_load
NetPower(shadow) == IF shadow THEN -EclipseLoad ELSE ArrayOutput - SunlitLoad

\* Mutant of NextSoc: the battery is clipped before the power is added.
NextSocUnclipped(soc, shadow, dt) == Clip(soc) + NetPower(shadow) * dt

\* eps_step
NextSoc(soc, shadow, dt) == Clip(soc + NetPower(shadow) * dt)

\* Solar heat if sunlit, internal and earth heat always, less what is radiated
\* at the temperature before the step
NetHeat(temp, shadow) ==
  (IF shadow THEN 0 ELSE SunHeat) + SteadyHeat - Radiated[temp]

\* thermal_step
NextTemp(temp, shadow, dt) == temp + NetHeat(temp, shadow) * dt

\* Both steps for one satellite: its new state, in the TickResult together with
\* the telemetry that explains the change.
Stepped(s, shadow, dt) ==
  [shadow |-> shadow,
   soc |-> NextSoc(s.soc, shadow, dt), net  |-> NetPower(shadow),
   temp   |-> NextTemp(s.temp, shadow, dt),     heat |-> NetHeat(s.temp, shadow)]

=============================================================================
