-------------------------- MODULE SimClock_proofs --------------------------
(***************************************************************************)
(* Theorems about SimClock, for every tick length, speedup, work bound and *)
(* number of ticks.                                                        *)
(***************************************************************************)
EXTENDS SimClock, TLAPS

\* The facts of arithmetic the clock needs: one more tick adds one budget, and
\* a larger wall time is a larger multiple of it.
LEMMA OneMoreBudget ==
  \A n \in Nat, d \in Int : (n + 1) * d = n * d + d
  BY SMT

LEMMA ScaleLE ==
  \A s \in Nat \ {0}, a, b \in Int : a <= b => s * a <= s * b
  BY SMT

LEMMA TickSecondsType == TickSeconds \in Nat \ {0}
  BY ClockAssumption, SMT DEF TickSeconds

LEMMA TickKeepsType ==
  ASSUME ClockTypeOK, NEW work \in 0..MaxWork, NEW oversleep \in 0..MaxOversleep,
         Tick(work, oversleep)
  PROVE  ClockTypeOK'
<1>1. work \in Int /\ oversleep \in Int
  BY ClockAssumption
<1>2. now' = simStart' + tickCount' * TickSeconds
  BY OneMoreBudget, TickSecondsType DEF Tick, ClockTypeOK
<1>3. anchor' \in Int \cup {NoAnchor}
  BY <1>1, ClockAssumption DEF Tick, ClockTypeOK, AnchorAt
<1>4. (anchor' # NoAnchor) <=> (Mode = "realtime" /\ tickCount' > 0)
  BY <1>1, ClockAssumption DEF Tick, ClockTypeOK, AnchorAt
<1>5. wall' \in Int
  BY <1>1, ClockAssumption DEF Tick, ClockTypeOK, AnchorAt, DeadlineAt
<1>6. overrun' \in Nat
  BY <1>1, ClockAssumption DEF Tick, ClockTypeOK, Exceeding
<1> QED
  BY <1>2, <1>3, <1>4, <1>5, <1>6, TickSecondsType DEF Tick, ClockTypeOK

LEMMA ClockStarts == ClockInit => ClockTypeOK
  BY ClockAssumption, TickSecondsType, SMT DEF ClockInit, ClockTypeOK

\* The clock's state is well formed, and simulated time is a whole number of
\* ticks past its start.
THEOREM ClockTyping == ClockSpec => []ClockTypeOK
<1>1. ClockTypeOK /\ [ClockNext]_clvars => ClockTypeOK'
  <2> SUFFICES ASSUME ClockTypeOK, [ClockNext]_clvars PROVE ClockTypeOK'
    OBVIOUS
  <2>1. CASE UNCHANGED clvars
    BY <2>1 DEF ClockTypeOK, clvars, clock
  <2>2. CASE ClockNext
    BY <2>2, TickKeepsType DEF ClockNext
  <2> QED BY <2>1, <2>2
<1> QED BY <1>1, ClockStarts, PTL DEF ClockSpec

-----------------------------------------------------------------------------
(* The clock against its schedule: `Due` is the deadline of the last tick.  *)

Due == anchor + tickCount * WallPerTick

NotEarly == anchor # NoAnchor => Due <= wall

OnTime == anchor # NoAnchor => wall <= Due + MaxOversleep + overrun

\* What one tick does to the schedule: the deadline moves by one budget, and
\* the tick returns after it, late by the oversleep or by the overrun.
LEMMA TickMovesDue ==
  ASSUME ClockTypeOK, NEW work \in 0..MaxWork, NEW oversleep \in 0..MaxOversleep,
         Tick(work, oversleep), Mode = "realtime"
  PROVE  /\ Due' = DeadlineAt(wall + work)
         /\ anchor # NoAnchor => Due' = Due + WallPerTick
         /\ anchor = NoAnchor => Due' = wall + work
         /\ Due' \in Int /\ wall' \in Int
         /\ \/ wall' = wall + work /\ Due' <= wall'
            \/ wall' = Due' + oversleep
<1>1. work \in Nat /\ oversleep \in Nat
  BY ClockAssumption
<1>2. tickCount' = tickCount + 1 /\ anchor' = AnchorAt(wall + work)
  BY DEF Tick
<1>3. Due' = DeadlineAt(wall + work)
  BY <1>2 DEF Due, DeadlineAt
<1>4. anchor \in Int => Due' = Due + WallPerTick
  BY <1>2, <1>3, OneMoreBudget, ClockAssumption DEF ClockTypeOK, Due, DeadlineAt, AnchorAt
<1>5. anchor = NoAnchor => Due' = wall + work
  <2>1. anchor = NoAnchor => tickCount = 0
    BY DEF ClockTypeOK
  <2> QED BY <1>1, <1>3, <2>1, ClockAssumption DEF ClockTypeOK, DeadlineAt, AnchorAt
<1>6. Due' \in Int /\ wall + work \in Int
  <2>1. anchor \in Int => Due \in Int
    BY ClockAssumption DEF ClockTypeOK, Due
  <2> QED BY <1>1, <1>4, <1>5, <2>1, ClockAssumption DEF ClockTypeOK
<1>7. wall' = IF Due' - (wall + work) > 0 THEN Due' + oversleep ELSE wall + work
  BY <1>3 DEF Tick
<1> QED BY <1>1, <1>3, <1>4, <1>5, <1>6, <1>7, ClockAssumption DEF ClockTypeOK

LEMMA NotEarlyStep ==
  ClockTypeOK /\ NotEarly /\ [ClockNext]_clvars => NotEarly'
<1> SUFFICES ASSUME ClockTypeOK, NotEarly, [ClockNext]_clvars PROVE NotEarly'
  OBVIOUS
<1>1. CASE UNCHANGED clvars
  BY <1>1 DEF NotEarly, Due, clvars, clock
<1>2. CASE ClockNext
  <2> PICK work \in 0..MaxWork, oversleep \in 0..MaxOversleep : Tick(work, oversleep)
    BY <1>2 DEF ClockNext
  <2>1. CASE Mode = "realtime"
    <3>1. oversleep \in Nat
      BY ClockAssumption
    <3> QED BY <2>1, <3>1, TickMovesDue DEF NotEarly
  <2>2. CASE Mode # "realtime"
    BY <2>2 DEF Tick, NotEarly, ClockTypeOK
  <2> QED BY <2>1, <2>2
<1> QED BY <1>1, <1>2

\* "The clock will never run faster than realtime": simulated time elapsed
\* since the start never exceeds Speedup times the wall time elapsed since the
\* anchor, for every amount of work and of oversleeping.
THEOREM ClockNeverAhead == ClockSpec => []NeverAhead
<1>1. ClockInit => NotEarly
  BY DEF ClockInit, NotEarly
<1>2. ClockTypeOK /\ NotEarly => NeverAhead
  <2> SUFFICES ASSUME ClockTypeOK, NotEarly, anchor # NoAnchor
               PROVE  now - simStart <= Speedup * (wall - anchor)
    BY DEF NeverAhead
  <2>1. anchor \in Int /\ tickCount \in Nat /\ wall \in Int /\ simStart \in Int
    BY DEF ClockTypeOK
  <2>2. tickCount * WallPerTick \in Int /\ tickCount * WallPerTick <= wall - anchor
    BY <2>1, ClockAssumption DEF NotEarly, Due
  <2>3. Speedup * (tickCount * WallPerTick) <= Speedup * (wall - anchor)
    BY <2>1, <2>2, ScaleLE, ClockAssumption
  <2>4. now - simStart = tickCount * (WallPerTick * Speedup)
    BY <2>1, TickSecondsType DEF ClockTypeOK, TickSeconds
  <2>5. tickCount * (WallPerTick * Speedup) = Speedup * (tickCount * WallPerTick)
    BY <2>1, ClockAssumption
  <2> QED BY <2>3, <2>4, <2>5
<1> QED BY <1>1, <1>2, ClockTyping, NotEarlyStep, PTL DEF ClockSpec

\* Neither late sleeps nor work within the budget add up: after any number of
\* ticks, the clock is behind its schedule by one late sleep and by the work
\* that exceeded its budget at most.
THEOREM ClockDoesNotDrift == ClockSpec => []NoDrift
<1>1. ClockInit => OnTime
  BY DEF ClockInit, OnTime
<1>2. ClockTypeOK /\ OnTime /\ [ClockNext]_clvars => OnTime'
  <2> SUFFICES ASSUME ClockTypeOK, OnTime, [ClockNext]_clvars PROVE OnTime'
    OBVIOUS
  <2>1. CASE UNCHANGED clvars
    BY <2>1 DEF OnTime, Due, clvars, clock
  <2>2. CASE ClockNext
    <3> PICK work \in 0..MaxWork, oversleep \in 0..MaxOversleep : Tick(work, oversleep)
      BY <2>2 DEF ClockNext
    <3>1. CASE Mode = "realtime"
      <4>1. work \in Nat /\ oversleep \in Nat /\ oversleep <= MaxOversleep
        BY ClockAssumption
      <4>2. /\ overrun \in Nat /\ overrun' \in Nat /\ overrun <= overrun'
            /\ anchor # NoAnchor => overrun + work <= overrun' + WallPerTick
        BY <4>1, ClockAssumption DEF Tick, Exceeding, ClockTypeOK
      <4>3. anchor \in Int => Due \in Int
        BY ClockAssumption DEF ClockTypeOK, Due
      <4>4. CASE anchor = NoAnchor
        <5>1. Due' \in Int /\ (wall' = Due' \/ wall' = Due' + oversleep)
          BY <3>1, <4>4, TickMovesDue
        <5>2. wall' <= Due' + MaxOversleep
          BY <4>1, <5>1, ClockAssumption
        <5>3. wall' \in Int /\ Due' + MaxOversleep \in Int
          BY <4>1, <5>1, ClockAssumption
        <5> QED BY <4>2, <5>2, <5>3 DEF OnTime
      <4>5. CASE anchor # NoAnchor
        <5>1. Due \in Int /\ wall \in Int /\ MaxOversleep \in Nat /\ WallPerTick \in Nat
          BY <4>3, <4>5, ClockAssumption DEF ClockTypeOK
        <5>2. /\ Due' = Due + WallPerTick
              /\ wall' = wall + work \/ wall' = Due' + oversleep
          BY <3>1, <4>5, TickMovesDue
        <5>3. wall <= Due + MaxOversleep + overrun
          BY <4>5 DEF OnTime
        <5>4. wall' <= Due' + MaxOversleep + overrun'
          <6>1. PICK du \in Int, wa \in Int, mo \in Int, bu \in Int, wo \in Int,
                     sl \in Int, ov \in Int, nv \in Int :
                  /\ du = Due /\ wa = wall /\ mo = MaxOversleep /\ bu = WallPerTick
                  /\ wo = work /\ sl = oversleep /\ ov = overrun /\ nv = overrun'
            BY <4>1, <4>2, <5>1
          <6>2. wa <= du + mo + ov /\ ov + wo <= nv + bu /\ sl <= mo /\ 0 <= nv
            <7>1. wa <= du + mo + ov
              BY <5>3, <6>1
            <7>2. ov + wo <= nv + bu
              BY <4>2, <4>5, <6>1
            <7>3. sl <= mo
              BY <4>1, <6>1
            <7>4. nv \in Nat
              BY <4>2, <6>1
            <7> QED BY <7>1, <7>2, <7>3, <7>4
          <6>3. wa + wo <= du + bu + mo + nv /\ du + bu + sl <= du + bu + mo + nv
            BY <6>2
          <6> QED BY <5>2, <6>1, <6>3
        <5> QED BY <5>4 DEF OnTime
      <4> QED BY <4>4, <4>5
    <3>2. CASE Mode # "realtime"
      BY <3>2 DEF Tick, OnTime, ClockTypeOK
    <3> QED BY <3>1, <3>2
  <2> QED BY <2>1, <2>2
<1>3. ClockTypeOK /\ OnTime => NoDrift
  <2> SUFFICES ASSUME ClockTypeOK, OnTime, anchor # NoAnchor
               PROVE  wall - anchor <= tickCount * WallPerTick + MaxOversleep + overrun
    BY DEF NoDrift
  <2>1. tickCount * WallPerTick \in Int
    BY ClockAssumption DEF ClockTypeOK
  <2> QED BY <2>1, ClockAssumption DEF ClockTypeOK, OnTime, Due
<1> QED BY <1>1, <1>2, <1>3, ClockTyping, PTL DEF ClockSpec
=============================================================================
