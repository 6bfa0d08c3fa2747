------------------------------ MODULE SimClock ------------------------------
(***************************************************************************)
(* SimClock (src/orbit_ops/common/clock.py): simulated time in two modes.  *)
(* In "fast" mode a tick is pure arithmetic; in "realtime" mode it sleeps  *)
(* until a wall-clock deadline anchored at the first tick.                 *)
(*                                                                         *)
(* Wall time is counted in units small enough for a tick's wall budget to  *)
(* be a whole number of them, simulated time in units of 1/Speedup of it.  *)
(* A step is one tick() with the work its caller did since the last one;   *)
(* the two perf_counter() readings inside tick() are one reading here.     *)
(***************************************************************************)
EXTENDS Integers

CONSTANTS Mode,           \* ClockMode: "fast" or "realtime"
          WallPerTick,    \* _wall_per_tick
          Speedup,
          MaxWork,        \* bound: wall time a caller spends between ticks
          MaxOversleep,   \* bound: how late time.sleep returns
          MaxTickCount,   \* bound: ticks
          NoAnchor        \* _wall_start is None

\* __post_init__ refuses a tick or a speedup that is not positive.
ASSUME ClockAssumption ==
  /\ Mode \in {"fast", "realtime"}
  /\ WallPerTick \in Nat \ {0} /\ Speedup \in Nat \ {0}
  /\ MaxWork \in Nat /\ MaxOversleep \in Nat /\ MaxTickCount \in Nat
  /\ NoAnchor \notin Int

TickSeconds == WallPerTick * Speedup

VARIABLES wall,        \* time.perf_counter()
          simStart,    \* start
          now,         \* _now
          tickCount,   \* _tick_count
          anchor,      \* _wall_start
          returned,    \* history: wall time at which the last tick() returned
          overrun      \* history: wall time by which work exceeded its ticks

clock  == <<simStart, now, tickCount, anchor>>
clvars == <<wall, returned, overrun, clock>>

ClockInit ==
  /\ wall = 0 /\ returned = 0 /\ overrun = 0
  /\ simStart = 0 /\ now = 0
  /\ tickCount = 0 /\ anchor = NoAnchor

\* Mutant of NewClock: a clock that is used again keeps its tick count.
NewClockKeepsCount(t) ==
  /\ simStart' = t /\ now' = t
  /\ anchor' = NoAnchor
  /\ overrun' = 0
  /\ UNCHANGED tickCount

\* A new clock, started at simulated time t.
NewClock(t) ==
  /\ simStart' = t /\ now' = t
  /\ tickCount' = 0 /\ anchor' = NoAnchor
  /\ overrun' = 0

\* tick() at wall time t: the first one anchors the clock one budget ago.
AnchorAt(t) == IF anchor = NoAnchor THEN t - WallPerTick ELSE anchor

\* Mutant of DeadlineAt: the ticks before this one are counted, not this one.
DeadlineATickEarly(t) == AnchorAt(t) + tickCount * WallPerTick

\* Mutant of DeadlineAt: each tick sleeps its whole budget after the work.
DeadlineAfterWork(t) == t + WallPerTick

\* The deadline is the anchor plus the budget of all ticks so far; one that has
\* passed is not waited for.
DeadlineAt(t) == AnchorAt(t) + (tickCount + 1) * WallPerTick

\* The part of the work that did not fit the tick's budget; the first tick has
\* none, its budget is anchored after its work.
Exceeding(work) == IF anchor # NoAnchor /\ work > WallPerTick THEN work - WallPerTick ELSE 0

\* Mutant of Tick: a tick that is late returns before it is counted.
TickUncountedWhenLate(work, oversleep) ==
  LET t == wall + work IN
  /\ now' = now + TickSeconds
  /\ anchor' = AnchorAt(t)
  /\ IF DeadlineAt(t) - t > 0
     THEN wall' = DeadlineAt(t) + oversleep /\ tickCount' = tickCount + 1
     ELSE wall' = t /\ UNCHANGED tickCount
  /\ overrun' = overrun + Exceeding(work)
  /\ returned' = wall'
  /\ UNCHANGED simStart

Tick(work, oversleep) ==
  LET t == wall + work IN
  /\ now' = now + TickSeconds
  /\ tickCount' = tickCount + 1
  /\ IF Mode = "realtime"
     THEN /\ anchor' = AnchorAt(t)
          /\ wall' = IF DeadlineAt(t) - t > 0
                     THEN DeadlineAt(t) + oversleep
                     ELSE t
     ELSE wall' = t /\ UNCHANGED anchor
  /\ overrun' = overrun + Exceeding(work)
  /\ returned' = wall'
  /\ UNCHANGED simStart

ClockNext ==
  /\ tickCount < MaxTickCount
  /\ \E work \in 0..MaxWork, oversleep \in 0..MaxOversleep : Tick(work, oversleep)

ClockSpec == ClockInit /\ [][ClockNext]_clvars

-----------------------------------------------------------------------------
(* Properties *)

\* Simulated time is a whole number of ticks past the start.
ClockTypeOK ==
  /\ wall \in Int /\ returned \in Int /\ overrun \in Nat
  /\ simStart \in Int /\ now \in Int
  /\ tickCount \in Nat
  /\ now = simStart + tickCount * TickSeconds
  /\ anchor \in Int \cup {NoAnchor}
  /\ (anchor # NoAnchor) <=> (Mode = "realtime" /\ tickCount > 0)

\* "The clock will never run faster than realtime": measured from the anchor,
\* simulated time is never ahead of Speedup times wall time.
NeverAhead ==
  anchor # NoAnchor => now - simStart <= Speedup * (wall - anchor)

\* Work between ticks eats into the sleep instead of adding to it: however many
\* ticks have passed, the clock is behind its schedule by one late sleep and by
\* the work that exceeded its tick's budget at most; late sleeps do not add up,
\* and work within the budget costs nothing.
NoDrift ==
  anchor # NoAnchor =>
    wall - anchor <= tickCount * WallPerTick + MaxOversleep + overrun

\* "The clock lags but never speeds up to compensate": no tick after the first
\* returns sooner than a tick's budget after the one before it.
NeverSpeedsUp ==
  [][Mode = "realtime" /\ tickCount > 0 => returned' - returned >= WallPerTick]_clvars

=============================================================================
