--------------------------- MODULE Constellation ---------------------------
(***************************************************************************)
(* Constellation (src/orbit_ops/sim/constellation.py): the satellites of a *)
(* TLE file, each with its subsystems' state, advanced together from tick  *)
(* to tick of one clock.                                                   *)
(*                                                                         *)
(* A file is the sequence of its lines that are not blank.  A line is      *)
(* [mark, text]: its mark is what the loader looks at, "1" or "2" at its   *)
(* start or neither, its text the name or the orbital elements it spells.  *)
(***************************************************************************)
EXTENDS SimClock, Figures

CONSTANT Matching   \* names that contain the filter, both in upper case

VARIABLES fleet,    \* _sats: [id, tle, soc, temp] in the order of the file
          results   \* what the last tick() returned, and the time it is for

fleetvars == <<fleet, results>>

\* load_tle_file: blocks of three lines, or no file at all
WellFormed(lines) ==
  /\ Len(lines) % 3 = 0
  /\ \A i \in DOMAIN lines : /\ i % 3 = 2 => lines[i].mark = "1"
                             /\ i % 3 = 0 => lines[i].mark = "2"

Entries(lines) ==
  [k \in 1..Len(lines) \div 3 |->
    [name |-> lines[3 * k - 2].text, tle |-> lines[3 * k - 1].text]]

\* entries[:limit] of Python: a negative limit counts from the end.
Limited(entries, limit) ==
  SubSeq(entries, 1, IF limit < 0 THEN Len(entries) + limit ELSE Lower(limit, Len(entries)))

\* Mutant of Chosen: the limit counts entries of the file.
ChosenLimitedFirst(lines, limit) ==
  SelectSeq(Limited(Entries(lines), limit), LAMBDA e : e.name \in Matching)

\* from_tle_file: filtered first, then limited
Chosen(lines, limit) ==
  Limited(SelectSeq(Entries(lines), LAMBDA e : e.name \in Matching), limit)

\* No constellation without satellites
CanBuild(lines, limit) == WellFormed(lines) /\ Chosen(lines, limit) # <<>>

\* __init__
Build(lines, limit) ==
  LET entries == Chosen(lines, limit) IN
  /\ fleet' = [i \in DOMAIN entries |->
                [id |-> entries[i].name, tle |-> entries[i].tle,
                 soc |-> InitialSoc, temp |-> InitialTemp]]
  /\ results' = [at |-> simStart', ticked |-> <<>>]

\* Mutant of FleetTick: the clock is advanced first.
FleetTickClockFirst(work, oversleep) ==
  /\ Tick(work, oversleep)
  /\ LET ticked == [i \in DOMAIN fleet |->
                     Stepped(fleet[i], InShadow(fleet[i].tle, now'), TickSeconds)]
     IN  /\ results' = [at |-> now', ticked |-> ticked]
         /\ fleet' = [i \in DOMAIN fleet |->
              [fleet[i] EXCEPT !.soc = ticked[i].soc, !.temp = ticked[i].temp]]

\* tick: every satellite for the clock's time, then the clock
FleetTick(work, oversleep) ==
  /\ LET ticked == [i \in DOMAIN fleet |->
                     Stepped(fleet[i], InShadow(fleet[i].tle, now), TickSeconds)]
     IN  /\ results' = [at |-> now, ticked |-> ticked]
         /\ fleet' = [i \in DOMAIN fleet |->
              [fleet[i] EXCEPT !.soc = ticked[i].soc, !.temp = ticked[i].temp]]
  /\ Tick(work, oversleep)

-----------------------------------------------------------------------------
(* Properties *)

\* However long the eclipses are and whenever they come, the battery stays
\* within its limits, and the bus temperature between Coldest and Hottest, which
\* enclose the balances of constant darkness and of constant sunlight.
WithinEnvelope ==
  Stable(TickSeconds) =>
    \A i \in DOMAIN fleet :
      /\ fleet[i].soc \in MinSoc..MaxSoc
      /\ fleet[i].temp \in Coldest..Hottest

=============================================================================
