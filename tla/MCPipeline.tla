----------------------------- MODULE MCPipeline -----------------------------
(***************************************************************************)
(* TLC instances of Pipeline: two satellites, three ticks of half an hour. *)
(***************************************************************************)
EXTENDS Pipeline

TwoHours == 0..1

SkySats == {1, 2}

Shadow(tle, t) == t \in IF tle = 1 THEN {2} ELSE {0, 1}

Radiation == [t \in 276..300 |-> (t - 260) \div 2]

Block(name, tle) ==
  << [mark |-> "name", text |-> name], [mark |-> "1", text |-> tle], [mark |-> "2", text |-> tle] >>

\* One satellite fades.
Fading ==
  << [sat |-> 2, type |-> "fade", start_offset |-> [form |-> "text", at |-> 0],
      rate |-> 10, limit |-> 50] >>

FullDemo == { [tle |-> Block(1, 1) \o Block(2, 2), limit |-> 15, faults |-> Fading] }

ASSUME OneRun

=============================================================================
