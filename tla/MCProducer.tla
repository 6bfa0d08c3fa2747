----------------------------- MODULE MCProducer -----------------------------
(***************************************************************************)
(* TLC instances of Producer.                                              *)
(***************************************************************************)
EXTENDS Producer, TLC

\* Names 1 and 2 match the filter, 3 does not; satellite 1 is mostly in the sun,
\* satellite 2 mostly in the shadow.
SkySats == {1, 2}

Dark == <<{2}, {0, 1, 3, 4}>>

Shadow(tle, t) == t % 6 \in Dark[tle]

\* Half a unit of heat more per degree
Radiation == [t \in 276..300 |-> (t - 260) \div 2]

Block(name, tle) ==
  << [mark |-> "name", text |-> name], [mark |-> "1", text |-> tle], [mark |-> "2", text |-> tle] >>

Catalog == Block(3, 2) \o Block(1, 1) \o Block(2, 2)

Truncated == SubSeq(Catalog, 1, 8)

OutOfStep == SubSeq(Catalog, 2, 9) \o SubSeq(Catalog, 1, 1)

Entry(sat, type, key, form, at, rate, limit) ==
  [sat |-> sat, type |-> type, rate |-> rate, limit |-> limit] @@ (key :> [form |-> form, at |-> at])

\* A sensor that gets stuck during a runaway; on the other satellite a runaway and a
\* fade, which grow in a session that starts at 0, meet their limits in one that starts
\* later and stay there; an offset that is bound to the start of each session.
SomeFaults ==
  << Entry(1, "runaway", "start_iso",    "text", 0, 3, 7),
     Entry(2, "runaway", "start_iso",    "text", 0, 4, 7),
     Entry(1, "stuck",   "start_iso",    "text", 1, 0, 0),
     Entry(1, "fade",    "start_offset", "text", 1, 20, 40),
     Entry(2, "fade",    "start_iso",    "text", 0, 20, 50) >>

\* A date without quotes
NoStart == << Entry(2, "stuck", "start_iso", "bare", 0, 0, 0) >>

NoOffset == << Entry(1, "fade", "start_offset", "bare", 1, 10, 50) >>

TwoStarts == << Entry(1, "fade", "start_iso", "text", 1, 10, 50) @@
                ("start_offset" :> [form |-> "null", at |-> 0]) >>

Command(tle, limit, faults) == [tle |-> tle, limit |-> limit, faults |-> faults]

ManyCommands ==
  { Command(Catalog, 15, SomeFaults), Command(Catalog, -1, SomeFaults),
    Command(Catalog, 15, NoStart), Command(Catalog, 15, NoOffset), Command(Catalog, 15, TwoStarts),
    Command(Catalog, 0, <<>>), Command(Truncated, 15, <<>>), Command(OutOfStep, 15, <<>>) }

OneCommand == { Command(Catalog, 15, <<>>) }

=============================================================================
