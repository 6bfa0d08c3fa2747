-------------------------- MODULE Detection_proofs --------------------------
(***************************************************************************)
(* Detection runs, over any table and for any thresholds and windows: one  *)
(* event per satellite and detector at most, raised at the first row that  *)
(* the detector's rule holds for, and scorecards that add up.              *)
(***************************************************************************)
EXTENDS Detection, FiniteSetTheorems, WellFoundedInduction, TLAPS

Event == [sat : Int, detector : FaultTypes, minute : Int]

\* Once fired, a detector stays so; satellites come one after the other, so a
\* satellite's first row finds no event of it, and its detectors are the ones
\* that know which of them fired.
FiredOnceInv ==
  /\ rows \in Tables /\ next \in 1..Len(rows) + 1
  /\ events \in Seq(Event)
  /\ \A det \in FaultTypes : detectors[det].fired \in BOOLEAN
  /\ current = IF next = 1 THEN NoSat ELSE rows[next - 1].sat
  /\ \A i \in DOMAIN events : \E r \in 1..next - 1 : rows[r].sat = events[i].sat
  /\ \A i \in DOMAIN events :
       events[i].sat = current => detectors[events[i].detector].fired
  /\ OneEventEach

Updated(old, row) ==
  [fade    |-> FadeUpdate(old.fade, row),
   stuck   |-> StuckUpdate(old.stuck, row),
   runaway |-> RunawayUpdate(old.runaway, row)]

\* An update never takes back that a detector fired.
LEMMA UpdatesLatch ==
  ASSUME NEW old, NEW row, \A det \in FaultTypes : old[det].fired \in BOOLEAN
  PROVE  \A det \in FaultTypes :
           /\ Updated(old, row)[det].fired \in BOOLEAN
           /\ old[det].fired => Updated(old, row)[det].fired
<1>1. /\ FadeUpdate(old.fade, row).fired \in BOOLEAN
      /\ old.fade.fired => FadeUpdate(old.fade, row).fired
  BY Zenon DEF FadeUpdate, FaultTypes
<1>2. /\ StuckUpdate(old.stuck, row).fired \in BOOLEAN
      /\ old.stuck.fired => StuckUpdate(old.stuck, row).fired
  BY Zenon DEF StuckUpdate, FaultTypes
<1>3. /\ RunawayUpdate(old.runaway, row).fired \in BOOLEAN
      /\ old.runaway.fired => RunawayUpdate(old.runaway, row).fired
  BY Zenon DEF RunawayUpdate, FaultTypes
<1> QED
  BY <1>1, <1>2, <1>3 DEF Updated, FaultTypes

\* The log of a row's satellite stays free of repetitions when the event that is
\* appended is the first of its detector.
Unique(log) ==
  \A i, j \in DOMAIN log :
    log[i].sat = log[j].sat /\ log[i].detector = log[j].detector => i = j

LEMMA EmittedOnce ==
  ASSUME NEW log \in Seq(Event), Unique(log),
         NEW row, row.sat \in Int, row.minute \in Int,
         NEW det \in FaultTypes, NEW old, NEW new,
         ~old[det].fired =>
           \A i \in DOMAIN log : ~(log[i].sat = row.sat /\ log[i].detector = det)
  PROVE  LET longer == Emitted(log, row, det, old, new) IN
         /\ longer \in Seq(Event)
         /\ Unique(longer)
         /\ \A i \in DOMAIN longer :
              \/ i \in DOMAIN log /\ longer[i] = log[i]
              \/ /\ longer[i].sat = row.sat /\ longer[i].detector = det
                 /\ new[det].fired
<1> DEFINE e == [sat |-> row.sat, detector |-> det, minute |-> row.minute]
<1>1. CASE new[det].fired /\ ~old[det].fired
  <2>1. e \in Event
    BY DEF Event
  <2>2. Emitted(log, row, det, old, new) = Append(log, e)
    BY <1>1 DEF Emitted
  <2>3. /\ Append(log, e) \in Seq(Event)
        /\ Len(Append(log, e)) = Len(log) + 1
        /\ \A i \in 1..Len(log) : Append(log, e)[i] = log[i]
        /\ Append(log, e)[Len(log) + 1] = e
    BY <2>1
  <2> QED
    BY <1>1, <2>1, <2>2, <2>3 DEF Unique
<1>2. CASE ~(new[det].fired /\ ~old[det].fired)
  BY <1>2 DEF Emitted
<1> QED
  BY <1>1, <1>2

LEMMA NewDetectorsHaveNotFired ==
  \A det \in FaultTypes : NewDetectors[det].fired = FALSE
<1>1. NewFade.fired = FALSE /\ NewStuck.fired = FALSE /\ NewRunaway.fired = FALSE
  BY DEF NewFade, NewStuck, NewRunaway
<1>2. /\ NewDetectors.fade = NewFade
      /\ NewDetectors.stuck = NewStuck
      /\ NewDetectors.runaway = NewRunaway
  BY DEF NewDetectors
<1> QED
  BY <1>1, <1>2 DEF FaultTypes

\* What the query's order means for a table's satellites
LEMMA TableOrder ==
  ASSUME NEW t \in Tables
  PROVE  /\ Len(t) \in Nat /\ DOMAIN t = 1..Len(t)
         /\ \A i \in 1..Len(t) : t[i].sat \in Int /\ t[i].minute \in Int
         /\ \A i, j \in 1..Len(t) : i < j => t[i].sat <= t[j].sat
<1> DEFINE Row == [sat : Int, minute : Int, soc : Int, temp : Int, delta : Int]
<1>1. t \in Seq(Row)
  BY TablesAssumption
<1>2. Len(t) \in Nat /\ DOMAIN t = 1..Len(t) /\ \A i \in 1..Len(t) : t[i] \in Row
  <2> HIDE DEF Row
  <2> QED
    BY <1>1
<1>3. \A i \in 1..Len(t) : t[i].sat \in Int /\ t[i].minute \in Int
  BY <1>2
<1>4. \A i, j \in 1..Len(t) :
        i < j => t[i].sat < t[j].sat \/ t[i].sat = t[j].sat
  BY <1>2, TablesAssumption
<1>5. ASSUME NEW i \in 1..Len(t), NEW j \in 1..Len(t), i < j PROVE t[i].sat <= t[j].sat
  <2>1. PICK a \in Int, b \in Int : a = t[i].sat /\ b = t[j].sat
    BY <1>3
  <2>2. a < b \/ a = b
    BY <1>4, <1>5, <2>1
  <2> QED
    BY <2>1, <2>2
<1> QED
  BY <1>2, <1>3, <1>5

LEMMA FiredOnceInit == DetectionInit => FiredOnceInv
<1> SUFFICES ASSUME DetectionInit PROVE FiredOnceInv
  OBVIOUS
<1>1. rows \in Tables /\ next \in 1..Len(rows) + 1 /\ events \in Seq(Event)
  BY TableOrder DEF DetectionInit, FreshRun
<1>2. \A det \in FaultTypes : detectors[det].fired \in BOOLEAN
  BY NewDetectorsHaveNotFired DEF DetectionInit, FreshRun
<1> QED
  BY <1>1, <1>2 DEF DetectionInit, FreshRun, FiredOnceInv, OneEventEach

\* A row of another satellite starts with detectors that have not fired, and no
\* event of that satellite is in the log; the other rows go on from where their
\* satellite's detectors are.
LEMMA RowKeepsFiredOnce == FiredOnceInv /\ ReadRow => FiredOnceInv'
<1> SUFFICES ASSUME FiredOnceInv, ReadRow PROVE FiredOnceInv'
  OBVIOUS
<1> DEFINE row == rows[next]
           old == InstancesFor(row.sat)
           new == Updated(old, row)
           e1  == Emitted(events, row, "fade", old, new)
           e2  == Emitted(e1, row, "stuck", old, new)
           e3  == Emitted(e2, row, "runaway", old, new)
<1>0. Len(rows) \in Nat
  BY TableOrder DEF FiredOnceInv
<1>1. /\ rows \in Tables /\ rows' = rows
      /\ next \in 1..Len(rows) /\ next' = next + 1
  BY <1>0 DEF FiredOnceInv, ReadRow
<1>2. /\ detectors' = new /\ events' = e3 /\ current' = row.sat
  BY DEF ReadRow, Updated
<1>3. \A det \in FaultTypes : old[det].fired \in BOOLEAN
  BY NewDetectorsHaveNotFired DEF InstancesFor, FiredOnceInv
<1>4. \A det \in FaultTypes :
        new[det].fired \in BOOLEAN /\ (old[det].fired => new[det].fired)
  <2> HIDE DEF old, row
  <2> QED
    BY <1>3, UpdatesLatch
<1>5. row.sat \in Int /\ row.minute \in Int
  BY <1>1, TableOrder
<1>6. \A i \in DOMAIN events :
        events[i].sat = row.sat => old[events[i].detector].fired
  <2>1. CASE row.sat = current
    BY <2>1 DEF FiredOnceInv, InstancesFor
  <2>2. CASE row.sat # current
    <3> SUFFICES ASSUME NEW i \in DOMAIN events, events[i].sat = row.sat PROVE FALSE
      OBVIOUS
    <3>1. PICK r \in 1..next - 1 : rows[r].sat = row.sat
      BY DEF FiredOnceInv
    <3>2. next # 1 /\ current = rows[next - 1].sat
      BY <3>1, <1>1 DEF FiredOnceInv
    <3>3. rows[r].sat # rows[next - 1].sat /\ r # next - 1
      BY <2>2, <3>1, <3>2
    <3>4. r \in 1..Len(rows) /\ next - 1 \in 1..Len(rows) /\ r < next - 1 /\ next - 1 < next
      BY <1>0, <1>1, <3>1, <3>3
    <3>5. /\ rows[r].sat <= rows[next - 1].sat /\ rows[next - 1].sat <= rows[next].sat
          /\ rows[r].sat \in Int /\ rows[next - 1].sat \in Int /\ rows[next].sat \in Int
      BY <1>1, <3>4, TableOrder
    <3> QED
      BY <3>1, <3>3, <3>5
  <2> QED
    BY <2>1, <2>2
\* The three updates append one after the other.
<1>7. /\ e3 \in Seq(Event) /\ Unique(e3)
      /\ \A i \in DOMAIN e3 :
           \/ i \in DOMAIN events /\ e3[i] = events[i]
           \/ e3[i].sat = row.sat /\ new[e3[i].detector].fired
  <2> HIDE DEF old, new, row
  <2>0. /\ events \in Seq(Event) /\ Unique(events)
        /\ {"fade", "stuck", "runaway"} = FaultTypes
    BY DEF FiredOnceInv, OneEventEach, Unique, FaultTypes
  <2>1. /\ e1 \in Seq(Event) /\ Unique(e1)
        /\ \A i \in DOMAIN e1 :
             \/ i \in DOMAIN events /\ e1[i] = events[i]
             \/ e1[i].sat = row.sat /\ e1[i].detector = "fade" /\ new["fade"].fired
    BY <2>0, <1>5, <1>6, EmittedOnce
  <2>2. /\ e2 \in Seq(Event) /\ Unique(e2)
        /\ \A i \in DOMAIN e2 :
             \/ i \in DOMAIN e1 /\ e2[i] = e1[i]
             \/ e2[i].sat = row.sat /\ e2[i].detector = "stuck" /\ new["stuck"].fired
    <3> HIDE DEF e1
    <3>1. ~old["stuck"].fired =>
            \A i \in DOMAIN e1 : ~(e1[i].sat = row.sat /\ e1[i].detector = "stuck")
      BY <2>1, <1>6
    <3> QED
      BY <2>0, <2>1, <3>1, <1>5, EmittedOnce
  <2>3. /\ e3 \in Seq(Event) /\ Unique(e3)
        /\ \A i \in DOMAIN e3 :
             \/ i \in DOMAIN e2 /\ e3[i] = e2[i]
             \/ e3[i].sat = row.sat /\ e3[i].detector = "runaway" /\ new["runaway"].fired
    <3> HIDE DEF e1, e2
    <3>1. ~old["runaway"].fired =>
            \A i \in DOMAIN e2 : ~(e2[i].sat = row.sat /\ e2[i].detector = "runaway")
      BY <2>1, <2>2, <1>6
    <3> QED
      BY <2>0, <2>2, <3>1, <1>5, EmittedOnce
  <2> HIDE DEF e1, e2, e3
  <2> QED
    BY <2>1, <2>2, <2>3
<1> HIDE DEF old, new, e1, e2, e3
<1>8. next' \in 1..Len(rows') + 1 /\ rows' \in Tables
  BY <1>0, <1>1
<1>9. current' = IF next' = 1 THEN NoSat ELSE rows'[next' - 1].sat
  BY <1>1, <1>2
<1>10. \A i \in DOMAIN events' : \E r \in 1..next' - 1 : rows'[r].sat = events'[i].sat
  <2> SUFFICES ASSUME NEW i \in DOMAIN e3
               PROVE  \E r \in 1..next : rows[r].sat = e3[i].sat
    BY <1>1, <1>2
  <2>1. CASE i \in DOMAIN events /\ e3[i] = events[i]
    <3>1. PICK r \in 1..next - 1 : rows[r].sat = events[i].sat
      BY <2>1 DEF FiredOnceInv
    <3> QED
      BY <2>1, <3>1, <1>1
  <2>2. CASE e3[i].sat = row.sat
    BY <2>2, <1>1
  <2> QED
    BY <2>1, <2>2, <1>7
<1>11. \A i \in DOMAIN events' :
         events'[i].sat = current' => detectors'[events'[i].detector].fired
  <2> SUFFICES ASSUME NEW i \in DOMAIN e3, e3[i].sat = row.sat
               PROVE  new[e3[i].detector].fired
    BY <1>2
  <2>1. e3[i] \in Event
    BY <1>7
  <2>2. e3[i].detector \in FaultTypes
    BY <2>1 DEF Event
  <2> QED
    BY <2>2, <1>4, <1>6, <1>7
<1>12. OneEventEach'
  BY <1>2, <1>7 DEF OneEventEach, Unique
<1> QED
  BY <1>2, <1>4, <1>7, <1>8, <1>9, <1>10, <1>11, <1>12 DEF FiredOnceInv

LEMMA FiredOnceStep == FiredOnceInv /\ [DetectionNext]_dvars => FiredOnceInv'
<1> SUFFICES ASSUME FiredOnceInv, [DetectionNext]_dvars PROVE FiredOnceInv'
  OBVIOUS
<1>1. CASE ReadRow
  BY <1>1, RowKeepsFiredOnce
<1>2. ASSUME NEW file \in FaultFiles, Score(file) PROVE FiredOnceInv'
  BY <1>2 DEF Score, FiredOnceInv, OneEventEach
<1>3. ASSUME NEW file \in FaultFiles, ScoreRaises(file) PROVE FiredOnceInv'
  BY <1>3 DEF ScoreRaises, FiredOnceInv, OneEventEach
<1>4. CASE UNCHANGED dvars
  BY <1>4 DEF dvars, FiredOnceInv, OneEventEach
<1> QED
  BY <1>1, <1>2, <1>3, <1>4 DEF DetectionNext

-----------------------------------------------------------------------------
\* OneEventEach for every table, threshold and window: run_detection logs at
\* most one event per satellite and detector.
THEOREM DetectorsFireOnce == DetectionSpec => []OneEventEach
<1>1. FiredOnceInv => OneEventEach
  BY DEF FiredOnceInv
<1> QED
  BY FiredOnceInit, FiredOnceStep, <1>1, PTL DEF DetectionSpec

-----------------------------------------------------------------------------
(* The events of a detector are those its rule asks for, given that its     *)
(* state after each row says whether the rule held.                        *)

\* A satellite's rows follow one another.
LEMMA Contiguous ==
  ASSUME NEW t \in Tables, NEW i \in 1..Len(t), NEW k \in 1..Len(t), NEW j \in 1..Len(t),
         i <= k, k <= j, t[i].sat = t[j].sat
  PROVE  t[k].sat = t[i].sat
<1>1. PICK a \in Int, b \in Int, c \in Int : a = t[i].sat /\ b = t[k].sat /\ c = t[j].sat
  BY TableOrder
<1>2. (i < k => a <= b) /\ (k < j => b <= c)
  BY <1>1, TableOrder
<1>3. i \in Int /\ k \in Int /\ j \in Int
  BY TableOrder
<1> QED
  BY <1>1, <1>2, <1>3

\* The log and the state of one detector, whose rule holds for the rows `due`
FollowsRule(det, due) ==
  /\ FiresFirstAt(due, det)
  /\ next > 1 =>
       (detectors[det].fired <=> \E q \in due : q < next /\ rows[q].sat = current)

LEMMA RaisedLonger ==
  ASSUME NEW log \in Seq(Event), NEW row, row.sat \in Int, row.minute \in Int,
         NEW d \in FaultTypes, NEW old, NEW new, NEW det
  PROVE  /\ Emitted(log, row, d, old, new) \in Seq(Event)
         /\ Raised(Emitted(log, row, d, old, new), det) =
              Raised(log, det) \cup
                (IF d = det /\ new[det].fired /\ ~old[det].fired
                 THEN {[sat |-> row.sat, detector |-> det, minute |-> row.minute]} ELSE {})
<1> DEFINE e == [sat |-> row.sat, detector |-> d, minute |-> row.minute]
<1>0. e \in Event /\ e.detector = d
  BY DEF Event
<1>1. CASE new[d].fired /\ ~old[d].fired
  <2> DEFINE longer == Append(log, e)
  <2>1. Emitted(log, row, d, old, new) = longer
    BY <1>1 DEF Emitted
  <2>2. /\ longer \in Seq(Event) /\ Len(longer) = Len(log) + 1 /\ Len(log) \in Nat
        /\ DOMAIN longer = 1..Len(log) + 1 /\ DOMAIN log = 1..Len(log)
        /\ \A i \in 1..Len(log) : longer[i] = log[i]
        /\ longer[Len(log) + 1] = e
    <3> HIDE DEF e
    <3> QED
      BY <1>0
  <2> HIDE DEF e, longer
  <2>3. CASE d = det
    <3>1. Raised(longer, det) = Raised(log, det) \cup {e}
      BY <1>0, <2>2, <2>3 DEF Raised
    <3> QED
      BY <1>1, <2>1, <2>2, <2>3, <3>1 DEF e
  <2>4. CASE d # det
    <3>1. Raised(longer, det) = Raised(log, det)
      BY <1>0, <2>2, <2>4 DEF Raised
    <3> QED
      BY <2>1, <2>2, <2>4, <3>1
  <2> QED
    BY <2>3, <2>4
<1>2. CASE ~(new[d].fired /\ ~old[d].fired)
  BY <1>2 DEF Emitted
<1> QED
  BY <1>1, <1>2

\* A rule that a detector's update follows, row by row, is what its events follow.
LEMMA RowFollowsRule ==
  ASSUME FiredOnceInv, ReadRow, NEW det \in FaultTypes, NEW due, due \subseteq DOMAIN rows,
         FollowsRule(det, due),
         Updated(InstancesFor(rows[next].sat), rows[next])[det].fired <=>
           InstancesFor(rows[next].sat)[det].fired \/ next \in due
  PROVE  FollowsRule(det, due)'
<1> DEFINE row == rows[next]
           old == InstancesFor(row.sat)
           new == Updated(old, row)
           e1  == Emitted(events, row, "fade", old, new)
           e2  == Emitted(e1, row, "stuck", old, new)
           e3  == Emitted(e2, row, "runaway", old, new)
           e   == [sat |-> row.sat, detector |-> det, minute |-> row.minute]
<1>0. Len(rows) \in Nat /\ DOMAIN rows = 1..Len(rows)
  BY TableOrder DEF FiredOnceInv
<1>1. /\ rows \in Tables /\ rows' = rows
      /\ next \in 1..Len(rows) /\ next' = next + 1
  BY <1>0 DEF FiredOnceInv, ReadRow
<1>2. /\ detectors' = new /\ events' = e3 /\ current' = row.sat
  BY DEF ReadRow, Updated
<1>3. row.sat \in Int /\ row.minute \in Int
  BY <1>1, TableOrder
<1>4. old[det].fired <=> \E q \in due : q < next /\ rows[q].sat = row.sat
  <2>1. CASE row.sat = current
    <3>1. next # 1
      BY <1>3, <2>1, TablesAssumption DEF FiredOnceInv
    <3> QED
      BY <1>1, <2>1, <3>1 DEF FollowsRule, InstancesFor
  <2>2. CASE row.sat # current
    <3>1. old[det].fired = FALSE
      BY <2>2, NewDetectorsHaveNotFired DEF InstancesFor
    <3>2. ASSUME NEW q \in due, q < next, rows[q].sat = row.sat PROVE FALSE
      <4>1. q \in 1..Len(rows) /\ next - 1 \in 1..Len(rows) /\ q <= next - 1 /\ next - 1 <= next
            /\ next # 1
        BY <1>0, <1>1, <3>2
      <4>2. rows[next - 1].sat = rows[q].sat
        BY <1>1, <3>2, <4>1, Contiguous
      <4>3. current = rows[next - 1].sat
        BY <4>1 DEF FiredOnceInv
      <4> QED
        BY <2>2, <3>2, <4>2, <4>3
    <3> QED
      BY <3>1, <3>2
  <2> QED
    BY <2>1, <2>2
<1>5. new[det].fired <=> \E q \in due : q < next + 1 /\ rows[q].sat = row.sat
  <2>1. new[det].fired <=> old[det].fired \/ next \in due
    OBVIOUS
  <2> HIDE DEF new, old
  <2> QED
    BY <1>0, <1>1, <1>4, <2>1
<1>6. Raised(e3, det) =
        Raised(events, det) \cup (IF new[det].fired /\ ~old[det].fired THEN {e} ELSE {})
  <2> HIDE DEF old, new, row
  <2>0. events \in Seq(Event) /\ FaultTypes = {"fade", "stuck", "runaway"}
    BY DEF FiredOnceInv, FaultTypes
  <2>1. /\ e1 \in Seq(Event)
        /\ Raised(e1, det) = Raised(events, det) \cup
             (IF "fade" = det /\ new[det].fired /\ ~old[det].fired THEN {e} ELSE {})
    BY <1>3, <2>0, RaisedLonger
  <2>2. /\ e2 \in Seq(Event)
        /\ Raised(e2, det) = Raised(e1, det) \cup
             (IF "stuck" = det /\ new[det].fired /\ ~old[det].fired THEN {e} ELSE {})
    <3> HIDE DEF e1
    <3> QED
      BY <1>3, <2>0, <2>1, RaisedLonger
  <2>3. Raised(e3, det) = Raised(e2, det) \cup
             (IF "runaway" = det /\ new[det].fired /\ ~old[det].fired THEN {e} ELSE {})
    <3> HIDE DEF e1, e2
    <3> QED
      BY <1>3, <2>0, <2>2, RaisedLonger
  <2> HIDE DEF e1, e2, e3, e
  <2> QED
    BY <2>0, <2>1, <2>2, <2>3
<1>7. FirstOf(due)' =
        FirstOf(due) \cup (IF new[det].fired /\ ~old[det].fired THEN {next} ELSE {})
  <2> DEFINE mine == \E q \in due : q < next /\ rows[q].sat = row.sat
  <2>1. (new[det].fired /\ ~old[det].fired) <=> (next \in due /\ ~mine)
    <3>1. new[det].fired <=> old[det].fired \/ next \in due
      OBVIOUS
    <3> HIDE DEF new, old
    <3> QED
      BY <1>4, <3>1
  <2>2. FirstOf(due)' =
          {r \in due : r < next + 1 /\ \A q \in due : rows[q].sat = rows[r].sat => r <= q}
    BY <1>1 DEF FirstOf
  <2>3. \A r \in due : r \in Int
    BY <1>0
  <2>4. ASSUME NEW r \in due
        PROVE  r \in FirstOf(due)' <=> r \in FirstOf(due) \/ (r = next /\ ~mine)
    <3>1. CASE r = next
      BY <1>1, <2>2, <2>3, <3>1 DEF FirstOf
    <3>2. CASE r # next
      BY <1>1, <2>2, <2>3, <3>2 DEF FirstOf
    <3> QED
      BY <3>1, <3>2
  <2> HIDE DEF mine, new, old
  <2>5. FirstOf(due)' \subseteq due /\ FirstOf(due) \subseteq due
    BY <2>2 DEF FirstOf
  <2> QED
    BY <2>1, <2>4, <2>5
<1> HIDE DEF old, new, e1, e2, e3
<1>8. FiresFirstAt(due, det)'
  <2> DEFINE event(r) == [sat |-> rows[r].sat, detector |-> det, minute |-> rows[r].minute]
  <2>1. Raised(events, det) = {event(r) : r \in FirstOf(due)}
    BY DEF FollowsRule, FiresFirstAt
  <2>2. e = event(next)
    OBVIOUS
  <2> HIDE DEF event, e
  <2>3. Raised(e3, det) = {event(r) : r \in FirstOf(due)'}
    BY <1>6, <1>7, <2>1, <2>2
  <2> QED
    BY <1>1, <1>2, <2>3 DEF FiresFirstAt, event
<1>9. next' > 1 =>
        (detectors'[det].fired <=> \E q \in due : q < next' /\ rows'[q].sat = current')
  BY <1>1, <1>2, <1>5
<1> QED
  BY <1>8, <1>9 DEF FollowsRule

-----------------------------------------------------------------------------
(* A detector's window                                                     *)

\* After n rows of the table, w is the window of satellite `sat` over the values
\* x of the rows: its last ones, and all of them while they are few.
Windowed(t, w, n, sat, size, x) ==
  /\ Len(w) \in 0..size /\ Len(w) <= n
  /\ \A i \in 1..Len(w) : t[n - Len(w) + i].sat = sat /\ w[i] = x[n - Len(w) + i]
  /\ Len(w) < size => Len(w) = n \/ t[n - Len(w)].sat # sat

LEMMA EmptyWindow ==
  ASSUME NEW t, NEW n \in Nat, NEW sat, NEW size \in Nat, NEW x, n = 0 \/ t[n].sat # sat
  PROVE  Windowed(t, <<>>, n, sat, size, x)
  BY DEF Windowed

LEMMA SlideKeepsWindow ==
  ASSUME NEW t, NEW w, NEW n \in Nat, NEW sat, NEW size \in Nat \ {0}, NEW x,
         Windowed(t, w, n, sat, size, x), w \in Seq(Int), t[n + 1].sat = sat, x[n + 1] \in Int
  PROVE  /\ Windowed(t, Slide(w, x[n + 1], size), n + 1, sat, size, x)
         /\ Slide(w, x[n + 1], size) \in Seq(Int)
<1> DEFINE v == Append(w, x[n + 1])
<1>1. /\ Len(w) \in Nat /\ Len(w) <= n /\ Len(w) <= size
      /\ \A i \in 1..Len(w) : t[n - Len(w) + i].sat = sat /\ w[i] = x[n - Len(w) + i]
      /\ Len(w) < size => Len(w) = n \/ t[n - Len(w)].sat # sat
  BY DEF Windowed
<1>2. /\ v \in Seq(Int) /\ Len(v) = Len(w) + 1 /\ DOMAIN v = 1..Len(v)
      /\ \A i \in 1..Len(w) : v[i] = w[i]
      /\ v[Len(w) + 1] = x[n + 1]
  BY <1>1
<1>3. \A i \in 1..Len(v) : t[(n + 1) - Len(v) + i].sat = sat /\ v[i] = x[(n + 1) - Len(v) + i]
  <2> SUFFICES ASSUME NEW i \in 1..Len(v)
               PROVE  t[(n + 1) - Len(v) + i].sat = sat /\ v[i] = x[(n + 1) - Len(v) + i]
    OBVIOUS
  <2> HIDE DEF v
  <2>1. CASE i <= Len(w)
    <3>1. i \in 1..Len(w) /\ (n + 1) - Len(v) + i = n - Len(w) + i
      BY <1>1, <1>2, <2>1
    <3> QED
      BY <1>1, <1>2, <3>1
  <2>2. CASE i = Len(w) + 1
    <3>1. (n + 1) - Len(v) + i = n + 1
      BY <1>1, <1>2, <2>2
    <3> QED
      BY <1>2, <2>2, <3>1
  <2> QED
    BY <1>1, <1>2, <2>1, <2>2
<1>4. CASE Len(v) > size
  <2>1. Slide(w, x[n + 1], size) = Tail(v)
    BY <1>4 DEF Slide
  <2> HIDE DEF v
  <2>2. Len(w) = size
    BY <1>1, <1>2, <1>4
  <2>3. /\ Tail(v) \in Seq(Int) /\ Len(Tail(v)) = size /\ DOMAIN Tail(v) = 1..size
        /\ \A i \in 1..size : Tail(v)[i] = v[i + 1]
    BY <1>1, <1>2, <2>2
  <2>4. \A i \in 1..size : /\ i + 1 \in 1..Len(v)
                           /\ (n + 1) - size + i = (n + 1) - Len(v) + (i + 1)
    BY <1>1, <1>2, <2>2
  <2>5. \A i \in 1..size :
          t[(n + 1) - size + i].sat = sat /\ Tail(v)[i] = x[(n + 1) - size + i]
    <3> SUFFICES ASSUME NEW i \in 1..size
                 PROVE  t[(n + 1) - size + i].sat = sat /\ Tail(v)[i] = x[(n + 1) - size + i]
      OBVIOUS
    <3>1. PICK a : a = (n + 1) - size + i /\ a = (n + 1) - Len(v) + (i + 1)
      BY <2>4
    <3>2. t[a].sat = sat /\ v[i + 1] = x[a]
      BY <1>3, <2>4, <3>1
    <3>3. Tail(v)[i] = v[i + 1]
      BY <2>3
    <3> QED
      BY <3>1, <3>2, <3>3
  <2>6. size <= n + 1
    BY <1>1, <2>2
  <2> DEFINE u == Tail(v)
  <2> HIDE DEF u
  <2>7. /\ u \in Seq(Int) /\ Len(u) = size /\ DOMAIN u = 1..size
        /\ \A i \in 1..size : t[(n + 1) - size + i].sat = sat /\ u[i] = x[(n + 1) - size + i]
    BY <2>3, <2>5 DEF u
  <2>8. Windowed(t, u, n + 1, sat, size, x)
    <3>1. /\ Len(u) = size
          /\ \A i \in 1..size : t[(n + 1) - size + i].sat = sat /\ u[i] = x[(n + 1) - size + i]
      BY <2>7
    <3> QED
      BY <2>6, <3>1 DEF Windowed
  <2> QED
    BY <2>1, <2>7, <2>8 DEF u
<1>5. CASE Len(v) <= size
  <2>1. Slide(w, x[n + 1], size) = v
    BY <1>1, <1>2, <1>5 DEF Slide
  <2> HIDE DEF v
  <2>2. Len(v) = n + 1 \/ t[(n + 1) - Len(v)].sat # sat
    <3>1. Len(w) = n \/ t[n - Len(w)].sat # sat
      BY <1>1, <1>2, <1>5
    <3>2. (n + 1) - Len(v) = n - Len(w)
      BY <1>1, <1>2
    <3> QED
      BY <1>1, <1>2, <3>1, <3>2
  <2> QED
    <3>1. Len(v) \in Nat /\ Len(v) <= n + 1 /\ v \in Seq(Int)
      BY <1>1, <1>2
    <3>2. Windowed(t, v, n + 1, sat, size, x)
      <4>1. Len(v) \in Nat /\ Len(v) <= n + 1
        BY <3>1
      <4> QED
        BY <1>3, <1>5, <2>2, <4>1 DEF Windowed
    <3> QED
      BY <2>1, <3>1, <3>2
<1> QED
  BY <1>1, <1>2, <1>4, <1>5

\* A window is full where its satellite has that many rows.
LEMMA FullWindow ==
  ASSUME NEW t \in Tables, NEW w, NEW n \in 1..Len(t), NEW sat, NEW size \in Nat \ {0}, NEW x,
         Windowed(t, w, n, sat, size, x), t[n].sat = sat
  PROVE  /\ Len(w) >= 1
         /\ Len(w) = size <=> (n - size + 1 >= 1 /\ t[n - size + 1].sat = sat)
<1>1. /\ Len(w) \in Nat /\ Len(w) <= n /\ Len(w) <= size
      /\ \A i \in 1..Len(w) : t[n - Len(w) + i].sat = sat
      /\ Len(w) < size => Len(w) = n \/ t[n - Len(w)].sat # sat
  BY DEF Windowed
<1>0. Len(t) \in Nat /\ n \in Nat
  BY TableOrder
<1>2. Len(w) >= 1
  <2> SUFFICES ASSUME Len(w) = 0 PROVE FALSE
    BY <1>1
  <2>1. t[n - 0].sat # sat /\ n - 0 = n
    BY <1>0, <1>1
  <2> QED
    BY <2>1
<1>3. ASSUME Len(w) = size PROVE n - size + 1 >= 1 /\ t[n - size + 1].sat = sat
  BY <1>0, <1>1, <1>2, <1>3
<1>4. ASSUME n - size + 1 >= 1, t[n - size + 1].sat = sat PROVE Len(w) = size
  <2> SUFFICES ASSUME Len(w) < size PROVE FALSE
    BY <1>1
  <2>1. Len(w) # n
    BY <1>0, <1>4
  <2>2. t[n - Len(w)].sat # sat
    BY <1>1, <2>1
  <2>3. /\ n - size + 1 \in 1..Len(t) /\ n - Len(w) \in 1..Len(t)
        /\ n - size + 1 <= n - Len(w) /\ n - Len(w) <= n
    BY <1>0, <1>1, <1>4, <2>1
  <2> QED
    BY <1>4, <2>2, <2>3, Contiguous
<1> QED
  BY <1>2, <1>3, <1>4

-----------------------------------------------------------------------------
(* The runaway detector                                                    *)

LEMMA RowTypes ==
  ASSUME NEW t \in Tables, NEW i \in 1..Len(t)
  PROVE  t[i].soc \in Int /\ t[i].temp \in Int /\ t[i].delta \in Int
<1> DEFINE Row == [sat : Int, minute : Int, soc : Int, temp : Int, delta : Int]
<1>1. t \in Seq(Row)
  BY TablesAssumption
<1>2. t[i] \in Row
  <2> HIDE DEF Row
  <2> QED
    BY <1>1
<1> QED
  BY <1>2

Temps(t) == [i \in DOMAIN t |-> t[i].temp]
Socs(t) == [i \in DOMAIN t |-> t[i].soc]

LEMMA RunawaySees ==
  ASSUME NEW t \in Tables, NEW n \in Nat, n + 1 \in 1..Len(t), NEW d, NEW sat,
         t[n + 1].sat = sat, d.fired \in BOOLEAN, d.window \in Seq(Int),
         Windowed(t, d.window, n, sat, SlopeWindow, Temps(t))
  PROVE  LET new == RunawayUpdate(d, t[n + 1]) IN
         /\ new.window \in Seq(Int) /\ Windowed(t, new.window, n + 1, sat, SlopeWindow, Temps(t))
         /\ new.fired <=> d.fired \/ n + 1 \in RunawayDue(t)
<1> DEFINE s == t[n + 1]
           w == Slide(d.window, s.temp, SlopeWindow)
           new == RunawayUpdate(d, s)
           first == n + 1 - SlopeWindow + 1
<1>0. Len(t) \in Nat /\ DOMAIN t = 1..Len(t) /\ SlopeWindow \in Nat \ {0}
  BY TableOrder, DetectorAssumption
<1>1. Temps(t)[n + 1] = s.temp /\ s.temp \in Int
  BY <1>0, RowTypes DEF Temps
<1>2. w \in Seq(Int) /\ Windowed(t, w, n + 1, sat, SlopeWindow, Temps(t))
  <2> DEFINE x == Temps(t)
  <2>1. /\ Windowed(t, Slide(d.window, x[n + 1], SlopeWindow), n + 1, sat, SlopeWindow, x)
        /\ Slide(d.window, x[n + 1], SlopeWindow) \in Seq(Int)
    <3> HIDE DEF x, s, w, new
    <3> QED
      BY <1>0, <1>1, SlideKeepsWindow DEF x
  <2> QED
    BY <1>1, <2>1
<1>3. /\ new.window = w
      /\ new.fired <=>
           d.fired \/ (s.temp > TemperatureCeiling /\ Len(w) >= SlopeWindow
                       /\ w[Len(w)] - w[1] >= MinRise)
  BY DEF RunawayUpdate
<1>4. Len(w) = SlopeWindow <=> (first >= 1 /\ t[first].sat = sat)
  <2> HIDE DEF w
  <2> QED
    BY <1>0, <1>2, FullWindow
<1>5. Len(w) \in 0..SlopeWindow /\ \A i \in 1..Len(w) : w[i] = Temps(t)[n + 1 - Len(w) + i]
  <2> HIDE DEF w
  <2> QED
    BY <1>2 DEF Windowed
<1>6. ASSUME Len(w) = SlopeWindow
      PROVE  w[Len(w)] = s.temp /\ w[1] = t[first].temp
  <2> HIDE DEF w
  <2>1. 1 \in 1..Len(w) /\ Len(w) \in 1..Len(w)
    BY <1>0, <1>6
  <2>2. n + 1 - Len(w) + Len(w) = n + 1 /\ n + 1 - Len(w) + 1 = first
    BY <1>0, <1>6
  <2>3. first \in DOMAIN t
    BY <1>0, <1>4, <1>6
  <2> QED
    BY <1>1, <1>5, <2>1, <2>2, <2>3 DEF Temps
<1>7. n + 1 \in RunawayDue(t) <=>
        /\ first >= 1 /\ t[first].sat = sat
        /\ s.temp > TemperatureCeiling /\ s.temp - t[first].temp >= MinRise
  BY <1>0 DEF RunawayDue
<1> HIDE DEF w, new, s, first
<1>8. Len(w) >= SlopeWindow <=> Len(w) = SlopeWindow
  BY <1>0, <1>5
<1>9. new.fired <=> d.fired \/ n + 1 \in RunawayDue(t)
  BY <1>3, <1>4, <1>6, <1>7, <1>8, Zenon
<1> QED
  BY <1>2, <1>3, <1>9 DEF new, s
-----------------------------------------------------------------------------
(* The stuck-sensor detector                                               *)

\* A row that contradicts its satellite's one before it
Contradicts(t, k, sat) ==
  k > 1 /\ t[k - 1].sat = sat /\ t[k].sat = sat /\ Mismatch(t[k - 1].temp, t[k])

\* The last c of n rows, and no more, contradict the ones before them.
Stretch(t, c, n, sat) ==
  /\ c \in 0..n
  /\ \A k \in n - c + 1..n : Contradicts(t, k, sat)
  /\ n > c => ~Contradicts(t, n - c, sat)

StuckSeen(t, d, n, sat) ==
  /\ d.last = IF n > 0 /\ t[n].sat = sat THEN t[n].temp ELSE NoReading
  /\ Stretch(t, d.count, n, sat)

LEMMA NewStuckSees ==
  ASSUME NEW t, NEW n \in Nat, NEW sat, n = 0 \/ t[n].sat # sat
  PROVE  StuckSeen(t, NewStuck, n, sat)
  BY DEF StuckSeen, Stretch, Contradicts, NewStuck

\* The run of contradictions is long enough where the rule holds.
LEMMA StretchLong ==
  ASSUME NEW t \in Tables, NEW n \in 1..Len(t), NEW sat, t[n].sat = sat, NEW c,
         Stretch(t, c, n, sat)
  PROVE  c >= RequiredMinutes <=> n \in StuckDue(t)
<1> DEFINE before == n - RequiredMinutes
<1>0. Len(t) \in Nat /\ DOMAIN t = 1..Len(t) /\ RequiredMinutes \in Nat \ {0} /\ c \in 0..n
  BY TableOrder, DetectorAssumption DEF Stretch
<1>1. n \in StuckDue(t) <=>
        /\ before >= 1 /\ t[before].sat = sat
        /\ \A k \in before + 1..n : Mismatch(t[k - 1].temp, t[k])
  BY <1>0 DEF StuckDue
<1>2. ASSUME c >= RequiredMinutes PROVE n \in StuckDue(t)
  <2>1. \A k \in before + 1..n : Contradicts(t, k, sat)
    BY <1>0, <1>2 DEF Stretch
  <2>2. before + 1 \in before + 1..n /\ (before + 1) - 1 = before
    BY <1>0
  <2> HIDE DEF before
  <2>3. before + 1 > 1 /\ t[before].sat = sat
    BY <2>1, <2>2 DEF Contradicts
  <2>4. before \in Int
    BY <1>0 DEF before
  <2> QED
    BY <1>1, <2>1, <2>3, <2>4 DEF Contradicts
<1>3. ASSUME n \in StuckDue(t) PROVE c >= RequiredMinutes
  <2> SUFFICES ASSUME c < RequiredMinutes PROVE FALSE
    BY <1>0
  <2>1. /\ before \in Int /\ before >= 1 /\ t[before].sat = sat
        /\ \A k \in before + 1..n : Mismatch(t[k - 1].temp, t[k])
    BY <1>0, <1>1, <1>3
  <2>2. n - c \in before + 1..n /\ n - c > 1 /\ n - c - 1 >= before /\ n > c
    BY <1>0, <2>1
  <2>3. t[n - c].sat = sat /\ t[n - c - 1].sat = sat
    <3>1. /\ n - c \in 1..Len(t) /\ n - c - 1 \in 1..Len(t) /\ before \in 1..Len(t)
          /\ before <= n - c /\ n - c <= n /\ before <= n - c - 1 /\ n - c - 1 <= n
      BY <1>0, <2>1, <2>2
    <3> QED
      BY <2>1, <3>1, Contiguous
  <2>4. Contradicts(t, n - c, sat)
    BY <2>1, <2>2, <2>3 DEF Contradicts
  <2> QED
    BY <2>2, <2>4 DEF Stretch
<1> QED
  BY <1>2, <1>3

LEMMA StuckSees ==
  ASSUME NEW t \in Tables, NEW n \in Nat, n + 1 \in 1..Len(t), NEW d, NEW sat,
         t[n + 1].sat = sat, d.fired \in BOOLEAN, StuckSeen(t, d, n, sat)
  PROVE  LET new == StuckUpdate(d, t[n + 1]) IN
         /\ StuckSeen(t, new, n + 1, sat)
         /\ new.fired <=> d.fired \/ n + 1 \in StuckDue(t)
<1> DEFINE s == t[n + 1]
           count == IF d.last # NoReading /\ Mismatch(d.last, s) THEN d.count + 1 ELSE 0
           new == StuckUpdate(d, s)
<1>0. /\ Len(t) \in Nat /\ d.count \in 0..n
      /\ \A k \in n - d.count + 1..n : Contradicts(t, k, sat)
      /\ n > d.count => ~Contradicts(t, n - d.count, sat)
  BY TableOrder DEF StuckSeen, Stretch
<1>1. /\ new.last = s.temp /\ new.count = count
      /\ new.fired <=> d.fired \/ count >= RequiredMinutes
  BY DEF StuckUpdate
<1>2. (d.last # NoReading /\ Mismatch(d.last, s)) <=> Contradicts(t, n + 1, sat)
  <2>1. CASE n > 0 /\ t[n].sat = sat
    <3>1. d.last = t[n].temp /\ t[n].temp # NoReading
      <4>1. n \in 1..Len(t)
        BY <1>0, <2>1
      <4> QED
        BY <2>1, <4>1, RowTypes, DetectorAssumption DEF StuckSeen
    <3>2. (n + 1) - 1 = n
      OBVIOUS
    <3> QED
      BY <2>1, <3>1, <3>2 DEF Contradicts
  <2>2. CASE ~(n > 0 /\ t[n].sat = sat)
    <3>1. d.last = NoReading
      BY <2>2 DEF StuckSeen
    <3>2. (n + 1) - 1 = n
      OBVIOUS
    <3> QED
      BY <2>2, <3>1, <3>2 DEF Contradicts
  <2> QED
    BY <2>1, <2>2
<1>3. Stretch(t, count, n + 1, sat)
  <2>1. CASE Contradicts(t, n + 1, sat)
    <3>1. count = d.count + 1
      BY <1>2, <2>1
    <3> HIDE DEF count
    <3>2. /\ count \in 0..n + 1 /\ (n + 1) - count = n - d.count
          /\ (n + 1) - count + 1 = n - d.count + 1
      BY <1>0, <3>1
    <3>3. \A k \in n - d.count + 1..n + 1 : Contradicts(t, k, sat)
      <4> TAKE k \in n - d.count + 1..n + 1
      <4>1. k = n + 1 \/ k \in n - d.count + 1..n
        BY <1>0
      <4> QED
        BY <1>0, <2>1, <4>1
    <3>4. n + 1 > count => ~Contradicts(t, n - d.count, sat)
      BY <1>0, <3>1
    <3> QED
      BY <3>2, <3>3, <3>4 DEF Stretch
  <2>2. CASE ~Contradicts(t, n + 1, sat)
    <3>1. count = 0
      BY <1>2, <2>2
    <3> HIDE DEF count
    <3> QED
      BY <2>2, <3>1 DEF Stretch
  <2> QED
    BY <2>1, <2>2
<1> HIDE DEF count, new
<1>4. count >= RequiredMinutes <=> n + 1 \in StuckDue(t)
  BY <1>3, StretchLong
<1>5. StuckSeen(t, new, n + 1, sat)
  BY <1>1, <1>3 DEF StuckSeen
<1>6. new.fired <=> d.fired \/ n + 1 \in StuckDue(t)
  BY <1>1, <1>4, Zenon
<1> QED
  BY <1>5, <1>6 DEF new

-----------------------------------------------------------------------------
(* The fade detector                                                       *)

LEMMA NatSetInduction ==
  ASSUME NEW T, 0 \in T, \A n \in Nat : n \in T => n + 1 \in T
  PROVE  Nat \subseteq T
<1> SUFFICES ASSUME Nat \ T # {} PROVE FALSE
  OBVIOUS
<1> DEFINE R == OpToRel(<, Nat)
           Rest == Nat \ T
<1>1. PICK x \in Rest : \A y \in Rest : <<y, x>> \notin R
  <2>1. IsWellFoundedOn(R, Nat)
    BY NatLessThanWellFounded
  <2>2. Rest \subseteq Nat /\ Rest # {}
    OBVIOUS
  <2> HIDE DEF R, Rest
  <2> QED
    BY <2>1, <2>2, WFMin
<1>2. x \in Nat /\ x \notin T /\ \A y \in Nat : y \notin T => <<y, x>> \notin OpToRel(<, Nat)
  BY <1>1
<1>3. x \in Nat /\ x \notin T
  BY <1>2
<1> HIDE DEF R, Rest
<1>4. x # 0 /\ x - 1 \in Nat /\ x - 1 < x /\ (x - 1) + 1 = x
  BY <1>3
<1>5. <<x - 1, x>> \in OpToRel(<, Nat)
  BY <1>4 DEF OpToRel
<1>6. x - 1 \in T
  BY <1>2, <1>4, <1>5
<1>7. (x - 1) + 1 \in T
  BY <1>4, <1>6
<1> QED
  BY <1>3, <1>4, <1>7

\* A window that is not empty has a highest value.
LEMMA HighestExists ==
  \A n \in Nat : \A w \in [1..n + 1 -> Int] : \E i \in 1..n + 1 : \A k \in 1..n + 1 : w[k] <= w[i]
<1> DEFINE Has(n) == \A w \in [1..n + 1 -> Int] :
                       \E i \in 1..n + 1 : \A k \in 1..n + 1 : w[k] <= w[i]
           T == {n \in Nat : Has(n)}
<1>1. 0 \in T
  OBVIOUS
<1>2. ASSUME NEW n \in Nat, n \in T PROVE n + 1 \in T
  <2>1. ASSUME NEW w \in [1..(n + 1) + 1 -> Int]
        PROVE  \E i \in 1..(n + 1) + 1 : \A k \in 1..(n + 1) + 1 : w[k] <= w[i]
    <3> DEFINE v == [i \in 1..n + 1 |-> w[i]]
    <3>1. v \in [1..n + 1 -> Int]
      OBVIOUS
    <3>2. PICK i \in 1..n + 1 : \A k \in 1..n + 1 : v[k] <= v[i]
      BY <1>2, <3>1
    <3>3. \A k \in 1..n + 1 : w[k] <= w[i]
      BY <3>2
    <3>4. CASE w[n + 2] <= w[i]
      <4>1. \A k \in 1..(n + 1) + 1 : w[k] <= w[i]
        BY <3>3, <3>4
      <4> QED
        BY <4>1
    <3>5. CASE w[i] <= w[n + 2]
      <4>1. \A k \in 1..(n + 1) + 1 : w[k] <= w[n + 2]
        BY <3>3, <3>5
      <4> QED
        BY <4>1
    <3>6. w[i] \in Int /\ w[n + 2] \in Int
      OBVIOUS
    <3> QED
      BY <3>4, <3>5, <3>6
  <2>2. Has(n + 1)
    BY <2>1
  <2> HIDE DEF Has
  <2> QED
    BY <2>2
<1> HIDE DEF Has
<1>3. Nat \subseteq T
  <2> HIDE DEF T
  <2> QED
    BY <1>1, <1>2, NatSetInduction
<1>4. \A n \in Nat : Has(n)
  BY <1>3
<1> QED
  BY <1>4 DEF Has

LEMMA HighestIn ==
  ASSUME NEW n \in Nat \ {0}, NEW w \in [1..n -> Int]
  PROVE  Highest(w) \in Int
<1>1. n - 1 \in Nat /\ (n - 1) + 1 = n
  OBVIOUS
<1>2. PICK i \in 1..n : \A k \in 1..n : w[k] <= w[i]
  BY <1>1, HighestExists
<1>3. \E x \in {w[j] : j \in DOMAIN w} : \A k \in DOMAIN w : w[k] <= x
  BY <1>2
<1>4. Highest(w) \in {w[j] : j \in DOMAIN w}
  BY <1>3 DEF Highest
<1> QED
  BY <1>4

LEMMA TopIn ==
  ASSUME NEW t \in Tables, NEW r \in 1..Len(t), r >= FadeWindow
  PROVE  Top(t, r) \in Int
<1> DEFINE w == [k \in 1..FadeWindow |-> t[r - FadeWindow + k].soc]
<1>1. FadeWindow \in Nat \ {0} /\ Len(t) \in Nat
  BY DetectorAssumption, TableOrder
<1>2. \A k \in 1..FadeWindow : r - FadeWindow + k \in 1..Len(t)
  BY <1>1
<1>3. w \in [1..FadeWindow -> Int]
  BY <1>2, RowTypes
<1> HIDE DEF w
<1>4. Highest(w) \in Int
  BY <1>1, <1>3, HighestIn
<1> QED
  BY <1>4 DEF Top, w

\* The sum that Drift is read from is the one its definition describes.
LEMMA DriftSum ==
  ASSUME NEW t \in Tables, NEW b, NEW j \in Nat \ {0}, NEW r \in 0..Len(t)
  PROVE  Drift(t, b, j, r) =
           IF r < j THEN 0 ELSE Drift(t, b, j, r - 1) + Top(t, b) - Top(t, r) - FadeSlack
<1> DEFINE g(k) == Top(t, k)
           base == Top(t, b)
           Is(f, m) == f = [k \in 0..m |-> IF k < j THEN 0 ELSE f[k - 1] + base - g(k) - FadeSlack]
           T == {m \in Nat : \E f : Is(f, m)}
<1> HIDE DEF g, base
<1>1. 0 \in T
  <2> DEFINE f == [k \in 0..0 |-> 0]
  <2>1. Is(f, 0)
    OBVIOUS
  <2> QED
    BY <2>1
<1>2. ASSUME NEW m \in Nat, m \in T PROVE m + 1 \in T
  <2>1. PICK f : Is(f, m)
    BY <1>2
  <2> DEFINE h == [k \in 0..m + 1 |->
                    IF k <= m THEN f[k]
                    ELSE IF k < j THEN 0 ELSE f[m] + base - g(k) - FadeSlack]
  <2>2. ASSUME NEW k \in 0..m + 1
        PROVE  h[k] = IF k < j THEN 0 ELSE h[k - 1] + base - g(k) - FadeSlack
    <3>1. CASE k <= m
      <4>1. f[k] = IF k < j THEN 0 ELSE f[k - 1] + base - g(k) - FadeSlack
        BY <2>1, <3>1
      <4>2. h[k] = f[k] /\ (k >= j => h[k - 1] = f[k - 1])
        BY <3>1
      <4> QED
        BY <4>1, <4>2
    <3>2. CASE k = m + 1
      <4>1. ~(k <= m) /\ k - 1 = m /\ m \in 0..m + 1 /\ m <= m
        BY <3>2
      <4>2. h[k - 1] = f[m]
        BY <4>1
      <4>3. h[k] = IF k < j THEN 0 ELSE f[m] + base - g(k) - FadeSlack
        BY <4>1
      <4> QED
        BY <4>2, <4>3
    <3> QED
      BY <3>1, <3>2
  <2>3. Is(h, m + 1)
    <3> DEFINE u == [k \in 0..m + 1 |-> IF k < j THEN 0 ELSE h[k - 1] + base - g(k) - FadeSlack]
    <3>1. \A k \in 0..m + 1 : h[k] = u[k]
      BY <2>2
    <3>2. DOMAIN h = 0..m + 1 /\ h = [k \in 0..m + 1 |-> h[k]]
      OBVIOUS
    <3> HIDE DEF h
    <3> QED
      BY <3>1, <3>2
  <2>4. \E f1 : Is(f1, m + 1)
    <3> HIDE DEF Is, h
    <3> QED
      BY <2>3
  <2> HIDE DEF Is
  <2> QED
    BY <2>4
<1>3. ASSUME NEW m \in Nat PROVE \E f : Is(f, m)
  <2> HIDE DEF Is
  <2>1. Nat \subseteq T
    <3> HIDE DEF T
    <3> QED
      BY <1>1, <1>2, NatSetInduction
  <2> QED
    BY <2>1
<1> DEFINE sum == CHOOSE f : Is(f, Len(t))
<1>4. Is(sum, Len(t))
  <2>1. PICK f : Is(f, Len(t))
    BY <1>3, TableOrder
  <2>2. sum = CHOOSE h : Is(h, Len(t))
    OBVIOUS
  <2> HIDE DEF Is, sum
  <2> QED
    BY <2>1, <2>2, Zenon
<1>5. \A i : Drift(t, b, j, i) = sum[i]
  BY DEF Drift, g, base
<1> HIDE DEF sum
<1>6. sum[r] = IF r < j THEN 0 ELSE sum[r - 1] + base - g(r) - FadeSlack
  BY <1>4
<1> QED
  BY <1>5, <1>6 DEF g, base

\* The row a satellite's samples begin with
Begins(t, f, sat) == t[f].sat = sat /\ (f = 1 \/ t[f - 1].sat # sat)

LEMMA FirstRowIs ==
  ASSUME NEW t \in Tables, NEW r \in 1..Len(t), NEW f \in 1..r, Begins(t, f, t[r].sat)
  PROVE  FirstRow(t, r) = f
<1>0. Len(t) \in Nat /\ r \in Nat /\ f \in Nat /\ f \in 1..Len(t)
  BY TableOrder
<1>1. ASSUME NEW q \in 1..f - 1, t[q].sat = t[r].sat PROVE FALSE
  <2>1. f # 1 /\ q \in 1..Len(t) /\ f - 1 \in 1..Len(t) /\ q <= f - 1 /\ f - 1 <= r
    BY <1>0
  <2>2. t[f - 1].sat = t[q].sat
    BY <1>1, <2>1, Contiguous
  <2> QED
    BY <1>1, <2>1, <2>2 DEF Begins
<1>2. t[f].sat = t[r].sat
  BY DEF Begins
<1>3. \A g \in 1..r :
        (t[g].sat = t[r].sat /\ \A q \in 1..g - 1 : t[q].sat # t[r].sat) <=> g = f
  BY <1>0, <1>1, <1>2
<1>4. f \in 1..r
  OBVIOUS
<1> DEFINE P(g) == t[g].sat = t[r].sat /\ \A q \in 1..g - 1 : t[q].sat # t[r].sat
<1>5. FirstRow(t, r) = CHOOSE g \in 1..r : P(g)
  BY DEF FirstRow
<1>6. \A g \in 1..r : P(g) <=> g = f
  BY <1>3
<1> HIDE DEF P
<1> QED
  BY <1>4, <1>5, <1>6

\* c is zero or the largest sum of the shortfalls from some window on.
Cusum(t, c, b, n) ==
  /\ c \in Nat
  /\ \A j \in b + 1..n : Drift(t, b, j, n) \in Int /\ Drift(t, b, j, n) <= c
  /\ c = 0 \/ \E j \in b + 1..n : c = Drift(t, b, j, n)

LEMMA CusumStep ==
  ASSUME NEW t \in Tables, NEW n \in Nat, n + 1 \in 1..Len(t), NEW b \in 1..n, b >= FadeWindow,
         NEW c, Cusum(t, c, b, n)
  PROVE  LET next_c == AtLeastZero(c + Top(t, b) - Top(t, n + 1) - FadeSlack) IN
         /\ Cusum(t, next_c, b, n + 1)
         /\ next_c >= FadeThreshold <=>
              \E j \in b + 1..n + 1 : Drift(t, b, j, n + 1) >= FadeThreshold
<1>0. /\ Len(t) \in Nat /\ b \in Nat /\ b \in 1..Len(t) /\ n + 1 >= FadeWindow
      /\ FadeWindow \in Nat \ {0} /\ FadeSlack \in Nat /\ FadeThreshold \in Nat \ {0}
  BY TableOrder, DetectorAssumption
<1>1. PICK high \in Int, top \in Int : high = Top(t, b) /\ top = Top(t, n + 1)
  BY <1>0, TopIn
<1> DEFINE step == high - top - FadeSlack
           next_c == AtLeastZero(c + high - top - FadeSlack)
<1>2. step \in Int /\ c \in Nat /\ next_c = IF c + step < 0 THEN 0 ELSE c + step
  BY <1>0 DEF AtLeastZero, Cusum
<1>3. ASSUME NEW j \in b + 1..n
      PROVE  /\ Drift(t, b, j, n) \in Int /\ Drift(t, b, j, n) <= c
             /\ Drift(t, b, j, n + 1) = Drift(t, b, j, n) + step
  <2>1. Drift(t, b, j, n) \in Int /\ Drift(t, b, j, n) <= c
    BY DEF Cusum
  <2>2. Drift(t, b, j, n + 1) =
          IF n + 1 < j THEN 0 ELSE Drift(t, b, j, (n + 1) - 1) + high - top - FadeSlack
    <3>1. j \in Nat \ {0} /\ n + 1 \in 0..Len(t)
      BY <1>0
    <3> QED
      BY <1>1, <3>1, DriftSum
  <2>3. ~(n + 1 < j) /\ (n + 1) - 1 = n
    BY <1>0
  <2> QED
    BY <1>0, <2>1, <2>2, <2>3
<1>4. Drift(t, b, n + 1, n + 1) = step
  <2>1. n + 1 \in Nat \ {0} /\ n + 1 \in 0..Len(t) /\ n \in 0..Len(t)
    BY <1>0
  <2>2. Drift(t, b, n + 1, n) = 0
    BY <2>1, DriftSum
  <2>3. Drift(t, b, n + 1, n + 1) =
          IF n + 1 < n + 1 THEN 0
          ELSE Drift(t, b, n + 1, (n + 1) - 1) + high - top - FadeSlack
    BY <1>1, <2>1, DriftSum
  <2>4. ~(n + 1 < n + 1) /\ (n + 1) - 1 = n
    BY <1>0
  <2> QED
    BY <1>0, <2>2, <2>3, <2>4
<1> HIDE DEF step, next_c
<1>5. \A j \in b + 1..n + 1 :
        Drift(t, b, j, n + 1) \in Int /\ Drift(t, b, j, n + 1) <= next_c
  <2> SUFFICES ASSUME NEW j \in b + 1..n + 1
               PROVE  Drift(t, b, j, n + 1) \in Int /\ Drift(t, b, j, n + 1) <= next_c
    OBVIOUS
  <2>1. CASE j = n + 1
    BY <1>2, <1>4, <2>1
  <2>2. CASE j # n + 1
    <3>1. j \in b + 1..n
      BY <1>0, <2>2
    <3> QED
      BY <1>2, <1>3, <3>1
  <2> QED
    BY <2>1, <2>2
<1>6. next_c = 0 \/ \E j \in b + 1..n + 1 : next_c = Drift(t, b, j, n + 1)
  <2> SUFFICES ASSUME next_c # 0 PROVE \E j \in b + 1..n + 1 : next_c = Drift(t, b, j, n + 1)
    OBVIOUS
  <2>1. next_c = c + step
    BY <1>2
  <2>2. CASE c = 0
    <3>1. n + 1 \in b + 1..n + 1
      BY <1>0
    <3> QED
      BY <1>2, <1>4, <2>1, <2>2, <3>1
  <2>3. CASE c # 0
    <3>1. PICK j \in b + 1..n : c = Drift(t, b, j, n)
      BY <2>3 DEF Cusum
    <3>2. j \in b + 1..n + 1
      BY <1>0
    <3> QED
      BY <1>3, <2>1, <3>1, <3>2
  <2> QED
    BY <2>2, <2>3
<1>7. next_c \in Nat
  BY <1>2
<1>8. next_c >= FadeThreshold <=>
        \E j \in b + 1..n + 1 : Drift(t, b, j, n + 1) >= FadeThreshold
  BY <1>0, <1>5, <1>6, <1>7
<1>9. Cusum(t, next_c, b, n + 1)
  BY <1>5, <1>6, <1>7 DEF Cusum
<1> QED
  BY <1>1, <1>8, <1>9 DEF next_c

FadeSeen(t, d, n, sat) ==
  /\ d.window \in Seq(Int) /\ Windowed(t, d.window, n, sat, FadeWindow, Socs(t))
  /\ d.cusum \in Nat
  /\ Len(d.window) < FadeWindow => d.baseline = NoReading /\ d.cusum = 0
  /\ Len(d.window) = FadeWindow =>
       \E f \in 1..n : /\ Begins(t, f, sat) /\ f + FadeWindow - 1 <= n
                       /\ d.baseline = Top(t, f + FadeWindow - 1)
                       /\ Cusum(t, d.cusum, f + FadeWindow - 1, n)

LEMMA NewFadeSees ==
  ASSUME NEW t, NEW n \in Nat, NEW sat, n = 0 \/ t[n].sat # sat
  PROVE  FadeSeen(t, NewFade, n, sat)
<1>1. /\ NewFade.window = <<>> /\ NewFade.baseline = NoReading /\ NewFade.cusum = 0
      /\ FadeWindow \in Nat \ {0}
  BY DetectorAssumption DEF NewFade
<1>2. Windowed(t, <<>>, n, sat, FadeWindow, Socs(t)) /\ <<>> \in Seq(Int) /\ Len(<<>>) = 0
  <2>1. <<>> \in Seq(Int) /\ Len(<<>>) = 0
    OBVIOUS
  <2>2. FadeWindow \in Nat
    BY <1>1
  <2> QED
    BY <2>1, <2>2, EmptyWindow
<1> QED
  BY <1>1, <1>2 DEF FadeSeen

LEMMA SlideLen ==
  ASSUME NEW w \in Seq(Int), NEW v \in Int, NEW size \in Nat \ {0}, Len(w) <= size
  PROVE  Len(Slide(w, v, size)) = IF Len(w) < size THEN Len(w) + 1 ELSE size
<1> DEFINE u == Append(w, v)
<1>1. u \in Seq(Int) /\ Len(u) = Len(w) + 1 /\ Len(w) \in Nat
  OBVIOUS
<1>2. Slide(w, v, size) = IF Len(u) > size THEN Tail(u) ELSE u
  BY DEF Slide
<1> HIDE DEF u
<1>3. Len(u) > size => Len(Tail(u)) = Len(u) - 1
  BY <1>1
<1> QED
  BY <1>1, <1>2, <1>3

\* The highest value of a full window is the ceiling at its last row.
LEMMA TopOfWindow ==
  ASSUME NEW t \in Tables, NEW n \in 1..Len(t), NEW w \in Seq(Int), NEW sat,
         Windowed(t, w, n, sat, FadeWindow, Socs(t)), Len(w) = FadeWindow
  PROVE  Highest(w) = Top(t, n)
<1> DEFINE u == [k \in 1..FadeWindow |-> t[n - FadeWindow + k].soc]
<1>0. Len(t) \in Nat /\ DOMAIN t = 1..Len(t) /\ n \in Nat
  BY TableOrder
<1>1. /\ \A i \in 1..FadeWindow : w[i] = Socs(t)[n - FadeWindow + i]
      /\ FadeWindow <= n /\ FadeWindow \in Nat
  BY DetectorAssumption DEF Windowed
<1>2. \A i \in 1..FadeWindow : w[i] = u[i]
  <2> TAKE i \in 1..FadeWindow
  <2>1. n - FadeWindow + i \in DOMAIN t
    BY <1>0, <1>1
  <2> QED
    BY <1>1, <2>1 DEF Socs
<1>3. DOMAIN w = 1..FadeWindow /\ w = [i \in 1..FadeWindow |-> w[i]]
  <2>1. DOMAIN w = 1..Len(w)
    OBVIOUS
  <2>2. w = [i \in 1..Len(w) |-> w[i]]
    OBVIOUS
  <2> QED
    BY <2>1, <2>2
<1>4. w = u
  BY <1>2, <1>3
<1> QED
  BY <1>4 DEF Top, u

LEMMA FadeSees ==
  ASSUME NEW t \in Tables, NEW n \in Nat, n + 1 \in 1..Len(t), NEW d, NEW sat,
         t[n + 1].sat = sat, d.fired \in BOOLEAN, FadeSeen(t, d, n, sat)
  PROVE  LET new == FadeUpdate(d, t[n + 1]) IN
         /\ FadeSeen(t, new, n + 1, sat)
         /\ new.fired <=> d.fired \/ n + 1 \in FadeDue(t)
<1> DEFINE s == t[n + 1]
           w == Slide(d.window, s.soc, FadeWindow)
           new == FadeUpdate(d, s)
           due == \E j \in FirstRow(t, n + 1) + FadeWindow - 1 + 1..n + 1 :
                    Drift(t, FirstRow(t, n + 1) + FadeWindow - 1, j, n + 1) >= FadeThreshold
<1>0. /\ Len(t) \in Nat /\ DOMAIN t = 1..Len(t) /\ FadeWindow \in Nat \ {0}
      /\ FadeThreshold \in Nat \ {0} /\ NoReading \notin Int
  BY TableOrder, DetectorAssumption
<1>1. Socs(t)[n + 1] = s.soc /\ s.soc \in Int
  BY <1>0, RowTypes DEF Socs
<1>2. w \in Seq(Int) /\ Windowed(t, w, n + 1, sat, FadeWindow, Socs(t))
  <2> DEFINE x == Socs(t)
  <2>1. /\ Windowed(t, Slide(d.window, x[n + 1], FadeWindow), n + 1, sat, FadeWindow, x)
        /\ Slide(d.window, x[n + 1], FadeWindow) \in Seq(Int)
    <3>1. d.window \in Seq(Int) /\ Windowed(t, d.window, n, sat, FadeWindow, x)
      BY DEF FadeSeen
    <3>2. x[n + 1] \in Int
      BY <1>1
    <3> HIDE DEF x, s, w, new
    <3> QED
      BY <1>0, <3>1, <3>2, SlideKeepsWindow
  <2> QED
    BY <1>1, <2>1
<1>3. /\ Len(d.window) \in Nat /\ Len(d.window) <= FadeWindow
      /\ Len(d.window) <= n
      /\ Len(w) = IF Len(d.window) < FadeWindow THEN Len(d.window) + 1 ELSE FadeWindow
  <2>1. d.window \in Seq(Int) /\ Windowed(t, d.window, n, sat, FadeWindow, Socs(t))
    BY DEF FadeSeen
  <2>2. Len(d.window) \in 0..FadeWindow /\ Len(d.window) <= n
    BY <2>1 DEF Windowed
  <2>3. Len(d.window) \in Nat /\ Len(d.window) <= FadeWindow
    BY <1>0, <2>2
  <2> QED
    BY <1>0, <1>1, <2>1, <2>2, <2>3, SlideLen
<1>4. n + 1 \in FadeDue(t) <=> due
  BY <1>0 DEF FadeDue
<1> DEFINE full == Len(w) >= FadeWindow
           watching == full /\ d.baseline # NoReading
           cusum == AtLeastZero(d.cusum + d.baseline - Highest(w) - FadeSlack)
<1>5. /\ new.window = w
      /\ new.baseline = IF full /\ ~watching THEN Highest(w) ELSE d.baseline
      /\ new.cusum = IF watching THEN cusum ELSE d.cusum
      /\ new.fired <=> d.fired \/ (watching /\ cusum >= FadeThreshold)
  BY DEF FadeUpdate
<1> HIDE DEF new, s, w, due, cusum
<1>6. full <=> Len(w) = FadeWindow
  BY <1>0, <1>3
<1>7. Len(w) = FadeWindow => Highest(w) = Top(t, n + 1)
  BY <1>2, TopOfWindow
\* The first window is not full, or has just become so.
<1>8. CASE Len(d.window) < FadeWindow
  <2>1. d.baseline = NoReading /\ d.cusum = 0
    BY <1>8 DEF FadeSeen
  <2>0. /\ \A l, W \in Nat : l < W /\ l <= n =>
              /\ n - l + 1 \in 1..n + 1 /\ n - l + W >= n + 1
              /\ (n - l + 1) - 1 = n - l /\ (n - l + 1) + W - 1 = n - l + W
              /\ n + 1 - (l + 1) + 1 = n - l + 1
              /\ l + 1 = W => n - l + W = n + 1
              /\ n - l + 1 = 1 <=> l = n
    OBVIOUS
  <2>a. PICK l \in Nat : l = Len(d.window)
    BY <1>3
  <2>b. PICK W \in Nat : W = FadeWindow
    BY <1>0
  <2>c. l < W /\ l <= n /\ Len(w) = l + 1
    BY <1>3, <1>8, <2>a, <2>b
  <2>d. PICK f \in 1..n + 1 :
          /\ f = n - l + 1 /\ f + W - 1 >= n + 1 /\ f - 1 = n - l
          /\ n + 1 - (l + 1) + 1 = f
          /\ l + 1 = W => f + W - 1 = n + 1
          /\ f = 1 <=> l = n
    BY <2>0, <2>c
  <2>2. f \in 1..n + 1 /\ f + FadeWindow - 1 >= n + 1 /\ Len(w) = l + 1
    BY <2>b, <2>c, <2>d
  <2>3. Begins(t, f, sat)
    <3>1. Len(d.window) = n \/ t[n - Len(d.window)].sat # sat
      BY <1>8 DEF FadeSeen, Windowed
    <3>2. f - 1 = n - Len(d.window) /\ (f = 1 <=> Len(d.window) = n)
      BY <2>a, <2>d
    <3>3. t[f].sat = sat
      <4>1. \A i \in 1..Len(w) : t[n + 1 - Len(w) + i].sat = sat
        BY <1>2 DEF Windowed
      <4>2. 1 \in 1..Len(w) /\ n + 1 - Len(w) + 1 = f
        BY <2>a, <2>c, <2>d
      <4> QED
        BY <4>1, <4>2
    <3>4. f \in Int
      BY <2>2
    <3>5. f = 1 \/ t[f - 1].sat # sat
      BY <3>1, <3>2, Zenon
    <3> QED
      BY <3>3, <3>5 DEF Begins
  <2>4. ~due
    <3>1. FirstRow(t, n + 1) = f
      BY <2>2, <2>3, FirstRowIs
    <3>2. f + FadeWindow - 1 + 1..n + 1 = {}
      BY <1>0, <2>2
    <3> QED
      BY <3>1, <3>2 DEF due
  <2>5. ~watching
    BY <2>1
  <2>6. new.fired <=> d.fired \/ n + 1 \in FadeDue(t)
    BY <1>4, <1>5, <2>4, <2>5, Zenon
  <2>7. new.cusum = 0
    BY <1>5, <2>1, <2>5
  <2>8. CASE Len(w) < FadeWindow
    <3>1. new.baseline = NoReading
      BY <1>5, <1>6, <2>1, <2>8
    <3>2. Len(w) # FadeWindow
      BY <2>8
    <3> QED
      BY <1>2, <1>5, <2>6, <2>7, <3>1, <3>2 DEF FadeSeen, new, s
  <2>9. CASE Len(w) = FadeWindow
    <3>1. f + FadeWindow - 1 = n + 1
      BY <2>b, <2>c, <2>d, <2>9
    <3>2. new.baseline = Top(t, n + 1)
      BY <1>5, <1>6, <1>7, <2>5, <2>9
    <3>3. Cusum(t, 0, n + 1, n + 1)
      BY DEF Cusum
    <3>4. Len(w) >= FadeWindow /\ ~(Len(w) < FadeWindow)
      BY <1>0, <2>9
    <3>5. FadeSeen(t, new, n + 1, sat)
      <4>1. \E g \in 1..n + 1 : /\ Begins(t, g, sat) /\ g + FadeWindow - 1 <= n + 1
                                /\ new.baseline = Top(t, g + FadeWindow - 1)
                                /\ Cusum(t, new.cusum, g + FadeWindow - 1, n + 1)
        BY <2>2, <2>3, <2>7, <3>1, <3>2, <3>3
      <4> QED
        BY <1>2, <1>5, <2>7, <3>4, <4>1 DEF FadeSeen
    <3> QED
      BY <2>6, <3>5 DEF new, s
  <2> QED
    BY <1>0, <1>3, <2>8, <2>9
\* The window slides.
<1>9. CASE Len(d.window) = FadeWindow
  <2>1. PICK f \in 1..n : /\ Begins(t, f, sat) /\ f + FadeWindow - 1 <= n
                          /\ d.baseline = Top(t, f + FadeWindow - 1)
                          /\ Cusum(t, d.cusum, f + FadeWindow - 1, n)
    BY <1>9 DEF FadeSeen
  <2> DEFINE b == f + FadeWindow - 1
  <2>2. /\ b \in 1..n /\ b >= FadeWindow /\ b \in 1..Len(t) /\ f \in 1..n + 1
        /\ Len(w) = FadeWindow
    BY <1>0, <1>3, <1>9, <2>1
  <2>3. d.baseline = Top(t, b) /\ d.baseline \in Int
    BY <2>1, <2>2, TopIn
  <2>4. watching
    BY <1>0, <1>6, <2>2, <2>3
  <2>5. FirstRow(t, n + 1) = f
    BY <2>1, <2>2, FirstRowIs
  <2>6. due <=> \E j \in b + 1..n + 1 : Drift(t, b, j, n + 1) >= FadeThreshold
    BY <2>5 DEF due
  <2> HIDE DEF b, watching
  <2>7. /\ Cusum(t, cusum, b, n + 1)
        /\ cusum >= FadeThreshold <=>
             \E j \in b + 1..n + 1 : Drift(t, b, j, n + 1) >= FadeThreshold
    <3>1. Cusum(t, d.cusum, b, n)
      BY <2>1 DEF b
    <3>2. cusum = AtLeastZero(d.cusum + Top(t, b) - Top(t, n + 1) - FadeSlack)
      BY <1>7, <2>2, <2>3 DEF cusum
    <3> QED
      BY <2>2, <3>1, <3>2, CusumStep
  <2>8. new.fired <=> d.fired \/ n + 1 \in FadeDue(t)
    BY <1>4, <1>5, <2>4, <2>6, <2>7, Zenon
  <2>9. new.cusum = cusum /\ new.baseline = d.baseline /\ new.window = w
    BY <1>5, <2>4
  <2>10. FadeSeen(t, new, n + 1, sat)
    <3>1. \E g \in 1..n + 1 : /\ Begins(t, g, sat) /\ g + FadeWindow - 1 <= n + 1
                              /\ new.baseline = Top(t, g + FadeWindow - 1)
                              /\ Cusum(t, new.cusum, g + FadeWindow - 1, n + 1)
      <4>1. f + FadeWindow - 1 = b /\ b <= n + 1
        BY <1>0, <2>2 DEF b
      <4> QED
        BY <2>1, <2>2, <2>3, <2>7, <2>9, <4>1
    <3>2. ~(Len(w) < FadeWindow) /\ cusum \in Nat
      BY <1>0, <2>2, <2>7 DEF Cusum
    <3> QED
      BY <1>2, <2>9, <3>1, <3>2 DEF FadeSeen
  <2> QED
    BY <2>8, <2>10 DEF new, s
<1> QED
  BY <1>0, <1>3, <1>8, <1>9

-----------------------------------------------------------------------------
(* The run as a whole                                                      *)

\* What a satellite's detectors know after n rows
Seen(t, d, n, sat) ==
  /\ d.runaway.window \in Seq(Int)
  /\ Windowed(t, d.runaway.window, n, sat, SlopeWindow, Temps(t))
  /\ StuckSeen(t, d.stuck, n, sat)
  /\ FadeSeen(t, d.fade, n, sat)

RulesInv ==
  /\ next > 1 => Seen(rows, detectors, next - 1, current)
  /\ FollowsRule("fade", FadeDue(rows))
  /\ FollowsRule("stuck", StuckDue(rows))
  /\ FollowsRule("runaway", RunawayDue(rows))

LEMMA NewSees ==
  ASSUME NEW t, NEW n \in Nat, NEW sat, n = 0 \/ t[n].sat # sat
  PROVE  Seen(t, NewDetectors, n, sat)
<1>1. /\ NewDetectors.runaway.window = <<>>
      /\ NewDetectors.stuck = NewStuck /\ NewDetectors.fade = NewFade
  BY DEF NewDetectors, NewRunaway
<1>2. Windowed(t, <<>>, n, sat, SlopeWindow, Temps(t))
  BY EmptyWindow, DetectorAssumption
<1>3. StuckSeen(t, NewStuck, n, sat)
  BY NewStuckSees
<1>4. <<>> \in Seq(Int)
  OBVIOUS
<1>5. FadeSeen(t, NewFade, n, sat)
  BY NewFadeSees
<1> QED
  BY <1>1, <1>2, <1>3, <1>4, <1>5 DEF Seen

\* The detectors a row is fed to are those of its satellite.
LEMMA InstancesSee ==
  ASSUME FiredOnceInv, RulesInv, next \in 1..Len(rows)
  PROVE  Seen(rows, InstancesFor(rows[next].sat), next - 1, rows[next].sat)
<1>0. Len(rows) \in Nat /\ next - 1 \in Nat
  BY TableOrder DEF FiredOnceInv
<1>1. CASE rows[next].sat = current
  <2>1. next # 1
    BY <1>1, TableOrder, TablesAssumption DEF FiredOnceInv
  <2>2. next > 1
    BY <2>1
  <2> QED
    BY <1>1, <2>2 DEF RulesInv, InstancesFor
<1>2. CASE rows[next].sat # current
  <2>1. next - 1 = 0 \/ rows[next - 1].sat # rows[next].sat
    BY <1>0, <1>2 DEF FiredOnceInv
  <2> QED
    BY <1>0, <1>2, <2>1, NewSees DEF InstancesFor
<1> QED
  BY <1>1, <1>2

LEMMA DueRows ==
  ASSUME NEW t
  PROVE  /\ FadeDue(t) \subseteq DOMAIN t /\ StuckDue(t) \subseteq DOMAIN t
         /\ RunawayDue(t) \subseteq DOMAIN t
  BY DEF FadeDue, StuckDue, RunawayDue

LEMMA RowKeepsRules ==
  ASSUME FiredOnceInv, RulesInv, ReadRow
  PROVE  RulesInv'
<1> DEFINE n == next - 1
           row == rows[next]
           old == InstancesFor(row.sat)
           new == Updated(old, row)
<1>0. Len(rows) \in Nat /\ rows \in Tables
  BY TableOrder DEF FiredOnceInv
<1>1. /\ rows' = rows /\ next \in 1..Len(rows) /\ next' = next + 1
      /\ n \in Nat /\ n + 1 = next /\ next' - 1 = n + 1
      /\ detectors' = new /\ current' = row.sat
  BY <1>0 DEF FiredOnceInv, ReadRow, Updated
<1>2. \A det \in FaultTypes : old[det].fired \in BOOLEAN
  BY NewDetectorsHaveNotFired DEF InstancesFor, FiredOnceInv
<1>3. Seen(rows, old, n, row.sat)
  BY <1>1, InstancesSee
<1>4. /\ new.runaway = RunawayUpdate(old.runaway, row)
      /\ new.stuck = StuckUpdate(old.stuck, row)
      /\ new.fade = FadeUpdate(old.fade, row)
  BY DEF Updated
<1>5. /\ new.runaway.window \in Seq(Int)
      /\ Windowed(rows, new.runaway.window, n + 1, row.sat, SlopeWindow, Temps(rows))
      /\ new.runaway.fired <=> old.runaway.fired \/ next \in RunawayDue(rows)
  <2>1. old.runaway.fired \in BOOLEAN
    BY <1>2 DEF FaultTypes
  <2>2. /\ old.runaway.window \in Seq(Int)
        /\ Windowed(rows, old.runaway.window, n, row.sat, SlopeWindow, Temps(rows))
    BY <1>3 DEF Seen
  <2> HIDE DEF old, new
  <2> QED
    BY <1>0, <1>1, <1>4, <2>1, <2>2, RunawaySees
<1>6. /\ StuckSeen(rows, new.stuck, n + 1, row.sat)
      /\ new.stuck.fired <=> old.stuck.fired \/ next \in StuckDue(rows)
  <2>1. old.stuck.fired \in BOOLEAN
    BY <1>2 DEF FaultTypes
  <2>2. StuckSeen(rows, old.stuck, n, row.sat)
    BY <1>3 DEF Seen
  <2> HIDE DEF old, new, n
  <2>3. rows[n + 1] = row /\ rows[n + 1].sat = row.sat /\ n + 1 \in 1..Len(rows)
    BY <1>1
  <2>4. /\ StuckSeen(rows, StuckUpdate(old.stuck, rows[n + 1]), n + 1, row.sat)
        /\ StuckUpdate(old.stuck, rows[n + 1]).fired <=>
             old.stuck.fired \/ n + 1 \in StuckDue(rows)
    BY <1>0, <1>1, <2>1, <2>2, <2>3, StuckSees
  <2> QED
    BY <1>1, <1>4, <2>3, <2>4
<1>7. /\ FadeSeen(rows, new.fade, n + 1, row.sat)
      /\ new.fade.fired <=> old.fade.fired \/ next \in FadeDue(rows)
  <2>1. old.fade.fired \in BOOLEAN
    BY <1>2 DEF FaultTypes
  <2>2. FadeSeen(rows, old.fade, n, row.sat)
    BY <1>3 DEF Seen
  <2> HIDE DEF old, new, n
  <2>3. rows[n + 1] = row /\ rows[n + 1].sat = row.sat /\ n + 1 \in 1..Len(rows)
    BY <1>1
  <2>4. /\ FadeSeen(rows, FadeUpdate(old.fade, rows[n + 1]), n + 1, row.sat)
        /\ FadeUpdate(old.fade, rows[n + 1]).fired <=>
             old.fade.fired \/ n + 1 \in FadeDue(rows)
    BY <1>0, <1>1, <2>1, <2>2, <2>3, FadeSees
  <2> QED
    BY <1>1, <1>4, <2>3, <2>4
<1>8. FollowsRule("fade", FadeDue(rows))'
  <2>1. PICK due : due = FadeDue(rows)
    OBVIOUS
  <2>2. FollowsRule("fade", due)'
    BY <1>7, <2>1, DueRows, RowFollowsRule DEF RulesInv, FaultTypes
  <2> QED
    BY <1>1, <2>1, <2>2
<1>9. FollowsRule("stuck", StuckDue(rows))'
  <2>1. PICK due : due = StuckDue(rows)
    OBVIOUS
  <2>2. FollowsRule("stuck", due)'
    BY <1>6, <2>1, DueRows, RowFollowsRule DEF RulesInv, FaultTypes
  <2> QED
    BY <1>1, <2>1, <2>2
<1>10. FollowsRule("runaway", RunawayDue(rows))'
  <2>1. PICK due : due = RunawayDue(rows)
    OBVIOUS
  <2>2. FollowsRule("runaway", due)'
    BY <1>5, <2>1, DueRows, RowFollowsRule DEF RulesInv, FaultTypes
  <2> QED
    BY <1>1, <2>1, <2>2
<1>11. Seen(rows', detectors', next' - 1, current')
  BY <1>1, <1>5, <1>6, <1>7 DEF Seen
<1> QED
  BY <1>9, <1>10, <1>11, <1>8 DEF RulesInv

LEMMA RulesInit == DetectionInit => RulesInv
<1> SUFFICES ASSUME DetectionInit PROVE RulesInv
  OBVIOUS
<1>1. next = 1 /\ events = <<>> /\ rows \in Tables
  BY DEF DetectionInit, FreshRun
<1>2. ASSUME NEW det, NEW due, due \subseteq DOMAIN rows PROVE FollowsRule(det, due)
  <2>1. Raised(events, det) = {}
    BY <1>1 DEF Raised
  <2>2. FirstOf(due) = {}
    BY <1>1, <1>2, TableOrder DEF FirstOf
  <2> QED
    BY <1>1, <2>1, <2>2 DEF FollowsRule, FiresFirstAt
<1> QED
  BY <1>1, <1>2, DueRows DEF RulesInv

LEMMA RulesStep == FiredOnceInv /\ RulesInv /\ [DetectionNext]_dvars => RulesInv'
<1> SUFFICES ASSUME FiredOnceInv, RulesInv, [DetectionNext]_dvars PROVE RulesInv'
  OBVIOUS
<1>1. CASE ReadRow
  BY <1>1, RowKeepsRules
<1>2. CASE UNCHANGED <<rows, next, current, detectors, events>>
  BY <1>2 DEF RulesInv, FollowsRule, FiresFirstAt, FirstOf
<1>3. ASSUME NEW file \in FaultFiles, Score(file) \/ ScoreRaises(file)
      PROVE  UNCHANGED <<rows, next, current, detectors, events>>
  BY <1>3 DEF Score, ScoreRaises
<1>4. CASE UNCHANGED dvars
  BY <1>2, <1>4 DEF dvars
<1> QED
  BY <1>1, <1>2, <1>3, <1>4 DEF DetectionNext

\* FadeEventsFollowCusum for any table, window, slack and threshold.
THEOREM FadesAreFound == DetectionSpec => []FadeEventsFollowCusum
<1>1. RulesInv => FadeEventsFollowCusum
  BY DEF RulesInv, FollowsRule, FadeEventsFollowCusum
<1> QED
  BY FiredOnceInit, FiredOnceStep, RulesInit, RulesStep, <1>1, PTL DEF DetectionSpec

\* StuckEventsFollowRuns for any table, residual threshold and number of minutes.
THEOREM StuckSensorsAreFound == DetectionSpec => []StuckEventsFollowRuns
<1>1. RulesInv => StuckEventsFollowRuns
  BY DEF RulesInv, FollowsRule, StuckEventsFollowRuns
<1> QED
  BY FiredOnceInit, FiredOnceStep, RulesInit, RulesStep, <1>1, PTL DEF DetectionSpec

\* RunawayEventsFollowClimbs for any table, ceiling, window and rise.
THEOREM RunawaysAreFound == DetectionSpec => []RunawayEventsFollowClimbs
<1>1. RulesInv => RunawayEventsFollowClimbs
  BY DEF RulesInv, FollowsRule, RunawayEventsFollowClimbs
<1> QED
  BY FiredOnceInit, FiredOnceStep, RulesInit, RulesStep, <1>1, PTL DEF DetectionSpec
-----------------------------------------------------------------------------
(* The run's state and its scorecards                                      *)

SatsBefore(n) == {rows[i].sat : i \in 1..n - 1}

Scored ==
  /\ faults \in Seq([sat : Int, type : FaultTypes, form : {"text", "bare", "null"}, at : Int,
                     relative : BOOLEAN])
  /\ ~Unscorable(events, faults)
  /\ scorecards = [det \in FaultTypes |-> Scorecard(events, faults, det)]

RunInv ==
  /\ next = 1 => detectors = NewDetectors
  /\ IsFiniteSet(SatsBefore(next)) /\ sats = Cardinality(SatsBefore(next))
  /\ dpc \in {"read", "scored", "raised"}
  /\ dpc = "scored" => Scored

LEMMA RowCountsSatellites ==
  ASSUME FiredOnceInv, RunInv, ReadRow
  PROVE  IsFiniteSet(SatsBefore(next))' /\ (sats = Cardinality(SatsBefore(next)))'
<1> DEFINE row == rows[next]
<1>1. /\ rows' = rows /\ next' = next + 1 /\ next \in 1..Len(rows) /\ Len(rows) \in Nat
      /\ sats' = IF row.sat = current THEN sats ELSE sats + 1
      /\ current = IF next = 1 THEN NoSat ELSE rows[next - 1].sat
  BY TableOrder DEF FiredOnceInv, ReadRow
<1>2. SatsBefore(next)' = SatsBefore(next) \cup {row.sat}
  <2>1. 1..next' - 1 = (1..next - 1) \cup {next}
    BY <1>1
  <2> QED
    BY <1>1, <2>1 DEF SatsBefore
<1>3. row.sat \in SatsBefore(next) <=> row.sat = current
  <2>1. CASE next = 1
    <3>1. SatsBefore(next) = {}
      BY <2>1 DEF SatsBefore
    <3>2. row.sat \in Int
      BY <1>1, TableOrder DEF FiredOnceInv
    <3> QED
      BY <1>1, <2>1, <3>1, <3>2, TablesAssumption
  <2>2. CASE next # 1
    <3>1. next - 1 \in 1..next - 1 /\ next - 1 \in 1..Len(rows) /\ current = rows[next - 1].sat
      BY <1>1, <2>2
    <3>2. row.sat = current => row.sat \in SatsBefore(next)
      BY <3>1 DEF SatsBefore
    <3>3. ASSUME NEW i \in 1..next - 1, rows[i].sat = row.sat PROVE row.sat = current
      <4>1. i \in 1..Len(rows) /\ i <= next - 1 /\ next - 1 <= next
        BY <1>1
      <4>2. rows[next - 1].sat = rows[i].sat
        BY <1>1, <3>1, <3>3, <4>1, Contiguous DEF FiredOnceInv
      <4> QED
        BY <3>1, <3>3, <4>2
    <3> QED
      BY <3>2, <3>3 DEF SatsBefore
  <2> QED
    BY <2>1, <2>2
<1> QED
  BY <1>1, <1>2, <1>3, FS_AddElement DEF RunInv

\* Binding the offsets changes neither the faults nor how often there are any.
LEMMA BoundFaults ==
  ASSUME NEW file \in FaultFiles, NEW start \in Int
  PROVE  /\ Bound(file, start) \in Seq([sat : Int, type : FaultTypes,
                                        form : {"text", "bare", "null"}, at : Int,
                                        relative : BOOLEAN])
         /\ DOMAIN Bound(file, start) = DOMAIN file
         /\ \A i \in DOMAIN file : /\ Bound(file, start)[i].sat = file[i].sat
                                   /\ Bound(file, start)[i].type = file[i].type
                                   /\ Bound(file, start)[i].form = file[i].form
<1> DEFINE Spec == [sat : Int, type : FaultTypes, form : {"text", "bare", "null"}, at : Int,
                    relative : BOOLEAN]
           bound == Bound(file, start)
<1>1. file \in Seq(Spec)
  BY FaultFilesAssumption
<1>2. Len(file) \in Nat /\ DOMAIN file = 1..Len(file) /\ \A i \in 1..Len(file) : file[i] \in Spec
  <2> HIDE DEF Spec
  <2> QED
    BY <1>1
<1>3. DOMAIN bound = 1..Len(file)
  BY <1>2 DEF Bound
<1>4. ASSUME NEW i \in 1..Len(file)
      PROVE  /\ bound[i] \in Spec
             /\ bound[i].sat = file[i].sat /\ bound[i].type = file[i].type
             /\ bound[i].form = file[i].form
  <2>1. bound[i] = IF file[i].relative /\ file[i].form = "text"
                   THEN [file[i] EXCEPT !.at = start + @, !.relative = FALSE] ELSE file[i]
    BY <1>2 DEF Bound
  <2>2. file[i] \in Spec
    BY <1>2
  <2> HIDE DEF bound
  <2>3. CASE file[i].relative /\ file[i].form = "text"
    <3>1. bound[i] = [file[i] EXCEPT !.at = start + file[i].at, !.relative = FALSE]
      BY <2>1, <2>3
    <3>2. start + file[i].at \in Int
      BY <2>2
    <3> QED
      BY <2>2, <3>1, <3>2
  <2>4. CASE ~(file[i].relative /\ file[i].form = "text")
    BY <2>1, <2>2, <2>4
  <2> QED
    BY <2>3, <2>4
<1>5. bound \in [1..Len(file) -> Spec]
  <2>1. bound = [i \in 1..Len(file) |-> bound[i]]
    BY <1>2 DEF Bound
  <2> HIDE DEF bound, Spec
  <2> QED
    BY <1>4, <2>1
<1>6. bound \in Seq(Spec)
  <2> HIDE DEF bound, Spec
  <2> QED
    BY <1>2, <1>5
<1> QED
  BY <1>2, <1>3, <1>4, <1>6

\* Among finitely many whole numbers one is the least.
LEMMA LeastExists ==
  \A n \in Nat : \A I \in SUBSET (1..n), f \in [1..n -> Int] :
    I # {} => \E i \in I : \A k \in I : f[i] <= f[k]
<1> DEFINE Has(n) == \A I \in SUBSET (1..n), f \in [1..n -> Int] :
                       I # {} => \E i \in I : \A k \in I : f[i] <= f[k]
           T == {n \in Nat : Has(n)}
<1>1. 0 \in T
  <2>1. 1..0 = {}
    OBVIOUS
  <2>2. Has(0)
    BY <2>1
  <2> HIDE DEF Has
  <2> QED
    BY <2>2
<1>2. ASSUME NEW n \in Nat, n \in T PROVE n + 1 \in T
  <2>1. ASSUME NEW I \in SUBSET (1..n + 1), NEW f \in [1..n + 1 -> Int], I # {}
        PROVE  \E i \in I : \A k \in I : f[i] <= f[k]
    <3> DEFINE g == [i \in 1..n |-> f[i]]
               J == I \ {n + 1}
    <3>1. g \in [1..n -> Int] /\ J \in SUBSET (1..n)
      OBVIOUS
    <3>2. CASE J = {}
      <4>1. I = {n + 1}
        BY <2>1, <3>2
      <4> QED
        BY <4>1
    <3>3. CASE J # {}
      <4>1. PICK i \in J : \A k \in J : g[i] <= g[k]
        BY <1>2, <3>1, <3>3
      <4>2. i \in I /\ \A k \in J : f[i] <= f[k]
        BY <3>1, <4>1
      <4>3. f[i] \in Int /\ f[n + 1] \in Int
        BY <4>2
      <4>4. CASE n + 1 \in I /\ f[n + 1] <= f[i]
        <5>1. ASSUME NEW k \in I PROVE f[n + 1] <= f[k]
          <6>1. CASE k = n + 1
            BY <4>3, <6>1
          <6>2. CASE k \in J
            <7>1. f[i] <= f[k] /\ f[k] \in Int
              BY <4>2, <6>2
            <7> QED
              BY <4>3, <4>4, <7>1
          <6> QED
            BY <6>1, <6>2
        <5> QED
          BY <4>4, <5>1
      <4>5. CASE ~(n + 1 \in I /\ f[n + 1] <= f[i])
        <5>1. ASSUME NEW k \in I PROVE f[i] <= f[k]
          <6>1. CASE k = n + 1
            BY <4>3, <4>5, <6>1
          <6>2. CASE k \in J
            BY <4>2, <6>2
          <6> QED
            BY <6>1, <6>2
        <5> QED
          BY <4>2, <5>1
      <4> QED
        BY <4>4, <4>5
    <3> QED
      BY <3>2, <3>3
  <2>2. Has(n + 1)
    BY <2>1
  <2> HIDE DEF Has
  <2> QED
    BY <2>2
<1> HIDE DEF Has
<1>3. Nat \subseteq T
  <2> HIDE DEF T
  <2> QED
    BY <1>1, <1>2, NatSetInduction
<1>4. \A n \in Nat : Has(n)
  BY <1>3
<1> QED
  BY <1>4 DEF Has

\* A mart with rows has an earliest minute.
LEMMA ProxyStartIn ==
  ASSUME rows \in Tables, rows # <<>>
  PROVE  ProxyStart \in Int
<1> DEFINE minutes == {rows[i].minute : i \in DOMAIN rows}
           f == [i \in 1..Len(rows) |-> rows[i].minute]
<1>1. Len(rows) \in Nat /\ DOMAIN rows = 1..Len(rows) /\ f \in [1..Len(rows) -> Int]
  BY TableOrder
<1>2. 1..Len(rows) # {}
  <2> DEFINE Row == [sat : Int, minute : Int, soc : Int, temp : Int, delta : Int]
  <2>1. rows \in Seq(Row)
    BY TablesAssumption
  <2> HIDE DEF Row
  <2>2. Len(rows) # 0
    BY <2>1
  <2>3. PICK n \in Nat : n = Len(rows)
    BY <1>1
  <2>4. 1 \in 1..n
    BY <2>2, <2>3
  <2> QED
    BY <2>3, <2>4
<1>3. PICK i \in 1..Len(rows) : \A k \in 1..Len(rows) : f[i] <= f[k]
  BY <1>1, <1>2, LeastExists
<1>4. rows[i].minute \in minutes /\ \A m \in minutes : rows[i].minute <= m
  BY <1>1, <1>3
<1>5. minutes \subseteq Int
  BY <1>1, TableOrder
<1> HIDE DEF minutes
<1>6. (CHOOSE m \in minutes : \A n \in minutes : m <= n) \in minutes
  BY <1>4
<1>7. ASSUME NEW m \in Int PROVE MinuteLength * m \in Int
  BY EvaluatorAssumption
<1> QED
  BY <1>5, <1>6, <1>7 DEF ProxyStart, minutes

LEMMA ScoreKeepsRun ==
  ASSUME FiredOnceInv, RunInv, NEW file \in FaultFiles, Score(file)
  PROVE  RunInv'
<1>1. /\ dpc' = "scored" /\ UNCHANGED <<rows, next, detectors, events, sats>>
      /\ faults' = IF HasOffsets(file) THEN Bound(file, ProxyStart) ELSE file
      /\ scorecards' = [det \in FaultTypes |-> Scorecard(events, faults', det)]
      /\ ~Unscorable(events, file) /\ (HasOffsets(file) => rows # <<>>)
  BY DEF Score
<1>2. Scored'
  <2>1. CASE HasOffsets(file)
    <3>1. ProxyStart \in Int
      BY <1>1, <2>1, ProxyStartIn DEF FiredOnceInv
    <3>2. ~Unscorable(events, Bound(file, ProxyStart))
      BY <1>1, <3>1, BoundFaults DEF Unscorable
    <3>3. ~Unscorable(events', faults')
      BY <1>1, <2>1, <3>2
    <3>4. faults' \in Seq([sat : Int, type : FaultTypes, form : {"text", "bare", "null"},
                           at : Int, relative : BOOLEAN])
      BY <1>1, <2>1, <3>1, BoundFaults
    <3> QED
      BY <1>1, <3>3, <3>4 DEF Scored
  <2>2. CASE ~HasOffsets(file)
    <3>1. faults' = file /\ events' = events
      BY <1>1, <2>2
    <3>2. ~Unscorable(events', faults')
      BY <1>1, <3>1
    <3> QED
      BY <1>1, <3>1, <3>2, FaultFilesAssumption DEF Scored
  <2> QED
    BY <2>1, <2>2
<1> QED
  BY <1>1, <1>2 DEF RunInv, SatsBefore

LEMMA RunInit == DetectionInit => RunInv
<1> SUFFICES ASSUME DetectionInit PROVE RunInv
  OBVIOUS
<1>1. next = 1 /\ sats = 0 /\ dpc = "read" /\ detectors = NewDetectors
  BY DEF DetectionInit, FreshRun
<1>2. SatsBefore(next) = {}
  BY <1>1 DEF SatsBefore
<1> QED
  BY <1>1, <1>2, FS_EmptySet DEF RunInv

LEMMA RunStep == FiredOnceInv /\ RunInv /\ [DetectionNext]_dvars => RunInv'
<1> SUFFICES ASSUME FiredOnceInv, RunInv, [DetectionNext]_dvars PROVE RunInv'
  OBVIOUS
<1>1. CASE ReadRow
  <2>1. dpc' = "read" /\ next' # 1
    <3>1. dpc' = "read" /\ next' = next + 1 /\ next \in 1..Len(rows) + 1
      BY <1>1 DEF ReadRow, FiredOnceInv
    <3> QED
      BY <3>1
  <2> QED
    BY <1>1, <2>1, RowCountsSatellites DEF RunInv
<1>2. ASSUME NEW file \in FaultFiles, Score(file) PROVE RunInv'
  BY <1>2, ScoreKeepsRun
<1>3. ASSUME NEW file \in FaultFiles, ScoreRaises(file) PROVE RunInv'
  BY <1>3 DEF ScoreRaises, RunInv, SatsBefore
<1>4. CASE UNCHANGED dvars
  BY <1>4 DEF dvars, RunInv, SatsBefore, Scored
<1> QED
  BY <1>1, <1>2, <1>3, <1>4 DEF DetectionNext

\* DetectionTypeOK for any table and any fault files: however the satellites'
\* series begin and end, there was one set of detectors for each.
THEOREM DetectionTyping == DetectionSpec => []DetectionTypeOK
<1>1. ASSUME FiredOnceInv, RulesInv, RunInv PROVE DetectionTypeOK
  <2>1. next \in 1..Len(rows) + 1 /\ sats = Cardinality({rows[i].sat : i \in 1..next - 1})
        /\ dpc \in {"read", "scored", "raised"}
    BY <1>1 DEF FiredOnceInv, RunInv, SatsBefore
  <2>2. Len(rows) \in Nat /\ FadeWindow \in Nat /\ SlopeWindow \in Nat
    BY <1>1, TableOrder, DetectorAssumption DEF FiredOnceInv
  <2>3. PICK n \in Nat : \E sat : Seen(rows, detectors, n, sat)
    <3>1. CASE next = 1
      BY <1>1, <3>1, NewSees DEF RunInv
    <3>2. CASE next > 1
      <4>1. next - 1 \in Nat
        BY <2>1, <2>2
      <4> QED
        BY <1>1, <3>2, <4>1 DEF RulesInv
    <3> QED
      BY <2>1, <2>2, <3>1, <3>2
  <2>4. /\ Len(detectors.fade.window) \in 0..FadeWindow
        /\ Len(detectors.runaway.window) \in 0..SlopeWindow
        /\ detectors.stuck.count \in Nat /\ detectors.fade.cusum \in Nat
    BY <2>3 DEF Seen, FadeSeen, StuckSeen, Stretch, Windowed
  <2> QED
    BY <2>1, <2>2, <2>4 DEF DetectionTypeOK
<1>2. FiredOnceInv /\ RulesInv /\ RunInv => DetectionTypeOK
  BY <1>1
<1> QED
  BY FiredOnceInit, FiredOnceStep, RulesInit, RulesStep, RunInit, RunStep, <1>2, PTL
  DEF DetectionSpec

\* A start of finitely many is the first one.
LEMMA FirstStart ==
  ASSUME Scored, NEW k \in DOMAIN events, StartsOf(faults, events[k].sat, events[k].detector) # {}
  PROVE  Min(StartsOf(faults, events[k].sat, events[k].detector)) \in Int
<1> DEFINE Spec == [sat : Int, type : FaultTypes, form : {"text", "bare", "null"}, at : Int,
                    relative : BOOLEAN]
           starts == StartsOf(faults, events[k].sat, events[k].detector)
           I == {i \in DOMAIN faults : /\ faults[i].sat = events[k].sat
                                       /\ faults[i].type = events[k].detector}
           f == [i \in 1..Len(faults) |-> faults[i].at]
<1>1. Len(faults) \in Nat /\ DOMAIN faults = 1..Len(faults)
      /\ \A i \in 1..Len(faults) : faults[i] \in Spec
  <2>1. faults \in Seq(Spec)
    BY DEF Scored
  <2> HIDE DEF Spec
  <2> QED
    BY <2>1
<1>2. starts = {faults[i].at : i \in I}
  BY DEF StartsOf
<1>3. f \in [1..Len(faults) -> Int] /\ I \in SUBSET (1..Len(faults)) /\ I # {}
  BY <1>1, <1>2
<1>4. PICK i \in I : \A j \in I : f[i] <= f[j]
  BY <1>1, <1>3, LeastExists
<1>5. faults[i].at \in starts /\ \A s \in starts : faults[i].at <= s
  BY <1>1, <1>2, <1>4
<1>6. starts \subseteq Int
  BY <1>1, <1>2
<1> HIDE DEF starts
<1>7. Min(starts) \in starts
  BY <1>5 DEF Min
<1> QED
  BY <1>6, <1>7 DEF starts

\* A detector's events, and those of them that its faults account for
Own(det) == {k \in DOMAIN events : events[k].detector = det}
HitsOf(det) == {k \in Own(det) : Hits(events[k], faults)}

\* The faults of a detector
OfType(det) == {i \in DOMAIN faults : faults[i].type = det}

LEMMA FiniteScores ==
  ASSUME FiredOnceInv, Scored, NEW det
  PROVE  /\ IsFiniteSet(Own(det)) /\ IsFiniteSet(HitsOf(det)) /\ IsFiniteSet(OfType(det))
         /\ HitsOf(det) \subseteq Own(det)
<1>1. Len(events) \in Nat /\ DOMAIN events = 1..Len(events)
  BY DEF FiredOnceInv
<1>2. Len(faults) \in Nat /\ DOMAIN faults = 1..Len(faults)
  <2> DEFINE Spec == [sat : Int, type : FaultTypes, form : {"text", "bare", "null"}, at : Int,
                      relative : BOOLEAN]
  <2>1. faults \in Seq(Spec)
    BY DEF Scored
  <2> HIDE DEF Spec
  <2> QED
    BY <2>1
<1>3. IsFiniteSet(DOMAIN events) /\ IsFiniteSet(DOMAIN faults)
  BY <1>1, <1>2, FS_Interval
<1>4. /\ Own(det) \in SUBSET DOMAIN events /\ HitsOf(det) \in SUBSET DOMAIN events
      /\ OfType(det) \in SUBSET DOMAIN faults /\ HitsOf(det) \subseteq Own(det)
  BY DEF Own, HitsOf, OfType
<1> QED
  BY <1>3, <1>4, FS_Subset

\* With one fault of a kind, each event that hits is about one fault, and each
\* fault that was not missed has one event.
LEMMA HitsAreFaultsFound ==
  ASSUME FiredOnceInv, Scored, OneFaultOfAKind, NEW det
  PROVE  /\ IsFiniteSet(OfType(det) \ Missed(events, faults, det))
         /\ Cardinality(OfType(det) \ Missed(events, faults, det)) = Cardinality(HitsOf(det))
<1> DEFINE found == OfType(det) \ Missed(events, faults, det)
           about == [k \in HitsOf(det) |-> CHOOSE i \in OfType(det) : faults[i].sat = events[k].sat]
<1>1. ASSUME NEW k \in HitsOf(det)
      PROVE  \E i \in OfType(det) : faults[i].sat = events[k].sat
  <2>1. StartsOf(faults, events[k].sat, det) # {}
    BY DEF HitsOf, Own, Hits
  <2> QED
    BY <2>1 DEF StartsOf, OfType
<1>2. ASSUME NEW k \in HitsOf(det)
      PROVE  about[k] \in OfType(det) /\ faults[about[k]].sat = events[k].sat
  <2>1. about[k] = CHOOSE i \in OfType(det) : faults[i].sat = events[k].sat
    OBVIOUS
  <2> QED
    BY <1>1, <2>1
<1>3. DOMAIN about = HitsOf(det)
  OBVIOUS
<1> HIDE DEF about
<1>4. ASSUME NEW i \in OfType(det), NEW j \in OfType(det), faults[i].sat = faults[j].sat
      PROVE  i = j
  BY <1>4 DEF OneFaultOfAKind, OfType
<1>5. ASSUME NEW k \in HitsOf(det) PROVE about[k] \in found
  <2>1. /\ events[k].sat = faults[about[k]].sat /\ events[k].detector = det
        /\ Hits(events[k], faults) /\ k \in DOMAIN events
    BY <1>2 DEF HitsOf, Own
  <2> QED
    BY <1>2, <2>1 DEF Missed
<1>6. ASSUME NEW k \in HitsOf(det), NEW m \in HitsOf(det), about[k] = about[m] PROVE k = m
  <2>1. events[k].sat = events[m].sat
    BY <1>2, <1>6
  <2>2. /\ k \in DOMAIN events /\ m \in DOMAIN events
        /\ events[k].detector = events[m].detector
    BY DEF HitsOf, Own
  <2> QED
    BY <2>1, <2>2 DEF FiredOnceInv, OneEventEach
<1>7. ASSUME NEW i \in found PROVE \E k \in HitsOf(det) : about[k] = i
  <2>1. i \in OfType(det) /\ i \notin Missed(events, faults, det)
    OBVIOUS
  <2>2. PICK k \in DOMAIN events : /\ events[k].sat = faults[i].sat
                                   /\ events[k].detector = det /\ Hits(events[k], faults)
    BY <2>1 DEF Missed, OfType
  <2>3. k \in HitsOf(det)
    BY <2>2 DEF HitsOf, Own
  <2>4. about[k] = i
    BY <1>2, <1>4, <2>1, <2>2, <2>3
  <2> QED
    BY <2>3, <2>4
<1>8. about \in [HitsOf(det) -> found]
  <2>1. about = [k \in HitsOf(det) |-> about[k]]
    BY <1>3 DEF about
  <2> HIDE DEF found
  <2> QED
    BY <1>5, <2>1
<1>9. ExistsBijection(HitsOf(det), found)
  <2> HIDE DEF found
  <2> QED
    BY <1>6, <1>7, <1>8
    DEF ExistsBijection, Bijection, Injection, Surjection, IsInjective
<1> HIDE DEF found
<1>10. IsFiniteSet(HitsOf(det))
  BY FiniteScores
<1>11. IsFiniteSet(found) /\ Cardinality(found) = Cardinality(HitsOf(det))
  BY <1>9, <1>10, FS_Bijection
<1> QED
  BY <1>11 DEF found

LEMMA ScoresAddUp ==
  ASSUME FiredOnceInv, Scored, NEW det \in FaultTypes
  PROVE  LET sc == scorecards[det] IN
         /\ sc.true_positives + sc.false_positives = Cardinality(Own(det))
         /\ OneFaultOfAKind =>
              sc.true_positives + sc.false_negatives = Cardinality(OfType(det))
         /\ \A k \in DOMAIN sc.latencies_seconds : sc.latencies_seconds[k] >= 0
<1> DEFINE sc == scorecards[det]
           missed == Missed(events, faults, det)
<1>1. /\ sc.true_positives = Cardinality(HitsOf(det))
      /\ sc.false_positives = Cardinality(Own(det) \ HitsOf(det))
      /\ sc.false_negatives = Cardinality(missed)
      /\ sc.latencies_seconds =
           [k \in HitsOf(det) |->
              TimeOf(events[k]) - Min(StartsOf(faults, events[k].sat, det))]
  <2>1. sc = Scorecard(events, faults, det)
    BY DEF Scored
  <2> HIDE DEF sc
  <2> QED
    BY <2>1 DEF Scorecard, Own, HitsOf
<1> HIDE DEF sc
<1>2. sc.true_positives + sc.false_positives = Cardinality(Own(det))
  <2>1. Own(det) \cap HitsOf(det) = HitsOf(det)
    BY FiniteScores
  <2>2. Cardinality(Own(det) \ HitsOf(det)) = Cardinality(Own(det)) - Cardinality(HitsOf(det))
    BY <2>1, FiniteScores, FS_Difference
  <2>3. Cardinality(Own(det)) \in Nat /\ Cardinality(HitsOf(det)) \in Nat
    BY FiniteScores, FS_CardinalityType
  <2> QED
    BY <1>1, <2>2, <2>3
<1>3. ASSUME OneFaultOfAKind
      PROVE  sc.true_positives + sc.false_negatives = Cardinality(OfType(det))
  <2>1. missed \subseteq OfType(det)
    BY DEF Missed, OfType
  <2> HIDE DEF missed
  <2>2. IsFiniteSet(OfType(det))
    BY FiniteScores
  <2>3. Cardinality(OfType(det) \ missed) = Cardinality(HitsOf(det))
    BY <1>3, HitsAreFaultsFound DEF missed
  <2>4. OfType(det) \cap missed = missed
    BY <2>1
  <2>5. Cardinality(OfType(det) \ missed) = Cardinality(OfType(det)) - Cardinality(missed)
    BY <2>2, <2>4, FS_Difference
  <2>6. Cardinality(OfType(det)) \in Nat /\ Cardinality(missed) \in Nat
    BY <2>1, <2>2, FS_CardinalityType, FS_Subset
  <2> QED
    BY <1>1, <2>3, <2>5, <2>6
<1>4. ASSUME NEW k \in DOMAIN sc.latencies_seconds PROVE sc.latencies_seconds[k] >= 0
  <2>1. /\ k \in HitsOf(det)
        /\ sc.latencies_seconds[k] =
             TimeOf(events[k]) - Min(StartsOf(faults, events[k].sat, det))
    BY <1>1
  <2>2. /\ k \in DOMAIN events /\ events[k].detector = det
        /\ StartsOf(faults, events[k].sat, events[k].detector) # {}
        /\ TimeOf(events[k]) >= Min(StartsOf(faults, events[k].sat, events[k].detector))
    BY <2>1 DEF HitsOf, Own, Hits
  <2>3. Min(StartsOf(faults, events[k].sat, det)) \in Int
    BY <2>2, FirstStart
  <2>4. TimeOf(events[k]) \in Int
    <3>1. events[k].minute \in Int
      <4>1. events[k] \in Event
        BY <2>2 DEF FiredOnceInv
      <4> QED
        BY <4>1 DEF Event
    <3>2. MinuteLength \in Int
      BY EvaluatorAssumption
    <3> QED
      BY <3>1, <3>2 DEF TimeOf
  <2> QED
    BY <2>1, <2>2, <2>3, <2>4
<1> QED
  BY <1>2, <1>3, <1>4 DEF sc

\* ScoresAccountForAll for any table and any fault files that can be scored.
THEOREM ScoresAreComplete == DetectionSpec => []ScoresAccountForAll
<1>1. FiredOnceInv /\ RunInv => ScoresAccountForAll
  BY ScoresAddUp DEF RunInv, ScoresAccountForAll, Own, OfType
<1> QED
  BY FiredOnceInit, FiredOnceStep, RunInit, RunStep, <1>1, PTL DEF DetectionSpec
====
