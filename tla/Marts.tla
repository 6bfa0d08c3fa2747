------------------------------- MODULE Marts -------------------------------
(***************************************************************************)
(* The dbt models over the archive (src/dbt/orbit_ops/models): views and   *)
(* two tables, rebuilt from all of it by every run.                        *)
(*                                                                         *)
(* `raw` is raw_telemetry, a set of rows that are distinct whatever they   *)
(* say.  A row has sat, stamp, shadow, soc, net, temp and heat.  An average *)
(* is given by its sum; the number of rows it is over is in `count`.       *)
(***************************************************************************)
EXTENDS Integers, FiniteSets, Functions
Sets == INSTANCE FiniteSetsExt

\* stg_eps: a column computed row by row
IsCharging(r) == IF r.net > 0 THEN 1 ELSE 0

SameTick(raw, e) == {r \in raw : r.sat = e.sat /\ r.stamp = e.stamp}

\* Mutant of Joined: the views are joined by satellite.
JoinedBySat(raw) ==
  UNION {{[eps |-> e, thermal |-> t, geometry |-> g] :
           t \in {r \in raw : r.sat = e.sat}, g \in SameTick(raw, e)} : e \in raw}

\* The views of a row come back together by satellite and time.
Joined(raw) ==
  UNION {{[eps |-> e, thermal |-> t, geometry |-> g] :
           t \in SameTick(raw, e), g \in SameTick(raw, e)} : e \in raw}

\* GROUP BY sat_id, minute_bucket
Bucket(j, minuteLength) == [sat |-> j.eps.sat, minute |-> j.eps.stamp \div minuteLength]

Aggregate(b, group) ==
  [sat |-> b.sat, minute |-> b.minute, count |-> Cardinality(group),
   soc      |-> SumFunction([j \in group |-> j.eps.soc]),
   lowest   |-> Sets!Min({j.eps.soc : j \in group}),
   charging |-> SumFunction([j \in group |-> IsCharging(j.eps)]),
   eclipse  |-> SumFunction([j \in group |-> IF j.eps.shadow THEN 1 ELSE 0]),
   temp     |-> SumFunction([j \in group |-> j.thermal.temp]),
   hottest  |-> Sets!Max({j.thermal.temp : j \in group}),
   heat     |-> SumFunction([j \in group |-> j.thermal.heat])]

\* sat_minute_rollup
Rollup(raw, minuteLength) ==
  LET joined == Joined(raw)
  IN  {Aggregate(b, {j \in joined : Bucket(j, minuteLength) = b}) :
         b \in {Bucket(j, minuteLength) : j \in joined}}

\* fleet_health_snapshot: the rows of each satellite's latest time
Snapshot(raw) == {r \in raw : \A q \in raw : q.sat = r.sat => q.stamp <= r.stamp}

=============================================================================
