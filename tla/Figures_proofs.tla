--------------------------- MODULE Figures_proofs ---------------------------
(***************************************************************************)
(* Lemmas about the operators of FaultRegistry and Figures: what the fault *)
(* layers do to a reading, what a satellite's series is made of, and what  *)
(* the shaded stretches of an eclipse plot cover.  They are constant       *)
(* formulas, for every list of faults and every satellite.                 *)
(***************************************************************************)
EXTENDS Figures, WellFoundedInduction, TLAPS

-----------------------------------------------------------------------------
(* Recursive functions.  The library states induction for a predicate that *)
(* is a parameter; here it is for a set, by way of a least counterexample. *)


LEMMA ByCounting ==
  ASSUME NEW T, 0 \in T, \A n \in Nat : n \in T => n + 1 \in T
  PROVE  Nat \subseteq T
<1> SUFFICES ASSUME Nat \ T # {} PROVE FALSE
  OBVIOUS
<1> DEFINE R == OpToRel(<, Nat)
           Rest == Nat \ T
<1>1. PICK x \in Rest : \A y \in Rest : <<y, x>> \notin R
  <2>1. IsWellFoundedOn(R, Nat)
    BY NatLessThanWellFounded
  <2>2. Rest \subseteq Nat /\ Rest # {}
    OBVIOUS
  <2> HIDE DEF R, Rest
  <2> QED
    BY <2>1, <2>2, WFMin
<1>2. x \in Nat /\ x \notin T /\ \A y \in Nat : y \notin T => <<y, x>> \notin OpToRel(<, Nat)
  BY <1>1
<1>3. x \in Nat /\ x \notin T
  BY <1>2
<1> HIDE DEF R, Rest
<1>4. x # 0 /\ x - 1 \in Nat /\ x - 1 < x /\ (x - 1) + 1 = x
  BY <1>3
<1>5. <<x - 1, x>> \in OpToRel(<, Nat)
  BY <1>4 DEF OpToRel
<1>6. x - 1 \in T
  BY <1>2, <1>4, <1>5
<1>7. (x - 1) + 1 \in T
  BY <1>4, <1>6
<1> QED
  BY <1>3, <1>4, <1>7

LEMMA TimesLE ==
  \A d \in Nat, a, b \in Int : a <= b => a * d <= b * d
  BY SMT

\* The layers are what their definition describes: one after the other.
LEMMA LayersUnfold ==
  ASSUME NEW specs, Len(specs) \in Nat, NEW sat, NEW t, NEW nominal, NEW was
  PROVE  /\ Layers(specs, sat, t, nominal, was)[0]
              = [soc |-> nominal.soc, temp |-> nominal.temp, held |-> was]
         /\ \A i \in 1..Len(specs) :
              Layers(specs, sat, t, nominal, was)[i]
                = IF Active(specs[i], sat, t)
                  THEN Layered(Layers(specs, sat, t, nominal, was)[i - 1], specs[i], t)
                  ELSE Layers(specs, sat, t, nominal, was)[i - 1]
<1> DEFINE first == [soc |-> nominal.soc, temp |-> nominal.temp, held |-> was]
           g(k, r) == IF Active(specs[k], sat, t) THEN Layered(r, specs[k], t) ELSE r
           Is(f, m) == f = [k \in 0..m |-> IF k = 0 THEN first ELSE g(k, f[k - 1])]
           T == {m \in Nat : \E f : Is(f, m)}
<1>0. \A k, r : g(k, r) = IF Active(specs[k], sat, t) THEN Layered(r, specs[k], t) ELSE r
  OBVIOUS
<1>9. Layers(specs, sat, t, nominal, was) = CHOOSE f : Is(f, Len(specs))
  BY DEF Layers
<1> HIDE DEF g, first
<1>1. 0 \in T
  <2> DEFINE f == [k \in 0..0 |-> first]
  <2>1. Is(f, 0)
    OBVIOUS
  <2> QED
    BY <2>1
<1>2. ASSUME NEW m \in Nat, m \in T PROVE m + 1 \in T
  <2>1. PICK f : Is(f, m)
    BY <1>2
  <2> DEFINE h == [k \in 0..m + 1 |-> IF k <= m THEN f[k] ELSE g(k, f[m])]
  <2>2. ASSUME NEW k \in 0..m + 1
        PROVE  h[k] = IF k = 0 THEN first ELSE g(k, h[k - 1])
    <3>1. CASE k <= m
      <4>1. f[k] = IF k = 0 THEN first ELSE g(k, f[k - 1])
        BY <2>1, <3>1
      <4>2. h[k] = f[k] /\ (k # 0 => h[k - 1] = f[k - 1])
        BY <3>1
      <4> QED
        BY <4>1, <4>2
    <3>2. CASE k = m + 1
      <4>1. ~(k <= m) /\ k - 1 = m /\ m \in 0..m + 1 /\ m <= m /\ k # 0
        BY <3>2
      <4>2. h[k - 1] = f[m]
        BY <4>1
      <4>3. h[k] = g(k, f[m])
        BY <4>1
      <4> QED
        BY <4>1, <4>2, <4>3
    <3> QED
      BY <3>1, <3>2
  <2>3. Is(h, m + 1)
    <3> DEFINE u == [k \in 0..m + 1 |-> IF k = 0 THEN first ELSE g(k, h[k - 1])]
    <3>1. \A k \in 0..m + 1 : h[k] = u[k]
      BY <2>2
    <3>2. DOMAIN h = 0..m + 1 /\ h = [k \in 0..m + 1 |-> h[k]]
      OBVIOUS
    <3> HIDE DEF h
    <3> QED
      BY <3>1, <3>2
  <2>4. \E f1 : Is(f1, m + 1)
    <3> HIDE DEF Is, h
    <3> QED
      BY <2>3
  <2> HIDE DEF Is
  <2> QED
    BY <2>4
<1>3. \E f : Is(f, Len(specs))
  <2> HIDE DEF Is
  <2>1. Nat \subseteq T
    <3> HIDE DEF T
    <3> QED
      BY <1>1, <1>2, ByCounting
  <2> QED
    BY <2>1
<1> DEFINE y == Layers(specs, sat, t, nominal, was)
<1>4. Is(y, Len(specs))
  <2> HIDE DEF Is, y
  <2> QED
    BY <1>3, <1>9, Zenon DEF y
<1> HIDE DEF y
<1>5. y[0] = first /\ \A i \in 1..Len(specs) : y[i] = g(i, y[i - 1])
  BY <1>4
<1> QED
  BY <1>0, <1>5 DEF y, first

\* A series is what its definition describes, whatever its length: the run up
\* to n is that of any longer one.
IsRun(run, specs, sat, tle, start, dt, n) ==
  /\ run[0] = [state |-> InitialState, held |-> {}]
  /\ \A i \in 1..n : run[i] = Lived(specs, sat, tle, start, dt, i, run[i - 1])

LEMMA LifeUnfold ==
  ASSUME NEW specs, NEW sat, NEW tle, NEW start, NEW dt, NEW n \in Nat
  PROVE  IsRun(Life(specs, sat, tle, start, dt, n), specs, sat, tle, start, dt, n)
<1> DEFINE first == [state |-> InitialState, held |-> {}]
           g(k, r) == Lived(specs, sat, tle, start, dt, k, r)
           Is(f, m) == f = [k \in 0..m |-> IF k = 0 THEN first ELSE g(k, f[k - 1])]
           T == {m \in Nat : \E f : Is(f, m)}
<1>9. Life(specs, sat, tle, start, dt, n) = CHOOSE f : Is(f, n)
  BY DEF Life
<1>0. \A k, r : g(k, r) = Lived(specs, sat, tle, start, dt, k, r)
  OBVIOUS
<1> HIDE DEF g, first
<1>1. 0 \in T
  <2> DEFINE f == [k \in 0..0 |-> first]
  <2>1. Is(f, 0)
    OBVIOUS
  <2> QED
    BY <2>1
<1>2. ASSUME NEW m \in Nat, m \in T PROVE m + 1 \in T
  <2>1. PICK f : Is(f, m)
    BY <1>2
  <2> DEFINE h == [k \in 0..m + 1 |-> IF k <= m THEN f[k] ELSE g(k, f[m])]
  <2>2. ASSUME NEW k \in 0..m + 1
        PROVE  h[k] = IF k = 0 THEN first ELSE g(k, h[k - 1])
    <3>1. CASE k <= m
      <4>1. f[k] = IF k = 0 THEN first ELSE g(k, f[k - 1])
        BY <2>1, <3>1
      <4>2. h[k] = f[k] /\ (k # 0 => h[k - 1] = f[k - 1])
        BY <3>1
      <4> QED
        BY <4>1, <4>2
    <3>2. CASE k = m + 1
      <4>1. ~(k <= m) /\ k - 1 = m /\ m \in 0..m + 1 /\ m <= m /\ k # 0
        BY <3>2
      <4>2. h[k - 1] = f[m]
        BY <4>1
      <4>3. h[k] = g(k, f[m])
        BY <4>1
      <4> QED
        BY <4>1, <4>2, <4>3
    <3> QED
      BY <3>1, <3>2
  <2>3. Is(h, m + 1)
    <3> DEFINE u == [k \in 0..m + 1 |-> IF k = 0 THEN first ELSE g(k, h[k - 1])]
    <3>1. \A k \in 0..m + 1 : h[k] = u[k]
      BY <2>2
    <3>2. DOMAIN h = 0..m + 1 /\ h = [k \in 0..m + 1 |-> h[k]]
      OBVIOUS
    <3> HIDE DEF h
    <3> QED
      BY <3>1, <3>2
  <2>4. \E f1 : Is(f1, m + 1)
    <3> HIDE DEF Is, h
    <3> QED
      BY <2>3
  <2> HIDE DEF Is
  <2> QED
    BY <2>4
<1>3. \E f : Is(f, n)
  <2> HIDE DEF Is
  <2>1. Nat \subseteq T
    <3> HIDE DEF T
    <3> QED
      BY <1>1, <1>2, ByCounting
  <2> QED
    BY <2>1
<1> DEFINE y == Life(specs, sat, tle, start, dt, n)
<1>4. Is(y, n)
  <2> HIDE DEF Is, y
  <2> QED
    BY <1>3, <1>9, Zenon DEF y
<1> HIDE DEF y
<1>5. y[0] = first /\ \A i \in 1..n : y[i] = g(i, y[i - 1])
  BY <1>4
<1> QED
  BY <1>0, <1>5 DEF y, first, IsRun

\* The scan for stretches in eclipse goes on minute by minute.
LEMMA ShadingUnfold ==
  ASSUME NEW dark, NEW n \in Nat
  PROVE  /\ Shading(dark, n)[0] = [open |-> FALSE, from |-> 0, spans |-> {}]
         /\ \A i \in 1..n :
              Shading(dark, n)[i]
                = Shaded(dark, i, Shading(dark, n)[i - 1])
<1> DEFINE first == [open |-> FALSE, from |-> 0, spans |-> {}]
           g(k, r) == Shaded(dark, k, r)
           Is(f, m) == f = [k \in 0..m |-> IF k = 0 THEN first ELSE g(k, f[k - 1])]
           T == {m \in Nat : \E f : Is(f, m)}
<1>9. Shading(dark, n) = CHOOSE f : Is(f, n)
  BY DEF Shading
<1>0. \A k, r : g(k, r) = Shaded(dark, k, r)
  OBVIOUS
<1> HIDE DEF g, first
<1>1. 0 \in T
  <2> DEFINE f == [k \in 0..0 |-> first]
  <2>1. Is(f, 0)
    OBVIOUS
  <2> QED
    BY <2>1
<1>2. ASSUME NEW m \in Nat, m \in T PROVE m + 1 \in T
  <2>1. PICK f : Is(f, m)
    BY <1>2
  <2> DEFINE h == [k \in 0..m + 1 |-> IF k <= m THEN f[k] ELSE g(k, f[m])]
  <2>2. ASSUME NEW k \in 0..m + 1
        PROVE  h[k] = IF k = 0 THEN first ELSE g(k, h[k - 1])
    <3>1. CASE k <= m
      <4>1. f[k] = IF k = 0 THEN first ELSE g(k, f[k - 1])
        BY <2>1, <3>1
      <4>2. h[k] = f[k] /\ (k # 0 => h[k - 1] = f[k - 1])
        BY <3>1
      <4> QED
        BY <4>1, <4>2
    <3>2. CASE k = m + 1
      <4>1. ~(k <= m) /\ k - 1 = m /\ m \in 0..m + 1 /\ m <= m /\ k # 0
        BY <3>2
      <4>2. h[k - 1] = f[m]
        BY <4>1
      <4>3. h[k] = g(k, f[m])
        BY <4>1
      <4> QED
        BY <4>1, <4>2, <4>3
    <3> QED
      BY <3>1, <3>2
  <2>3. Is(h, m + 1)
    <3> DEFINE u == [k \in 0..m + 1 |-> IF k = 0 THEN first ELSE g(k, h[k - 1])]
    <3>1. \A k \in 0..m + 1 : h[k] = u[k]
      BY <2>2
    <3>2. DOMAIN h = 0..m + 1 /\ h = [k \in 0..m + 1 |-> h[k]]
      OBVIOUS
    <3> HIDE DEF h
    <3> QED
      BY <3>1, <3>2
  <2>4. \E f1 : Is(f1, m + 1)
    <3> HIDE DEF Is, h
    <3> QED
      BY <2>3
  <2> HIDE DEF Is
  <2> QED
    BY <2>4
<1>3. \E f : Is(f, n)
  <2> HIDE DEF Is
  <2>1. Nat \subseteq T
    <3> HIDE DEF T
    <3> QED
      BY <1>1, <1>2, ByCounting
  <2> QED
    BY <2>1
<1> DEFINE y == Shading(dark, n)
<1>4. Is(y, n)
  <2> HIDE DEF Is, y
  <2> QED
    BY <1>3, <1>9, Zenon DEF y
<1> HIDE DEF y
<1>5. y[0] = first /\ \A i \in 1..n : y[i] = g(i, y[i - 1])
  BY <1>4
<1> QED
  BY <1>0, <1>5 DEF y, first

-----------------------------------------------------------------------------
(* The fault layers                                                        *)

Reading == {"soc", "temp", "held"}

\* What one fault does to a reading: each type to its own channel.
LEMMA OneLayer ==
  ASSUME NEW r, DOMAIN r = Reading, NEW spec, spec.type \in FaultTypes, NEW t
  PROVE  /\ DOMAIN Layered(r, spec, t) = Reading
         /\ spec.type # "fade" => Layered(r, spec, t).soc = r.soc
         /\ spec.type = "fade" => Layered(r, spec, t).temp = r.temp
         /\ spec.type # "stuck" => Layered(r, spec, t).held = r.held
         /\ r.held # {} => Layered(r, spec, t).held = r.held
         /\ spec.type = "stuck" =>
              /\ Layered(r, spec, t).held # {}
              /\ Layered(r, spec, t).temp = CHOOSE value \in Layered(r, spec, t).held : TRUE
<1>1. CASE spec.type = "fade"
  <2>1. Layered(r, spec, t) = [r EXCEPT !.soc = (@ * Fade(spec, t)) \div 100]
    BY <1>1 DEF Layered
  <2> QED
    BY <1>1, <2>1 DEF Reading
<1>2. CASE spec.type = "stuck"
  <2> DEFINE captured == IF r.held = {} THEN {r.temp} ELSE r.held
             value == CHOOSE v \in captured : TRUE
  <2>1. Layered(r, spec, t) = [r EXCEPT !.temp = value, !.held = captured]
    BY <1>2 DEF Layered
  <2>2. captured # {} /\ (r.held # {} => captured = r.held)
    OBVIOUS
  <2>3. /\ Layered(r, spec, t).held = captured
        /\ Layered(r, spec, t).temp = value
        /\ Layered(r, spec, t).soc = r.soc
        /\ DOMAIN Layered(r, spec, t) = Reading
    <3> HIDE DEF captured, value
    <3> QED
      BY <2>1 DEF Reading
  <2> QED
    BY <1>2, <2>2, <2>3
<1>3. CASE spec.type = "runaway"
  <2>1. Layered(r, spec, t) = [r EXCEPT !.temp = @ + Bias(spec, t)]
    BY <1>3 DEF Layered
  <2> QED
    BY <1>3, <2>1 DEF Reading
<1> QED
  BY <1>1, <1>2, <1>3 DEF FaultTypes

\* A list of faults of the known types
Known(specs) == Len(specs) \in Nat /\ \A i \in 1..Len(specs) : specs[i].type \in FaultTypes

\* A channel that differs from the nominal one has been through an active fault
\* of that channel; a value that a stuck sensor holds stays the held one.
LEMMA LayersTouchOwnChannels ==
  ASSUME NEW specs, Known(specs), NEW sat, NEW t, NEW nominal, NEW was
  PROVE  LET shown == Apply(specs, sat, t, nominal, was)
             Through(type) == \E k \in 1..Len(specs) :
                                specs[k].type = type /\ Active(specs[k], sat, t)
         IN  /\ shown.soc # nominal.soc => Through("fade")
             /\ shown.temp # nominal.temp => Through("stuck") \/ Through("runaway")
             /\ was # {} => shown.held = was
<1> DEFINE L == Layers(specs, sat, t, nominal, was)
           n == Len(specs)
           Through(type) == \E k \in 1..n : specs[k].type = type /\ Active(specs[k], sat, t)
           Good(r) == /\ DOMAIN r = Reading
                      /\ r.soc # nominal.soc => Through("fade")
                      /\ r.temp # nominal.temp => Through("stuck") \/ Through("runaway")
                      /\ was # {} => r.held = was
           T == {i \in Nat : i <= n => Good(L[i])}
<1>1. n \in Nat /\ \A i \in 1..n : specs[i].type \in FaultTypes
  BY DEF Known
<1>2. /\ L[0] = [soc |-> nominal.soc, temp |-> nominal.temp, held |-> was]
      /\ \A i \in 1..n : L[i] = IF Active(specs[i], sat, t)
                                THEN Layered(L[i - 1], specs[i], t) ELSE L[i - 1]
  BY <1>1, LayersUnfold
<1> HIDE DEF L, n
<1>3. 0 \in T
  BY <1>2 DEF Reading
<1>4. ASSUME NEW i \in Nat, i \in T PROVE i + 1 \in T
  <2> SUFFICES ASSUME i + 1 <= n PROVE Good(L[i + 1])
    OBVIOUS
  <2>1. i + 1 \in 1..n /\ i <= n /\ (i + 1) - 1 = i
    BY <1>1
  <2>2. Good(L[i])
    BY <1>4, <2>1
  <2>3. L[i + 1] = IF Active(specs[i + 1], sat, t)
                   THEN Layered(L[i], specs[i + 1], t) ELSE L[i]
    BY <1>2, <2>1
  <2>4. CASE Active(specs[i + 1], sat, t)
    <3>1. L[i + 1] = Layered(L[i], specs[i + 1], t) /\ specs[i + 1].type \in FaultTypes
      BY <1>1, <2>1, <2>3, <2>4
    <3>2. specs[i + 1].type \in {"fade", "stuck", "runaway"}
      BY <3>1 DEF FaultTypes
    <3>3. Through(specs[i + 1].type)
      BY <2>1, <2>4
    <3> DEFINE r == L[i]  s == L[i + 1]
    <3>4. /\ DOMAIN s = Reading
          /\ specs[i + 1].type # "fade" => s.soc = r.soc
          /\ specs[i + 1].type = "fade" => s.temp = r.temp
          /\ r.held # {} => s.held = r.held
      BY <2>2, <3>1, OneLayer
    <3> HIDE DEF r, s, Through
    <3>5. Good(r) => Good(s)
      BY <3>2, <3>3, <3>4
    <3> QED
      BY <2>2, <3>5 DEF r, s
  <2> QED
    BY <2>2, <2>3, <2>4
<1>5. Nat \subseteq T
  <2> HIDE DEF T
  <2> QED
    BY <1>3, <1>4, ByCounting
<1>6. Good(L[n])
  BY <1>1, <1>5
<1> QED
  BY <1>6 DEF Apply, L, n

\* Behind an active stuck-sensor fault and no runaway, a reading has the value held.
LEMMA LayersHold ==
  ASSUME NEW specs, Known(specs), NEW sat, NEW t, NEW nominal, NEW was,
         NEW f \in 1..Len(specs), specs[f].type = "stuck", Active(specs[f], sat, t),
         \A k \in 1..Len(specs) : specs[k].type = "runaway" /\ specs[k].sat = sat => k < f
  PROVE  LET shown == Apply(specs, sat, t, nominal, was)
         IN  shown.held # {} /\ shown.temp = CHOOSE value \in shown.held : TRUE
<1> DEFINE L == Layers(specs, sat, t, nominal, was)
           n == Len(specs)
           Holds(r) == r.held # {} /\ r.temp = CHOOSE value \in r.held : TRUE
           T == {i \in Nat : i <= n => DOMAIN L[i] = Reading /\ (f <= i => Holds(L[i]))}
<1>1. n \in Nat /\ (\A i \in 1..n : specs[i].type \in FaultTypes) /\ f \in 1..n
  BY DEF Known
<1>2. /\ L[0] = [soc |-> nominal.soc, temp |-> nominal.temp, held |-> was]
      /\ \A i \in 1..n : L[i] = IF Active(specs[i], sat, t)
                                THEN Layered(L[i - 1], specs[i], t) ELSE L[i - 1]
  BY <1>1, LayersUnfold
<1>3. \A k \in 1..n : specs[k].type = "runaway" /\ Active(specs[k], sat, t) => k < f
  BY DEF Active
<1> HIDE DEF L, n
<1>4. 0 \in T
  BY <1>1, <1>2 DEF Reading
<1>5. ASSUME NEW i \in Nat, i \in T PROVE i + 1 \in T
  <2> SUFFICES ASSUME i + 1 <= n
               PROVE  DOMAIN L[i + 1] = Reading /\ (f <= i + 1 => Holds(L[i + 1]))
    OBVIOUS
  <2>1. i + 1 \in 1..n /\ i <= n /\ (i + 1) - 1 = i
    BY <1>1
  <2>2. DOMAIN L[i] = Reading /\ (f <= i => Holds(L[i]))
    BY <1>5, <2>1
  <2>3. L[i + 1] = IF Active(specs[i + 1], sat, t)
                   THEN Layered(L[i], specs[i + 1], t) ELSE L[i]
    BY <1>2, <2>1
  <2>4. CASE ~Active(specs[i + 1], sat, t)
    <3>1. f # i + 1
      BY <2>4
    <3>2. f <= i + 1 => f <= i
      BY <1>1, <3>1
    <3> QED
      BY <2>2, <2>3, <2>4, <3>2
  <2>5. CASE Active(specs[i + 1], sat, t)
    <3> DEFINE type == specs[i + 1].type  r == L[i]  s == L[i + 1]
    <3>1. s = Layered(r, specs[i + 1], t) /\ type \in FaultTypes
      BY <1>1, <2>1, <2>3, <2>5
    <3>2. /\ DOMAIN s = Reading
          /\ type = "fade" => s.temp = r.temp
          /\ type # "stuck" => s.held = r.held
          /\ type = "stuck" => Holds(s)
      BY <2>2, <3>1, OneLayer
    <3>3. type = "stuck" \/ type = "fade" \/ type = "runaway"
      BY <3>1 DEF FaultTypes
    <3>4. type = "runaway" => ~(f <= i + 1)
      BY <1>1, <1>3, <2>1, <2>5
    <3>5. type = "fade" /\ f <= i + 1 => f <= i
      <4>1. type = "fade" => f # i + 1
        OBVIOUS
      <4> HIDE DEF type
      <4> QED
        BY <1>1, <4>1
    <3> HIDE DEF type, r, s
    <3>6. DOMAIN s = Reading /\ (f <= i + 1 => Holds(s))
      <4>1. DOMAIN r = Reading /\ (f <= i => Holds(r))
        BY <2>2 DEF r
      <4>2. type = "fade" /\ Holds(r) => Holds(s)
        BY <3>2
      <4> QED
        BY <3>2, <3>3, <3>4, <3>5, <4>1, <4>2
    <3> QED
      BY <3>6 DEF s
  <2> QED
    BY <2>4, <2>5
<1>6. Nat \subseteq T
  <2> HIDE DEF T
  <2> QED
    BY <1>4, <1>5, ByCounting
<1>7. Holds(L[n])
  BY <1>1, <1>6
<1> QED
  BY <1>7 DEF Apply, L, n

-----------------------------------------------------------------------------
(* Faults that only get worse                                              *)

\* A satellite's faults as the registry's defaults are: fades down to a share of
\* the capacity, and heat up to a cap, both faster or slower but never backwards
Worsening(specs, sat) ==
  \A i \in 1..Len(specs) : specs[i].sat = sat =>
    /\ specs[i].at \in Int /\ specs[i].rate \in Nat /\ specs[i].limit \in Nat
    /\ specs[i].type = "fade" => specs[i].limit <= 100

\* Units of charge in which no fade leaves a rest: each layer's readings come in
\* units of their own, of which a fade takes whole hundredths.
Grains(specs, sat) ==
  {g \in [0..Len(specs) -> Nat \ {0}] :
     \A k \in 1..Len(specs) :
       g[k - 1] = IF specs[k].sat = sat /\ specs[k].type = "fade" THEN 100 * g[k] ELSE g[k]}

Multiple(x, g) == \E q \in Int : x = q * g

\* The share of the charge that one fault of the list leaves, and the heat it adds
Share(spec, sat, t) ==
  IF spec.type = "fade" /\ Active(spec, sat, t) THEN Fade(spec, t) ELSE 100

Heat(spec, sat, t) ==
  IF spec.type = "runaway" /\ Active(spec, sat, t) THEN Bias(spec, t) ELSE 0

\* A fade leaves less the longer it lasts, a runaway adds more, up to its cap.
LEMMA OneFaultWorsens ==
  ASSUME NEW spec, NEW sat, NEW t \in Int, NEW u \in Int, t <= u,
         spec.sat = sat => /\ spec.at \in Int /\ spec.rate \in Nat /\ spec.limit \in Nat
                           /\ spec.type = "fade" => spec.limit <= 100
  PROVE  /\ Share(spec, sat, t) \in 0..100 /\ Share(spec, sat, u) \in 0..100
         /\ Share(spec, sat, u) <= Share(spec, sat, t)
         /\ Heat(spec, sat, t) \in Nat /\ Heat(spec, sat, u) \in Nat
         /\ Heat(spec, sat, t) <= Heat(spec, sat, u)
         /\ spec.sat = sat => Heat(spec, sat, u) <= spec.limit
<1>1. CASE spec.sat # sat
  <2>1. ~Active(spec, sat, t) /\ ~Active(spec, sat, u)
    BY <1>1 DEF Active
  <2>2. Share(spec, sat, t) = 100 /\ Share(spec, sat, u) = 100
        /\ Heat(spec, sat, t) = 0 /\ Heat(spec, sat, u) = 0
    BY <2>1 DEF Share, Heat
  <2> QED
    BY <1>1, <2>2
<1>2. CASE spec.sat = sat
  <2>1. PICK at \in Int, rate \in Nat, limit \in Nat :
          at = spec.at /\ rate = spec.rate /\ limit = spec.limit
    BY <1>2
  <2>2. spec.type = "fade" => limit <= 100
    BY <1>2, <2>1
  <2>3. Active(spec, sat, t) <=> at <= t
    BY <1>2, <2>1 DEF Active
  <2>4. Active(spec, sat, u) <=> at <= u
    BY <1>2, <2>1 DEF Active
  <2>5. PICK x \in Int, y \in Int : x = rate * (t - at) /\ y = rate * (u - at)
    BY SMT
  <2>6. at <= t => 0 <= x /\ x <= y
    <3>1. at <= t => 0 * rate <= (t - at) * rate /\ (t - at) * rate <= (u - at) * rate
      BY TimesLE
    <3>2. 0 * rate = 0 /\ (t - at) * rate = x /\ (u - at) * rate = y
      BY <2>5
    <3> QED
      BY <3>1, <3>2
  <2>7. at <= u => 0 <= y
    <3>1. at <= u => 0 * rate <= (u - at) * rate
      BY TimesLE
    <3>2. 0 * rate = 0 /\ (u - at) * rate = y
      BY <2>5
    <3> QED
      BY <3>1, <3>2
  <2>8. /\ Fade(spec, t) = IF limit < 100 - x THEN 100 - x ELSE limit
        /\ Fade(spec, u) = IF limit < 100 - y THEN 100 - y ELSE limit
        /\ Bias(spec, t) = IF limit < x THEN limit ELSE x
        /\ Bias(spec, u) = IF limit < y THEN limit ELSE y
    BY <2>1, <2>5 DEF Fade, Bias, Higher, Lower
  <2>9. CASE spec.type = "fade"
    <3>1. Heat(spec, sat, t) = 0 /\ Heat(spec, sat, u) = 0
      BY <2>9 DEF Heat
    <3>2. /\ Share(spec, sat, t) = IF at <= t THEN Fade(spec, t) ELSE 100
          /\ Share(spec, sat, u) = IF at <= u THEN Fade(spec, u) ELSE 100
      BY <2>3, <2>4, <2>9 DEF Share
    <3> QED
      BY <2>1, <2>2, <2>6, <2>7, <2>8, <2>9, <3>1, <3>2
  <2>10. CASE spec.type # "fade"
    <3>1. Share(spec, sat, t) = 100 /\ Share(spec, sat, u) = 100
      BY <2>10 DEF Share
    <3>2. /\ Heat(spec, sat, t) = IF spec.type = "runaway" /\ at <= t THEN Bias(spec, t) ELSE 0
          /\ Heat(spec, sat, u) = IF spec.type = "runaway" /\ at <= u THEN Bias(spec, u) ELSE 0
      BY <2>3, <2>4 DEF Heat
    <3> QED
      BY <2>1, <2>6, <2>7, <2>8, <3>1, <3>2
  <2> QED
    BY <2>9, <2>10
<1> QED
  BY <1>1, <1>2

\* In those units a share is taken exactly.
Divisible(soc, g, share) ==
  g \in Nat \ {0} /\ soc \in Nat /\ Multiple(soc, 100 * g) /\ share \in 0..100

LEMMA ExactShare ==
  ASSUME NEW g, NEW soc, NEW share, Divisible(soc, g, share)
  PROVE  /\ (soc * share) \div 100 \in Nat
         /\ Multiple((soc * share) \div 100, g)
         /\ 100 * ((soc * share) \div 100) = soc * share
<1>0. g \in Nat \ {0} /\ soc \in Nat /\ share \in 0..100
  BY DEF Divisible
<1>1. PICK q \in Int : soc = q * (100 * g)
  BY DEF Divisible, Multiple
<1>2. PICK y \in Int : y = (q * share) * g
  BY <1>0
<1>3. soc * share = 100 * y
  BY <1>0, <1>1, <1>2
<1>4. (soc * share) \div 100 = y
  BY <1>2, <1>3
<1>5. soc * share \in Nat
  BY <1>0, SMT
<1>6. y \in Nat
  BY <1>2, <1>3, <1>5
<1>7. Multiple(y, g)
  <2>1. q * share \in Int
    BY <1>0
  <2> QED
    BY <1>2, <2>1 DEF Multiple
<1> QED
  BY <1>3, <1>4, <1>6, <1>7

\* Where both readings lose a share and the later one no less, their ratio to the
\* charge falls.
LosingMore(a, e, c, b, f, d) ==
  /\ a \in Nat /\ b \in Nat /\ c \in Nat /\ d \in Nat
  /\ e \in 0..100 /\ f \in 0..100 /\ f <= e
  /\ 100 * c = a * e /\ 100 * d = b * f

LEMMA SharesFall ==
  ASSUME NEW a, NEW b, NEW c, NEW d, NEW e, NEW f, LosingMore(a, e, c, b, f, d),
         NEW n \in Nat, NEW m \in Nat, b * n <= a * m
  PROVE  d * n <= c * m
<1>0. /\ a \in Nat /\ b \in Nat /\ c \in Nat /\ d \in Nat
      /\ e \in 0..100 /\ f \in 0..100 /\ f <= e
      /\ 100 * c = a * e /\ 100 * d = b * f
  BY DEF LosingMore
<1>1. PICK p \in Nat, r \in Nat : p = b * n /\ r = a * m
  BY <1>0, SMT
<1>2. p * f <= r * f
  BY <1>0, <1>1, TimesLE
<1>3. f * r <= e * r
  BY <1>0, <1>1, TimesLE
<1>4. PICK x \in Int, y \in Int : x = d * n /\ y = c * m
  BY <1>0
<1>5. p * f = 100 * x
  <2>1. p * f = (b * f) * n
    BY <1>0, <1>1
  <2>2. (100 * d) * n = 100 * x
    BY <1>0, <1>4
  <2> QED
    BY <1>0, <2>1, <2>2
<1>6. e * r = 100 * y
  <2>1. e * r = (a * e) * m
    BY <1>0, <1>1
  <2>2. (100 * c) * m = 100 * y
    BY <1>0, <1>4
  <2> QED
    BY <1>0, <2>1, <2>2
<1>7. r * f = f * r
  BY <1>0, <1>1
<1> QED
  BY <1>0, <1>2, <1>3, <1>4, <1>5, <1>6, <1>7

\* What the layers make of the charge of one reading, and of its temperature where
\* no sensor is stuck
Wearing(L, specs, sat, t, nominal, g) ==
  /\ L[0].soc = nominal.soc /\ L[0].temp = nominal.temp
  /\ \A i \in 0..Len(specs) : L[i].soc \in Nat
  /\ \A i \in 1..Len(specs) : 100 * L[i].soc = L[i - 1].soc * Share(specs[i], sat, t)

Heating(L, specs, sat, t, nominal) ==
  /\ L[0].temp = nominal.temp
  /\ \A i \in 0..Len(specs) : L[i].temp \in Int
  /\ \A i \in 1..Len(specs) : L[i].temp = L[i - 1].temp + Heat(specs[i], sat, t)

LEMMA LayersWear ==
  ASSUME NEW specs, Known(specs), NEW sat, Worsening(specs, sat), NEW t \in Int,
         NEW nominal, nominal.soc \in Nat, NEW was,
         NEW g \in Grains(specs, sat), Multiple(nominal.soc, g[0])
  PROVE  Wearing(Layers(specs, sat, t, nominal, was), specs, sat, t, nominal, g)
<1> DEFINE L == Layers(specs, sat, t, nominal, was)
           n == Len(specs)
           Good(i) == DOMAIN L[i] = Reading /\ L[i].soc \in Nat /\ Multiple(L[i].soc, g[i])
           Worn(i) == 100 * L[i].soc = L[i - 1].soc * Share(specs[i], sat, t)
           T == {i \in Nat : i <= n => Good(i)}
<1>1. n \in Nat /\ \A i \in 1..n : specs[i].type \in FaultTypes
  BY DEF Known
<1>2. /\ L[0] = [soc |-> nominal.soc, temp |-> nominal.temp, held |-> was]
      /\ \A i \in 1..n : L[i] = IF Active(specs[i], sat, t)
                                THEN Layered(L[i - 1], specs[i], t) ELSE L[i - 1]
  BY <1>1, LayersUnfold
<1>3. /\ \A i \in 0..n : g[i] \in Nat \ {0}
      /\ \A i \in 1..n : g[i - 1] = IF specs[i].sat = sat /\ specs[i].type = "fade"
                                    THEN 100 * g[i] ELSE g[i]
  BY DEF Grains
<1>4. \A i \in 1..n : Share(specs[i], sat, t) \in 0..100
  <2> SUFFICES ASSUME NEW i \in 1..n PROVE Share(specs[i], sat, t) \in 0..100
    OBVIOUS
  <2>1. specs[i].sat = sat => /\ specs[i].at \in Int /\ specs[i].rate \in Nat /\ specs[i].limit \in Nat
                              /\ specs[i].type = "fade" => specs[i].limit <= 100
    BY DEF Worsening
  <2>2. t <= t
    OBVIOUS
  <2> QED
    BY <2>1, <2>2, OneFaultWorsens
<1> HIDE DEF L, n
<1>5. 0 \in T
  <2>1. DOMAIN L[0] = Reading /\ L[0].soc = nominal.soc
    BY <1>2 DEF Reading
  <2> QED
    BY <2>1
<1>6. ASSUME NEW i \in 1..n, Good(i - 1) PROVE Good(i) /\ Worn(i)
  <2> DEFINE r == L[i - 1]  s == L[i]  spec == specs[i]  h == g[i]
  <2>1. /\ DOMAIN r = Reading /\ r.soc \in Nat /\ Multiple(r.soc, g[i - 1])
        /\ s = IF Active(spec, sat, t) THEN Layered(r, spec, t) ELSE r
        /\ spec.type \in FaultTypes
    BY <1>1, <1>2, <1>6
  <2>2. /\ g[i - 1] = IF spec.sat = sat /\ spec.type = "fade" THEN 100 * h ELSE h
        /\ h \in Nat \ {0} /\ Share(spec, sat, t) \in 0..100
    BY <1>1, <1>3, <1>4
  <2> HIDE DEF r, s, spec, h
  <2>3. CASE spec.type = "fade" /\ Active(spec, sat, t)
    <3>1. s = [r EXCEPT !.soc = (r.soc * Fade(spec, t)) \div 100]
      BY <2>1, <2>3 DEF Layered
    <3>2. DOMAIN s = Reading /\ s.soc = (r.soc * Share(spec, sat, t)) \div 100
      BY <2>1, <2>3, <3>1 DEF Share, Reading
    <3>3. Multiple(r.soc, 100 * h)
      BY <2>1, <2>2, <2>3 DEF Active
    <3>4. s.soc \in Nat /\ Multiple(s.soc, h) /\ 100 * s.soc = r.soc * Share(spec, sat, t)
      <4> DEFINE share == Share(spec, sat, t)  soc == r.soc
      <4>1. share \in 0..100 /\ soc \in Nat /\ Multiple(soc, 100 * h) /\ h \in Nat \ {0}
            /\ s.soc = (soc * share) \div 100
        BY <2>1, <2>2, <3>2, <3>3
      <4> HIDE DEF share, soc
      <4>4. Divisible(soc, h, share)
        BY <4>1 DEF Divisible
      <4>2. /\ (soc * share) \div 100 \in Nat
            /\ Multiple((soc * share) \div 100, h)
            /\ 100 * ((soc * share) \div 100) = soc * share
        BY <4>4, ExactShare
      <4>3. s.soc \in Nat /\ Multiple(s.soc, h) /\ 100 * s.soc = soc * share
        BY <4>1, <4>2
      <4> QED
        BY <4>3 DEF share, soc
    <3> QED
      BY <3>2, <3>4 DEF r, s, spec, h
  <2>4. CASE ~(spec.type = "fade" /\ Active(spec, sat, t))
    <3>1. Share(spec, sat, t) = 100
      BY <2>4 DEF Share
    <3>2. DOMAIN s = Reading /\ s.soc = r.soc
      <4>1. spec.type # "fade" => DOMAIN Layered(r, spec, t) = Reading /\ Layered(r, spec, t).soc = r.soc
        BY <2>1, OneLayer
      <4> QED
        BY <2>1, <2>4, <4>1
    <3>3. 100 * s.soc = r.soc * Share(spec, sat, t)
      BY <2>1, <3>1, <3>2
    <3>4. Multiple(s.soc, h)
      <4>1. PICK q \in Int : r.soc = q * g[i - 1]
        BY <2>1 DEF Multiple
      <4>2. CASE g[i - 1] = h
        BY <3>2, <4>1, <4>2 DEF Multiple
      <4>3. CASE g[i - 1] = 100 * h
        <5>1. q * (100 * h) = (q * 100) * h /\ q * 100 \in Int
          BY <2>2
        <5>2. s.soc = (q * 100) * h
          BY <3>2, <4>1, <4>3, <5>1
        <5> QED
          BY <5>1, <5>2 DEF Multiple
      <4> QED
        BY <2>2, <4>2, <4>3
    <3> QED
      BY <2>1, <3>2, <3>3, <3>4 DEF r, s, spec, h
  <2> QED
    BY <2>3, <2>4
<1>7. ASSUME NEW i \in Nat, i \in T PROVE i + 1 \in T
  <2> SUFFICES ASSUME i + 1 <= n PROVE Good(i + 1)
    OBVIOUS
  <2>1. i + 1 \in 1..n /\ i <= n /\ (i + 1) - 1 = i
    BY <1>1
  <2>2. Good((i + 1) - 1)
    BY <1>7, <2>1
  <2> QED
    BY <1>6, <2>1, <2>2
<1>8. Nat \subseteq T
  <2> HIDE DEF T
  <2> QED
    BY <1>5, <1>7, ByCounting
<1>9. \A i \in 0..n : Good(i)
  BY <1>1, <1>8
<1>10. \A i \in 1..n : Worn(i)
  <2> SUFFICES ASSUME NEW i \in 1..n PROVE Worn(i)
    OBVIOUS
  <2>1. i - 1 \in 0..n
    BY <1>1
  <2> QED
    BY <1>6, <1>9, <2>1
<1> QED
  BY <1>2, <1>9, <1>10 DEF Wearing, n, L

LEMMA LayersHeat ==
  ASSUME NEW specs, Known(specs), NEW sat, Worsening(specs, sat), NEW t \in Int,
         NEW nominal, nominal.temp \in Int, NEW was,
         \A i \in 1..Len(specs) : ~(specs[i].sat = sat /\ specs[i].type = "stuck")
  PROVE  Heating(Layers(specs, sat, t, nominal, was), specs, sat, t, nominal)
<1> DEFINE L == Layers(specs, sat, t, nominal, was)
           n == Len(specs)
           Good(i) == DOMAIN L[i] = Reading /\ L[i].temp \in Int
           Hotter(i) == L[i].temp = L[i - 1].temp + Heat(specs[i], sat, t)
           T == {i \in Nat : i <= n => Good(i)}
<1>1. n \in Nat /\ \A i \in 1..n : specs[i].type \in FaultTypes
  BY DEF Known
<1>2. /\ L[0] = [soc |-> nominal.soc, temp |-> nominal.temp, held |-> was]
      /\ \A i \in 1..n : L[i] = IF Active(specs[i], sat, t)
                                THEN Layered(L[i - 1], specs[i], t) ELSE L[i - 1]
  BY <1>1, LayersUnfold
<1>3. \A i \in 1..n : Heat(specs[i], sat, t) \in Nat
  <2> SUFFICES ASSUME NEW i \in 1..n PROVE Heat(specs[i], sat, t) \in Nat
    OBVIOUS
  <2>1. specs[i].sat = sat => /\ specs[i].at \in Int /\ specs[i].rate \in Nat /\ specs[i].limit \in Nat
                              /\ specs[i].type = "fade" => specs[i].limit <= 100
    BY DEF Worsening
  <2>2. t <= t
    OBVIOUS
  <2> QED
    BY <2>1, <2>2, OneFaultWorsens
<1>4. \A i \in 1..n : ~(specs[i].type = "stuck" /\ Active(specs[i], sat, t))
  BY DEF Active
<1> HIDE DEF L, n
<1>5. 0 \in T
  <2>1. DOMAIN L[0] = Reading /\ L[0].temp = nominal.temp
    BY <1>2 DEF Reading
  <2> QED
    BY <2>1
<1>6. ASSUME NEW i \in 1..n, Good(i - 1) PROVE Good(i) /\ Hotter(i)
  <2> DEFINE r == L[i - 1]  s == L[i]  spec == specs[i]
  <2>1. /\ DOMAIN r = Reading /\ r.temp \in Int
        /\ s = IF Active(spec, sat, t) THEN Layered(r, spec, t) ELSE r
        /\ spec.type \in FaultTypes /\ Heat(spec, sat, t) \in Nat
        /\ ~(spec.type = "stuck" /\ Active(spec, sat, t))
    BY <1>1, <1>2, <1>3, <1>4, <1>6
  <2> HIDE DEF r, s, spec
  <2>3. CASE spec.type = "runaway" /\ Active(spec, sat, t)
    <3>1. s = [r EXCEPT !.temp = r.temp + Bias(spec, t)]
      BY <2>1, <2>3 DEF Layered
    <3>2. DOMAIN s = Reading /\ s.temp = r.temp + Heat(spec, sat, t)
      BY <2>1, <2>3, <3>1 DEF Heat, Reading
    <3>3. s.temp \in Int
      BY <2>1, <3>2
    <3> QED
      BY <3>2, <3>3 DEF r, s, spec
  <2>4. CASE ~(spec.type = "runaway" /\ Active(spec, sat, t))
    <3>1. Heat(spec, sat, t) = 0
      BY <2>4 DEF Heat
    <3>2. DOMAIN s = Reading /\ s.temp = r.temp
      <4>1. Active(spec, sat, t) => spec.type = "fade"
        BY <2>1, <2>4 DEF FaultTypes
      <4>2. spec.type = "fade" => DOMAIN Layered(r, spec, t) = Reading /\ Layered(r, spec, t).temp = r.temp
        BY <2>1, OneLayer
      <4> QED
        BY <2>1, <4>1, <4>2
    <3>3. s.temp = r.temp + Heat(spec, sat, t)
      BY <2>1, <3>1, <3>2
    <3> QED
      BY <2>1, <3>2, <3>3 DEF r, s, spec
  <2> QED
    BY <2>3, <2>4
<1>7. ASSUME NEW i \in Nat, i \in T PROVE i + 1 \in T
  <2> SUFFICES ASSUME i + 1 <= n PROVE Good(i + 1)
    OBVIOUS
  <2>1. i + 1 \in 1..n /\ i <= n /\ (i + 1) - 1 = i
    BY <1>1
  <2>2. Good((i + 1) - 1)
    BY <1>7, <2>1
  <2> QED
    BY <1>6, <2>1, <2>2
<1>8. Nat \subseteq T
  <2> HIDE DEF T
  <2> QED
    BY <1>5, <1>7, ByCounting
<1>9. \A i \in 0..n : Good(i)
  BY <1>1, <1>8
<1>10. \A i \in 1..n : Hotter(i)
  <2> SUFFICES ASSUME NEW i \in 1..n PROVE Hotter(i)
    OBVIOUS
  <2>1. i - 1 \in 0..n
    BY <1>1
  <2> QED
    BY <1>6, <1>9, <2>1
<1> QED
  BY <1>2, <1>9, <1>10 DEF Heating, n, L

\* Of two readings of a satellite the later one is the worse: less of its charge is
\* left, and more heat is added.
LEMMA LaterIsWorse ==
  ASSUME NEW specs, Known(specs), NEW sat, Worsening(specs, sat),
         NEW t \in Int, NEW u \in Int, t <= u,
         NEW now1, now1.soc \in Nat, NEW now2, now2.soc \in Nat, NEW was1, NEW was2,
         NEW g \in Grains(specs, sat), Multiple(now1.soc, g[0]), Multiple(now2.soc, g[0])
  PROVE  Apply(specs, sat, u, now2, was2).soc * now1.soc
           <= Apply(specs, sat, t, now1, was1).soc * now2.soc
<1> DEFINE A == Layers(specs, sat, t, now1, was1)
           B == Layers(specs, sat, u, now2, was2)
           n == Len(specs)
           a == now1.soc  b == now2.soc
           Good(i) == B[i].soc * a <= A[i].soc * b
           T == {i \in Nat : i <= n => Good(i)}
<1>1. n \in Nat /\ a \in Nat /\ b \in Nat
  BY DEF Known
<1>2. Wearing(A, specs, sat, t, now1, g) /\ Wearing(B, specs, sat, u, now2, g)
  BY LayersWear
<1>3. /\ A[0].soc = a /\ B[0].soc = b
      /\ \A i \in 0..n : A[i].soc \in Nat /\ B[i].soc \in Nat
      /\ \A i \in 1..n : /\ 100 * A[i].soc = A[i - 1].soc * Share(specs[i], sat, t)
                         /\ 100 * B[i].soc = B[i - 1].soc * Share(specs[i], sat, u)
  BY <1>2 DEF Wearing
<1>4. \A i \in 1..n : /\ Share(specs[i], sat, t) \in 0..100 /\ Share(specs[i], sat, u) \in 0..100
                      /\ Share(specs[i], sat, u) <= Share(specs[i], sat, t)
  <2> SUFFICES ASSUME NEW i \in 1..n
               PROVE  /\ Share(specs[i], sat, t) \in 0..100 /\ Share(specs[i], sat, u) \in 0..100
                      /\ Share(specs[i], sat, u) <= Share(specs[i], sat, t)
    OBVIOUS
  <2>1. specs[i].sat = sat => /\ specs[i].at \in Int /\ specs[i].rate \in Nat /\ specs[i].limit \in Nat
                              /\ specs[i].type = "fade" => specs[i].limit <= 100
    BY DEF Worsening
  <2> QED
    BY <2>1, OneFaultWorsens
<1>8. Apply(specs, sat, u, now2, was2) = B[n] /\ Apply(specs, sat, t, now1, was1) = A[n]
  BY DEF Apply
<1> HIDE DEF A, B, n, a, b
<1>5. 0 \in T
  <2>1. B[0].soc * a <= A[0].soc * b
    BY <1>1, <1>3
  <2> QED
    BY <2>1
<1>6. ASSUME NEW i \in Nat, i \in T PROVE i + 1 \in T
  <2> SUFFICES ASSUME i + 1 <= n PROVE Good(i + 1)
    OBVIOUS
  <2>1. i + 1 \in 1..n /\ i <= n /\ (i + 1) - 1 = i /\ i \in 0..n /\ i + 1 \in 0..n
    BY <1>1
  <2>2. PICK e \in 0..100, f \in 0..100 :
          /\ e = Share(specs[i + 1], sat, t) /\ f = Share(specs[i + 1], sat, u) /\ f <= e
    BY <1>4, <2>1
  <2>3. PICK x \in Nat, y \in Nat, v \in Nat, w \in Nat :
          x = A[i].soc /\ y = B[i].soc /\ v = A[i + 1].soc /\ w = B[i + 1].soc
    BY <1>3, <2>1
  <2>4. 100 * v = x * e /\ 100 * w = y * f
    BY <1>3, <2>1, <2>2, <2>3
  <2>5. y * a <= x * b
    BY <1>6, <2>1, <2>3
  <2>7. LosingMore(x, e, v, y, f, w)
    BY <2>2, <2>3, <2>4 DEF LosingMore
  <2>6. w * a <= v * b
    BY <1>1, <2>5, <2>7, SharesFall
  <2> QED
    BY <2>3, <2>6
<1>7. Nat \subseteq T
  <2> HIDE DEF T
  <2> QED
    BY <1>5, <1>6, ByCounting
<1>9. Good(n)
  BY <1>1, <1>7
<1> QED
  BY <1>8, <1>9 DEF a, b

\* What the only fade of a satellite leaves is its floor, at least.
LEMMA FadeHasAFloor ==
  ASSUME NEW specs, Known(specs), NEW sat, Worsening(specs, sat), NEW t \in Int,
         NEW now, now.soc \in Nat, NEW was,
         NEW g \in Grains(specs, sat), Multiple(now.soc, g[0]),
         NEW f \in 1..Len(specs), specs[f].sat = sat, specs[f].type = "fade",
         \A k \in 1..Len(specs) : specs[k].sat = sat /\ specs[k].type = "fade" => k = f
  PROVE  specs[f].limit * now.soc <= 100 * Apply(specs, sat, t, now, was).soc
<1> DEFINE L == Layers(specs, sat, t, now, was)
           n == Len(specs)
           a == now.soc
           floor == specs[f].limit
           Good(i) == IF i < f THEN L[i].soc = a ELSE floor * a <= 100 * L[i].soc
           T == {i \in Nat : i <= n => Good(i)}
<1>1. n \in Nat /\ a \in Nat /\ f \in 1..n
  BY DEF Known
<1>2. Wearing(L, specs, sat, t, now, g)
  BY LayersWear
<1>3. /\ L[0].soc = a
      /\ \A i \in 0..n : L[i].soc \in Nat
      /\ \A i \in 1..n : 100 * L[i].soc = L[i - 1].soc * Share(specs[i], sat, t)
  BY <1>2 DEF Wearing
<1>4. \A i \in 1..n : i # f => Share(specs[i], sat, t) = 100
  BY DEF Share, Active
<1>5. floor \in 0..100 /\ Share(specs[f], sat, t) \in 0..100 /\ floor <= Share(specs[f], sat, t)
  <2>1. specs[f].at \in Int /\ specs[f].rate \in Nat /\ floor \in Nat /\ floor <= 100
    BY DEF Worsening
  <2>2. Share(specs[f], sat, t) \in 0..100
    <3>1. specs[f].sat = sat => /\ specs[f].at \in Int /\ specs[f].rate \in Nat /\ specs[f].limit \in Nat
                                /\ specs[f].type = "fade" => specs[f].limit <= 100
      BY <2>1
    <3>2. t <= t
      OBVIOUS
    <3> QED
      BY <3>1, <3>2, OneFaultWorsens
  <2>3. floor <= Fade(specs[f], t)
    <3>1. PICK x \in Int : x = specs[f].rate * (t - specs[f].at)
      BY <2>1
    <3>2. Fade(specs[f], t) = IF floor < 100 - x THEN 100 - x ELSE floor
      BY <3>1 DEF Fade, Higher
    <3> QED
      BY <2>1, <3>1, <3>2
  <2>4. floor <= Share(specs[f], sat, t)
    BY <2>1, <2>3 DEF Share
  <2>5. floor \in 0..100
    <3>1. \A x \in Nat : x <= 100 => x \in 0..100
      OBVIOUS
    <3> HIDE DEF floor
    <3> QED
      BY <2>1, <3>1
  <2> QED
    BY <2>2, <2>4, <2>5
<1>6. Apply(specs, sat, t, now, was) = L[n]
  BY DEF Apply
<1> HIDE DEF L, n, a, floor
<1>7. 0 \in T
  BY <1>1, <1>3
<1>8. ASSUME NEW i \in Nat, i \in T PROVE i + 1 \in T
  <2> SUFFICES ASSUME i + 1 <= n PROVE Good(i + 1)
    OBVIOUS
  <2>1. i + 1 \in 1..n /\ i <= n /\ (i + 1) - 1 = i /\ i \in 0..n /\ i + 1 \in 0..n
    BY <1>1
  <2>2. PICK x \in Nat, y \in Nat : x = L[i].soc /\ y = L[i + 1].soc
    BY <1>3, <2>1
  <2>3. 100 * y = x * Share(specs[i + 1], sat, t)
    BY <1>3, <2>1, <2>2
  <2>4. CASE i + 1 = f
    <3>1. x = a
      BY <1>8, <2>1, <2>2, <2>4
    <3>2. PICK e \in 0..100 : e = Share(specs[f], sat, t)
      BY <1>5
    <3>3. PICK m \in 0..100 : m = floor
      BY <1>5
    <3>4. m <= e
      BY <1>5, <3>2, <3>3
    <3>5. e \in Int /\ m \in Int /\ a \in Nat
      BY <1>1, <3>2
    <3>6. m * a <= e * a
      BY <3>3, <3>4, <3>5, TimesLE
    <3>7. a * e = e * a
      BY <3>5
    <3>8. 100 * y = x * Share(specs[f], sat, t)
      BY <2>3, <2>4
    <3>9. 100 * y = a * e
      BY <3>1, <3>2, <3>8
    <3>10. m * a <= 100 * y
      BY <3>6, <3>7, <3>9
    <3>11. floor * a <= 100 * L[i + 1].soc
      BY <2>2, <3>3, <3>10
    <3>12. ~(i + 1 < f)
      BY <1>1, <2>4
    <3> QED
      BY <3>11, <3>12
  <2>5. CASE i + 1 # f
    <3>1. x = y
      BY <1>4, <2>1, <2>2, <2>3, <2>5
    <3>2. i + 1 < f <=> i < f
      BY <1>1, <2>5
    <3> QED
      BY <1>8, <2>1, <2>2, <3>1, <3>2
  <2> QED
    BY <2>4, <2>5
<1>9. Nat \subseteq T
  <2> HIDE DEF T
  <2> QED
    BY <1>7, <1>8, ByCounting
<1>10. Good(n) /\ ~(n < f)
  BY <1>1, <1>9
<1> QED
  BY <1>6, <1>10 DEF a, floor

LEMMA LaterIsHotter ==
  ASSUME NEW specs, Known(specs), NEW sat, Worsening(specs, sat),
         \A i \in 1..Len(specs) : ~(specs[i].sat = sat /\ specs[i].type = "stuck"),
         NEW t \in Int, NEW u \in Int, t <= u,
         NEW now1, now1.temp \in Int, NEW now2, now2.temp \in Int, NEW was1, NEW was2
  PROVE  LET first == Apply(specs, sat, t, now1, was1).temp
             later == Apply(specs, sat, u, now2, was2).temp
         IN  /\ first \in Int /\ later \in Int
             /\ first - now1.temp <= later - now2.temp
             /\ \A f \in 1..Len(specs) :
                  /\ specs[f].sat = sat
                  /\ \A k \in 1..Len(specs) : specs[k].sat = sat /\ specs[k].type = "runaway" => k = f
                  => later - now2.temp <= specs[f].limit
<1> DEFINE A == Layers(specs, sat, t, now1, was1)
           B == Layers(specs, sat, u, now2, was2)
           n == Len(specs)
           a == now1.temp  b == now2.temp
           Good(i) == A[i].temp - a <= B[i].temp - b
           T == {i \in Nat : i <= n => Good(i)}
<1>1. n \in Nat /\ a \in Int /\ b \in Int
  BY DEF Known
<1>2. Heating(A, specs, sat, t, now1) /\ Heating(B, specs, sat, u, now2)
  BY LayersHeat
<1>3. /\ A[0].temp = a /\ B[0].temp = b
      /\ \A i \in 0..n : A[i].temp \in Int /\ B[i].temp \in Int
      /\ \A i \in 1..n : /\ A[i].temp = A[i - 1].temp + Heat(specs[i], sat, t)
                         /\ B[i].temp = B[i - 1].temp + Heat(specs[i], sat, u)
  BY <1>2 DEF Heating
<1>4. \A i \in 1..n : /\ Heat(specs[i], sat, t) \in Nat /\ Heat(specs[i], sat, u) \in Nat
                      /\ Heat(specs[i], sat, t) <= Heat(specs[i], sat, u)
                      /\ specs[i].sat = sat => specs[i].limit \in Nat /\ Heat(specs[i], sat, u) <= specs[i].limit
                      /\ specs[i].sat # sat \/ specs[i].type # "runaway" =>
                           Heat(specs[i], sat, u) = 0
  <2> SUFFICES ASSUME NEW i \in 1..n
               PROVE  /\ Heat(specs[i], sat, t) \in Nat /\ Heat(specs[i], sat, u) \in Nat
                      /\ Heat(specs[i], sat, t) <= Heat(specs[i], sat, u)
                      /\ specs[i].sat = sat => specs[i].limit \in Nat /\ Heat(specs[i], sat, u) <= specs[i].limit
                      /\ specs[i].sat # sat \/ specs[i].type # "runaway" =>
                           Heat(specs[i], sat, u) = 0
    OBVIOUS
  <2>1. specs[i].sat = sat => /\ specs[i].at \in Int /\ specs[i].rate \in Nat /\ specs[i].limit \in Nat
                              /\ specs[i].type = "fade" => specs[i].limit <= 100
    BY DEF Worsening
  <2>2. specs[i].sat # sat \/ specs[i].type # "runaway" => Heat(specs[i], sat, u) = 0
    BY DEF Heat, Active
  <2> QED
    BY <2>1, <2>2, OneFaultWorsens
<1>8. Apply(specs, sat, u, now2, was2) = B[n] /\ Apply(specs, sat, t, now1, was1) = A[n]
  BY DEF Apply
<1> HIDE DEF A, B, n, a, b
<1>5. 0 \in T
  <2>1. A[0].temp - a <= B[0].temp - b
    BY <1>1, <1>3
  <2> QED
    BY <2>1
<1>6. ASSUME NEW i \in Nat, i \in T PROVE i + 1 \in T
  <2> SUFFICES ASSUME i + 1 <= n PROVE Good(i + 1)
    OBVIOUS
  <2>1. i + 1 \in 1..n /\ i <= n /\ (i + 1) - 1 = i /\ i \in 0..n /\ i + 1 \in 0..n
    BY <1>1
  <2>2. PICK e \in Nat, f \in Nat :
          /\ e = Heat(specs[i + 1], sat, t) /\ f = Heat(specs[i + 1], sat, u) /\ e <= f
    BY <1>4, <2>1
  <2>3. PICK x \in Int, y \in Int, v \in Int, w \in Int :
          x = A[i].temp /\ y = B[i].temp /\ v = A[i + 1].temp /\ w = B[i + 1].temp
    BY <1>3, <2>1
  <2>4. v = x + e /\ w = y + f
    BY <1>3, <2>1, <2>2, <2>3
  <2>5. x - a <= y - b
    BY <1>6, <2>1, <2>3
  <2>6. PICK c \in Int, d \in Int : c = a /\ d = b
    BY <1>1
  <2>7. x - c <= y - d
    BY <2>5, <2>6
  <2>8. e <= f
    BY <2>2
  <2>9. v - c <= w - d
    BY <2>4, <2>7, <2>8
  <2> QED
    BY <2>3, <2>6, <2>9
<1>7. Nat \subseteq T
  <2> HIDE DEF T
  <2> QED
    BY <1>5, <1>6, ByCounting
<1>9. Good(n)
  BY <1>1, <1>7
<1>10. ASSUME NEW f \in 1..n, specs[f].sat = sat,
              \A k \in 1..n : specs[k].sat = sat /\ specs[k].type = "runaway" => k = f
       PROVE  B[n].temp - b <= specs[f].limit
  <2> DEFINE heat == Heat(specs[f], sat, u)
             U == {i \in Nat : i <= n => B[i].temp - b = IF f <= i THEN heat ELSE 0}
  <2>1. heat \in Nat /\ specs[f].limit \in Nat /\ heat <= specs[f].limit
    BY <1>4, <1>10
  <2> HIDE DEF heat
  <2>2. 0 \in U
    <3>1. ~(f <= 0) /\ B[0].temp - b = 0
      BY <1>1, <1>3
    <3> QED
      BY <3>1
  <2>3. ASSUME NEW i \in Nat, i \in U PROVE i + 1 \in U
    <3> SUFFICES ASSUME i + 1 <= n
                 PROVE  B[i + 1].temp - b = IF f <= i + 1 THEN heat ELSE 0
      OBVIOUS
    <3>1. i + 1 \in 1..n /\ i <= n /\ (i + 1) - 1 = i /\ i \in 0..n /\ i + 1 \in 0..n
      BY <1>1
    <3>2. PICK y \in Int, w \in Int, h \in Nat :
            y = B[i].temp /\ w = B[i + 1].temp /\ h = Heat(specs[i + 1], sat, u)
      BY <1>3, <1>4, <3>1
    <3>3. w = y + h
      BY <1>3, <3>1, <3>2
    <3>4. y - b = IF f <= i THEN heat ELSE 0
      BY <2>3, <3>1, <3>2
    <3>5. IF f = i + 1 THEN h = heat ELSE h = 0
      BY <1>4, <1>10, <3>1, <3>2 DEF heat
    <3> QED
      BY <1>1, <2>1, <3>2, <3>3, <3>4, <3>5
  <2>4. Nat \subseteq U
    <3> HIDE DEF U
    <3> QED
      BY <2>2, <2>3, ByCounting
  <2>5. B[n].temp - b = IF f <= n THEN heat ELSE 0
    BY <1>1, <2>4
  <2> QED
    BY <1>1, <2>1, <2>5
<1>11. A[n].temp \in Int /\ B[n].temp \in Int
  BY <1>1, <1>3
<1> QED
  BY <1>8, <1>9, <1>10, <1>11 DEF a, b, n

-----------------------------------------------------------------------------
(* The series                                                              *)

\* A satellite by itself after i ticks
After(specs, sat, tle, start, dt, i) == Life(specs, sat, tle, start, dt, i)[i]

\* A longer series begins with the shorter one.
LEMMA LifePrefix ==
  ASSUME NEW specs, NEW sat, NEW tle, NEW start, NEW dt, NEW n \in Nat, NEW i \in 0..n
  PROVE  Life(specs, sat, tle, start, dt, n)[i] = After(specs, sat, tle, start, dt, i)
<1> DEFINE L(m) == Life(specs, sat, tle, start, dt, m)
           T == {k \in Nat : k <= i => L(n)[k] = L(i)[k]}
<1>2. i \in Nat /\ i <= n
  OBVIOUS
<1>6. IsRun(L(n), specs, sat, tle, start, dt, n) /\ IsRun(L(i), specs, sat, tle, start, dt, i)
  BY <1>2, LifeUnfold
<1> HIDE DEF L
<1>1. /\ L(n)[0] = L(i)[0]
      /\ \A k \in 1..n : L(n)[k] = Lived(specs, sat, tle, start, dt, k, L(n)[k - 1])
      /\ \A k \in 1..i : L(i)[k] = Lived(specs, sat, tle, start, dt, k, L(i)[k - 1])
  BY <1>6 DEF IsRun
<1>3. 0 \in T
  BY <1>1, <1>2
<1>4. ASSUME NEW k \in Nat, k \in T PROVE k + 1 \in T
  <2> SUFFICES ASSUME k + 1 <= i PROVE L(n)[k + 1] = L(i)[k + 1]
    OBVIOUS
  <2>1. k + 1 \in 1..n /\ k + 1 \in 1..i /\ k <= i /\ (k + 1) - 1 = k
    BY <1>2
  <2>2. L(n)[k] = L(i)[k]
    BY <1>4, <2>1
  <2> QED
    BY <1>1, <1>2, <2>1, <2>2
<1>5. Nat \subseteq T
  <2> HIDE DEF T
  <2> QED
    BY <1>3, <1>4, ByCounting
<1> QED
  BY <1>2, <1>5 DEF After, L

\* The next tick goes on from what is after this one.
LEMMA AfterNext ==
  ASSUME NEW specs, NEW sat, NEW tle, NEW start, NEW dt, NEW n \in Nat
  PROVE  /\ After(specs, sat, tle, start, dt, 0) = [state |-> InitialState, held |-> {}]
         /\ After(specs, sat, tle, start, dt, n + 1)
              = Lived(specs, sat, tle, start, dt, n + 1, After(specs, sat, tle, start, dt, n))
<1>1. n + 1 \in Nat /\ n + 1 \in 1..n + 1 /\ n \in 0..n + 1 /\ (n + 1) - 1 = n
  OBVIOUS
<1>2. Life(specs, sat, tle, start, dt, n + 1)[n] = After(specs, sat, tle, start, dt, n)
  BY <1>1, LifePrefix
<1>3. Life(specs, sat, tle, start, dt, n + 1)[n + 1]
        = Lived(specs, sat, tle, start, dt, n + 1, Life(specs, sat, tle, start, dt, n + 1)[(n + 1) - 1])
  BY <1>1, LifeUnfold DEF IsRun
<1>4. Life(specs, sat, tle, start, dt, 0)[0] = [state |-> InitialState, held |-> {}]
  <2>1. 0 \in Nat
    OBVIOUS
  <2>2. IsRun(Life(specs, sat, tle, start, dt, 0), specs, sat, tle, start, dt, 0)
    BY <2>1, LifeUnfold
  <2> QED
    BY <2>2 DEF IsRun
<1> QED
  BY <1>1, <1>2, <1>3, <1>4 DEF After

\* The physics of a satellite are the same with any faults.
LEMMA FaultsLeaveThePhysics ==
  ASSUME NEW specs, NEW others, NEW sat, NEW tle, NEW start, NEW dt, NEW n \in Nat
  PROVE  After(specs, sat, tle, start, dt, n).state = After(others, sat, tle, start, dt, n).state
<1> DEFINE A(i) == After(specs, sat, tle, start, dt, i)
           B(i) == After(others, sat, tle, start, dt, i)
           T == {i \in Nat : A(i).state = B(i).state}
           step(s, i) == Stepped(s, InShadow(tle, start + (i - 1) * dt), dt)
<1>1. \A i \in Nat : A(i + 1).state = step(A(i).state, i + 1) /\ B(i + 1).state = step(B(i).state, i + 1)
  <2> SUFFICES ASSUME NEW i \in Nat
               PROVE  /\ A(i + 1).state = step(A(i).state, i + 1)
                      /\ B(i + 1).state = step(B(i).state, i + 1)
    OBVIOUS
  <2>1. /\ A(i + 1) = Lived(specs, sat, tle, start, dt, i + 1, A(i))
        /\ B(i + 1) = Lived(others, sat, tle, start, dt, i + 1, B(i))
    BY AfterNext, Zenon
  <2> HIDE DEF A, B
  <2> QED
    BY <2>1 DEF Lived
<1>2. A(0).state = InitialState /\ B(0).state = InitialState
  BY AfterNext
<1> HIDE DEF A, B, step
<1>3. 0 \in T /\ \A i \in Nat : i \in T => i + 1 \in T
  BY <1>1, <1>2
<1>4. Nat \subseteq T
  <2> HIDE DEF T
  <2> QED
    BY <1>3, ByCounting
<1> QED
  BY <1>4 DEF A, B

\* What a stuck sensor holds, it holds for the rest of the series.
LEMMA HeldForGood ==
  ASSUME NEW specs, Known(specs), NEW sat, NEW tle, NEW start, NEW dt,
         NEW m \in Nat, NEW n \in Nat, m <= n,
         After(specs, sat, tle, start, dt, m).held # {}
  PROVE  After(specs, sat, tle, start, dt, n).held = After(specs, sat, tle, start, dt, m).held
<1> DEFINE A(i) == After(specs, sat, tle, start, dt, i)
           T == {i \in Nat : A(m + i).held = A(m).held}
<1>1. \A i \in Nat : A(i).held # {} => A(i + 1).held = A(i).held
  <2> SUFFICES ASSUME NEW i \in Nat, A(i).held # {} PROVE A(i + 1).held = A(i).held
    OBVIOUS
  <2> DEFINE at   == start + ((i + 1) - 1) * dt
             tick == Stepped(A(i).state, InShadow(tle, at), dt)
  <2>1. A(i + 1).held = Apply(specs, sat, at, tick, A(i).held).held
    <3>1. A(i + 1) = Lived(specs, sat, tle, start, dt, i + 1, A(i))
      BY AfterNext, Zenon
    <3> HIDE DEF A
    <3> QED
      BY <3>1 DEF Lived
  <2> HIDE DEF at, tick, A
  <2> QED
    BY <2>1, LayersTouchOwnChannels
<1>2. A(m).held # {}
  OBVIOUS
<1> HIDE DEF A
<1>3. 0 \in T
  <2>1. m + 0 = m
    OBVIOUS
  <2> QED
    BY <2>1
<1>4. \A i \in Nat : i \in T => i + 1 \in T
  <2> SUFFICES ASSUME NEW i \in Nat, i \in T PROVE i + 1 \in T
    OBVIOUS
  <2>1. m + i \in Nat /\ (m + i) + 1 = m + (i + 1) /\ i + 1 \in Nat
    OBVIOUS
  <2>2. A((m + i) + 1).held = A(m + i).held
    BY <1>1, <1>2, <2>1
  <2> QED
    BY <2>1, <2>2
<1>5. Nat \subseteq T
  <2> HIDE DEF T
  <2> QED
    BY <1>3, <1>4, ByCounting
<1>6. PICK d \in Nat : n = m + d
  <2>1. n - m \in Nat /\ n = m + (n - m)
    OBVIOUS
  <2> QED
    BY <2>1
<1> QED
  BY <1>5, <1>6 DEF A

\* The sample drawn for a tick is the one made after as many ticks.
LEMMA SamplesDrawn ==
  ASSUME NEW specs, NEW sat, NEW tle, NEW start, NEW dt, NEW n \in Nat
  PROVE  /\ DOMAIN RunOneSat(specs, sat, tle, start, dt, n) = 1..n
         /\ \A i \in 1..n : RunOneSat(specs, sat, tle, start, dt, n)[i]
                              = After(specs, sat, tle, start, dt, i).sample
<1>1. RunOneSat(specs, sat, tle, start, dt, n)
        = [i \in 1..n |-> Life(specs, sat, tle, start, dt, n)[i].sample]
  BY DEF RunOneSat
<1>2. \A i \in 1..n : Life(specs, sat, tle, start, dt, n)[i] = After(specs, sat, tle, start, dt, i)
  <2> SUFFICES ASSUME NEW i \in 1..n
               PROVE  Life(specs, sat, tle, start, dt, n)[i] = After(specs, sat, tle, start, dt, i)
    OBVIOUS
  <2>1. i \in 0..n
    OBVIOUS
  <2> QED
    BY <2>1, LifePrefix
<1> QED
  BY <1>1, <1>2

Channels == {"shadow", "soc", "net", "temp", "heat"}

\* A sample is the state after its tick but for what the faults active at the
\* time of the tick make of it, and a stuck sensor shows what it holds.
LEMMA SampleFacts ==
  ASSUME NEW specs, Known(specs), NEW sat, NEW tle, NEW start, NEW dt, NEW n \in Nat
  PROVE  LET a == After(specs, sat, tle, start, dt, n + 1)
             at == start + n * dt
             Through(type) == \E k \in 1..Len(specs) :
                                specs[k].type = type /\ Active(specs[k], sat, at)
         IN  /\ DOMAIN a.sample = Channels
             /\ \A c \in {"shadow", "net", "heat"} : a.sample[c] = a.state[c]
             /\ a.sample.soc # a.state.soc => Through("fade")
             /\ a.sample.temp # a.state.temp => Through("stuck") \/ Through("runaway")
             /\ \A f \in 1..Len(specs) :
                  /\ specs[f].type = "stuck" /\ Active(specs[f], sat, at)
                  /\ \A k \in 1..Len(specs) :
                       specs[k].type = "runaway" /\ specs[k].sat = sat => k < f
                  => /\ a.held # {}
                     /\ a.sample.temp = CHOOSE value \in a.held : TRUE
<1> DEFINE a == After(specs, sat, tle, start, dt, n + 1)
           before == After(specs, sat, tle, start, dt, n)
           at == start + n * dt
           Through(type) == \E k \in 1..Len(specs) :
                              specs[k].type = type /\ Active(specs[k], sat, at)
           tick == Stepped(before.state, InShadow(tle, at), dt)
           shown == Apply(specs, sat, at, tick, before.held)
<1>1. a = [state |-> tick, held |-> shown.held,
           sample |-> [tick EXCEPT !.soc = shown.soc, !.temp = shown.temp]]
  <2>1. a = Lived(specs, sat, tle, start, dt, n + 1, before)
    BY AfterNext, Zenon
  <2>2. (n + 1) - 1 = n
    OBVIOUS
  <2> HIDE DEF a, before
  <2> QED
    BY <2>1, <2>2 DEF Lived
<1>2. DOMAIN tick = Channels
  BY DEF Stepped, Channels
<1>3. /\ shown.soc # tick.soc => Through("fade")
      /\ shown.temp # tick.temp => Through("stuck") \/ Through("runaway")
  <2> HIDE DEF tick, before, at
  <2> QED
    BY LayersTouchOwnChannels
<1>4. ASSUME NEW f \in 1..Len(specs), specs[f].type = "stuck", Active(specs[f], sat, at),
             \A k \in 1..Len(specs) : specs[k].type = "runaway" /\ specs[k].sat = sat => k < f
      PROVE  shown.held # {} /\ shown.temp = CHOOSE value \in shown.held : TRUE
  <2> HIDE DEF tick, before, at
  <2> QED
    BY <1>4, LayersHold
<1> HIDE DEF tick, shown, before, Through, at, a
<1>5. /\ a.state = tick /\ a.held = shown.held
      /\ DOMAIN a.sample = Channels
      /\ a.sample.soc = shown.soc /\ a.sample.temp = shown.temp
      /\ \A c \in {"shadow", "net", "heat"} : a.sample[c] = tick[c]
  BY <1>1, <1>2 DEF Channels
<1>6. /\ DOMAIN a.sample = Channels
      /\ \A c \in {"shadow", "net", "heat"} : a.sample[c] = a.state[c]
      /\ a.sample.soc # a.state.soc => Through("fade")
      /\ a.sample.temp # a.state.temp => Through("stuck") \/ Through("runaway")
  BY <1>3, <1>5
<1>7. \A f \in 1..Len(specs) :
        /\ specs[f].type = "stuck" /\ Active(specs[f], sat, at)
        /\ \A k \in 1..Len(specs) : specs[k].type = "runaway" /\ specs[k].sat = sat => k < f
        => a.held # {} /\ a.sample.temp = CHOOSE value \in a.held : TRUE
  <2> SUFFICES ASSUME NEW f \in 1..Len(specs), specs[f].type = "stuck", Active(specs[f], sat, at),
                      \A k \in 1..Len(specs) :
                        specs[k].type = "runaway" /\ specs[k].sat = sat => k < f
               PROVE  a.held # {} /\ a.sample.temp = CHOOSE value \in a.held : TRUE
    OBVIOUS
  <2>1. shown.held # {} /\ shown.temp = CHOOSE value \in shown.held : TRUE
    BY <1>4
  <2> QED
    BY <1>5, <2>1
<1> QED
  BY <1>6, <1>7 DEF a, at, Through

\* Without faults the sample is the state.
LEMMA NoFaultNoChange ==
  ASSUME NEW sat, NEW tle, NEW start, NEW dt, NEW n \in Nat
  PROVE  LET a == After(<<>>, sat, tle, start, dt, n + 1)
         IN  \A c \in Channels : a.sample[c] = a.state[c]
<1> DEFINE a == After(<<>>, sat, tle, start, dt, n + 1)
           none == <<>>
<1>1. Known(none) /\ Len(none) = 0
  BY DEF Known
<1>2. /\ \A c \in {"shadow", "net", "heat"} : a.sample[c] = a.state[c]
      /\ a.sample.soc # a.state.soc => \E k \in 1..Len(none) : TRUE
      /\ a.sample.temp # a.state.temp => \E k \in 1..Len(none) : TRUE
  <2> HIDE DEF none
  <2>1. LET b == After(none, sat, tle, start, dt, n + 1)
        IN  /\ \A c \in {"shadow", "net", "heat"} : b.sample[c] = b.state[c]
            /\ b.sample.soc # b.state.soc => \E k \in 1..Len(none) : TRUE
            /\ b.sample.temp # b.state.temp => \E k \in 1..Len(none) : TRUE
    BY <1>1, SampleFacts
  <2> QED
    BY <2>1 DEF none
<1> HIDE DEF a, none
<1>3. a.sample.soc = a.state.soc /\ a.sample.temp = a.state.temp
  BY <1>1, <1>2
<1>4. \A c \in Channels : a.sample[c] = a.state[c]
  BY <1>2, <1>3 DEF Channels
<1> QED
  BY <1>4 DEF a

-----------------------------------------------------------------------------
(* The shaded stretches                                                    *)

\* The stretches found up to minute i and the one that is open, if any, cover
\* the minutes in eclipse so far, and no other.
Covering(dark, i, s) ==
  /\ DOMAIN s = {"open", "from", "spans"} /\ s.open \in BOOLEAN
  /\ s.open => s.from \in 1..i
  /\ \A p \in s.spans : p[1] \in Nat /\ p[2] \in Nat /\ p[2] <= i
  /\ \A k \in 1..i :
       dark[k] <=> (\E p \in s.spans : p[1] <= k /\ k < p[2]) \/ (s.open /\ s.from <= k)

LEMMA ShadedCovers ==
  ASSUME NEW dark, NEW i \in Nat, NEW s, Covering(dark, i, s)
  PROVE  Covering(dark, i + 1, Shaded(dark, i + 1, s))
<1> DEFINE z == Shaded(dark, i + 1, s)
<1>1. /\ DOMAIN s = {"open", "from", "spans"} /\ s.open \in BOOLEAN
      /\ s.open => s.from \in 1..i
      /\ \A p \in s.spans : p[1] \in Nat /\ p[2] \in Nat /\ p[2] <= i
      /\ \A k \in 1..i :
           dark[k] <=> (\E p \in s.spans : p[1] <= k /\ k < p[2]) \/ (s.open /\ s.from <= k)
  BY DEF Covering
<1>2. \A k \in 1..i + 1 : k \in 1..i \/ k = i + 1
  OBVIOUS
<1>3. \A p \in s.spans : ~(i + 1 < p[2]) /\ p[2] <= i + 1
  BY <1>1
<1>4. CASE dark[i + 1] /\ ~s.open
  <2>1. z = [s EXCEPT !.open = TRUE, !.from = i + 1]
    BY <1>4 DEF Shaded
  <2>2. DOMAIN z = {"open", "from", "spans"} /\ z.open = TRUE /\ z.from = i + 1 /\ z.spans = s.spans
    BY <1>1, <2>1
  <2>3. \A k \in 1..i + 1 :
          dark[k] <=> (\E p \in z.spans : p[1] <= k /\ k < p[2]) \/ (z.open /\ z.from <= k)
    <3> SUFFICES ASSUME NEW k \in 1..i + 1
                 PROVE  dark[k] <=> \/ \E p \in s.spans : p[1] <= k /\ k < p[2]
                                    \/ i + 1 <= k
      BY <2>2
    <3>1. CASE k \in 1..i
      <4>1. ~(i + 1 <= k)
        BY <3>1
      <4> QED
        BY <1>1, <1>4, <3>1, <4>1
    <3>2. CASE k = i + 1
      BY <1>4, <3>2
    <3> QED
      BY <1>2, <3>1, <3>2
  <2>4. i + 1 \in 1..i + 1
    OBVIOUS
  <2> HIDE DEF z
  <2>5. Covering(dark, i + 1, z)
    BY <1>1, <1>3, <2>2, <2>3, <2>4 DEF Covering
  <2> QED
    BY <2>5 DEF z
<1>5. CASE ~dark[i + 1] /\ s.open
  <2> DEFINE new == <<s.from, i + 1>>
  <2>1. z = [s EXCEPT !.open = FALSE, !.spans = @ \cup {new}]
    BY <1>5 DEF Shaded
  <2>2. /\ DOMAIN z = {"open", "from", "spans"} /\ z.open = FALSE
        /\ z.spans = s.spans \cup {new}
    BY <1>1, <2>1
  <2>3. new[1] = s.from /\ new[2] = i + 1 /\ s.from \in 1..i
    BY <1>1, <1>5
  <2> HIDE DEF new
  <2>4. \A k \in 1..i + 1 :
          dark[k] <=> (\E p \in z.spans : p[1] <= k /\ k < p[2]) \/ (z.open /\ z.from <= k)
    <3> SUFFICES ASSUME NEW k \in 1..i + 1
                 PROVE  dark[k] <=> \E p \in s.spans \cup {new} : p[1] <= k /\ k < p[2]
      BY <2>2
    <3>1. (\E p \in s.spans \cup {new} : p[1] <= k /\ k < p[2])
            <=> (\E p \in s.spans : p[1] <= k /\ k < p[2]) \/ (s.from <= k /\ k < i + 1)
      BY <2>3
    <3>2. CASE k \in 1..i
      <4>1. k < i + 1
        BY <3>2
      <4> QED
        BY <1>1, <1>5, <3>1, <3>2, <4>1
    <3>3. CASE k = i + 1
      BY <1>3, <1>5, <3>1, <3>3
    <3> QED
      BY <1>2, <3>2, <3>3
  <2>5. \A p \in z.spans : p[1] \in Nat /\ p[2] \in Nat /\ p[2] <= i + 1
    BY <1>1, <1>3, <2>2, <2>3
  <2> HIDE DEF z
  <2>6. Covering(dark, i + 1, z)
    BY <2>2, <2>4, <2>5 DEF Covering
  <2> QED
    BY <2>6 DEF z
<1>6. CASE (dark[i + 1] /\ s.open) \/ (~dark[i + 1] /\ ~s.open)
  <2>1. z = s
    BY <1>6 DEF Shaded
  <2>2. \A k \in 1..i + 1 :
          dark[k] <=> (\E p \in s.spans : p[1] <= k /\ k < p[2]) \/ (s.open /\ s.from <= k)
    <3> SUFFICES ASSUME NEW k \in 1..i + 1
                 PROVE  dark[k] <=> \/ \E p \in s.spans : p[1] <= k /\ k < p[2]
                                    \/ s.open /\ s.from <= k
      OBVIOUS
    <3>1. CASE k \in 1..i
      BY <1>1, <3>1
    <3>2. CASE k = i + 1
      <4>1. s.open => s.from <= i + 1
        BY <1>1
      <4> QED
        BY <1>3, <1>6, <3>2, <4>1
    <3> QED
      BY <1>2, <3>1, <3>2
  <2>3. s.open => s.from \in 1..i + 1
    BY <1>1
  <2>4. Covering(dark, i + 1, s)
    BY <1>1, <1>3, <2>2, <2>3 DEF Covering
  <2> QED
    BY <2>1, <2>4
<1> QED
  BY <1>1, <1>4, <1>5, <1>6

\* The stretches drawn are the minutes in eclipse; of the last one, which is the
\* end of the axis, nothing is said.
LEMMA SpansAreEclipses ==
  ASSUME NEW dark, Len(dark) \in Nat, NEW k \in 1..Len(dark) - 1
  PROVE  dark[k] <=> \E s \in EclipseSpans(dark) : s[1] <= k /\ k < s[2]
<1> DEFINE n == Len(dark)
           scan == Shading(dark, n)
           T == {i \in Nat : i <= n => Covering(dark, i, scan[i])}
<1>1. n \in Nat /\ k \in 1..n - 1
  OBVIOUS
<1>2. /\ scan[0] = [open |-> FALSE, from |-> 0, spans |-> {}]
      /\ \A i \in 1..n : scan[i] = Shaded(dark, i, scan[i - 1])
  BY <1>1, ShadingUnfold
<1>3. EclipseSpans(dark) = scan[n].spans \cup (IF scan[n].open THEN {<<scan[n].from, n>>} ELSE {})
  BY DEF EclipseSpans
<1> HIDE DEF scan, n
<1>4. 0 \in T
  <2> DEFINE s == scan[0]
  <2>1. /\ DOMAIN s = {"open", "from", "spans"}
        /\ s.open = FALSE /\ s.from = 0 /\ s.spans = {}
    BY <1>2
  <2> HIDE DEF s
  <2>2. s.open \in BOOLEAN /\ ~s.open
    BY <2>1
  <2>4. \A i \in 1..0 : FALSE
    OBVIOUS
  <2>3. Covering(dark, 0, s)
    BY <2>1, <2>2, <2>4, Zenon DEF Covering
  <2> QED
    BY <2>3 DEF s
<1>5. ASSUME NEW i \in Nat, i \in T PROVE i + 1 \in T
  <2> SUFFICES ASSUME i + 1 <= n PROVE Covering(dark, i + 1, scan[i + 1])
    OBVIOUS
  <2>1. i + 1 \in 1..n /\ i <= n /\ (i + 1) - 1 = i
    BY <1>1
  <2>2. Covering(dark, i, scan[i]) /\ scan[i + 1] = Shaded(dark, i + 1, scan[i])
    BY <1>2, <1>5, <2>1
  <2> QED
    BY <2>2, ShadedCovers
<1>6. Nat \subseteq T
  <2> HIDE DEF T
  <2> QED
    BY <1>4, <1>5, ByCounting
<1> DEFINE s == scan[n]  last == <<s.from, n>>
<1>7. Covering(dark, n, s)
  BY <1>1, <1>6
<1> HIDE DEF s
<1>8. last[1] = s.from /\ last[2] = n
  OBVIOUS
<1> HIDE DEF last
<1>9. EclipseSpans(dark) = s.spans \cup (IF s.open THEN {last} ELSE {})
  BY <1>3 DEF s, last
<1>10. (\E p \in EclipseSpans(dark) : p[1] <= k /\ k < p[2])
         <=> (\E p \in s.spans : p[1] <= k /\ k < p[2]) \/ (s.open /\ s.from <= k)
  <2>1. k < n
    BY <1>1
  <2> QED
    BY <1>8, <1>9, <2>1
<1>11. k \in 1..n
  BY <1>1
<1> QED
  BY <1>7, <1>10, <1>11 DEF Covering

=============================================================================
