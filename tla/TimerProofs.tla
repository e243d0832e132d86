----------------------------- MODULE TimerProofs -----------------------------
(***************************************************************************)
(* The timer wheel executes every timer at its tick, for any number of     *)
(* wheels, of slots and of timers, and agents do not stop ticking.         *)
(***************************************************************************)
EXTENDS TimerWheel, NodeListsProofs

-----------------------------------------------------------------------------
(* Quotients and remainders.                                               *)

LEMMA DivMod ==
  ASSUME NEW a \in Nat, NEW n \in Nat \ {0}
  PROVE  a \div n \in Nat /\ a % n \in 0..(n - 1) /\ a = n * (a \div n) + (a % n)
OBVIOUS

LEMMA Times ==
  ASSUME NEW p \in Nat, NEW q \in Nat, NEW n \in Nat \ {0}, p < q
  PROVE  n * p \in Nat /\ n * q \in Nat /\ n * p + n <= n * q
OBVIOUS

\* There is one quotient.
LEMMA DivUnique ==
  ASSUME NEW a \in Nat, NEW n \in Nat \ {0}, NEW q \in Nat, NEW r \in 0..(n - 1), a = n * q + r
  PROVE  a \div n = q /\ a % n = r
<1> DEFINE p == a \div n
           s == a % n
<1>1. p \in Nat /\ s \in 0..(n - 1) /\ a = n * p + s
  BY DivMod
<1> HIDE DEF p, s
<1>2. ~(p < q) /\ ~(q < p)
  BY <1>1, Times
<1>3. p = q
  BY <1>1, <1>2
<1>4. s = r
  BY <1>1, <1>3
<1> QED BY <1>3, <1>4 DEF p, s

LEMMA DivMonotone ==
  ASSUME NEW a \in Nat, NEW b \in Nat, NEW n \in Nat \ {0}, a <= b
  PROVE  a \div n <= b \div n
<1> DEFINE p == a \div n
           q == b \div n
           s == a % n
           r == b % n
<1>1. p \in Nat /\ q \in Nat /\ s \in 0..(n - 1) /\ r \in 0..(n - 1) /\ a = n * p + s /\ b = n * q + r
  BY DivMod
<1> HIDE DEF p, q, s, r
<1>2. ~(q < p)
  BY <1>1, Times
<1> QED BY <1>1, <1>2 DEF p, q

\* The quotient goes up by one when the remainder comes round.
LEMMA DivNext ==
  ASSUME NEW a \in Nat, NEW n \in Nat \ {0}
  PROVE  (a + 1) \div n = IF (a + 1) % n = 0 THEN (a \div n) + 1 ELSE a \div n
<1> DEFINE p == a \div n
           s == a % n
<1>1. p \in Nat /\ s \in 0..(n - 1) /\ a = n * p + s
  BY DivMod
<1> HIDE DEF p, s
<1>2. CASE s = n - 1
  <2>1. n * (p + 1) = n * p + n
    BY <1>1
  <2>2. a + 1 = n * (p + 1) + 0 /\ 0 \in 0..(n - 1) /\ p + 1 \in Nat /\ a + 1 \in Nat
    BY <1>1, <1>2, <2>1
  <2>3. (a + 1) \div n = p + 1 /\ (a + 1) % n = 0
    BY <2>2, DivUnique
  <2> QED BY <2>3 DEF p
<1>3. CASE s < n - 1
  <2>1. a + 1 = n * p + (s + 1) /\ s + 1 \in 0..(n - 1) /\ a + 1 \in Nat
    BY <1>1, <1>3
  <2>2. (a + 1) \div n = p /\ (a + 1) % n = s + 1
    BY <1>1, <2>1, DivUnique
  <2>3. s + 1 # 0
    BY <1>1
  <2> QED BY <2>2, <2>3 DEF p
<1> QED BY <1>1, <1>2, <1>3

\* A sum shifted is what the shifted number and the rest with the remainder come to.
LEMMA DivShift ==
  ASSUME NEW a \in Nat, NEW d \in Nat, NEW n \in Nat \ {0}
  PROVE  (a + d) \div n = (a \div n) + ((d + (a % n)) \div n)
<1> DEFINE p == a \div n
           s == a % n
           q == (d + s) \div n
           r == (d + s) % n
<1>1. p \in Nat /\ s \in 0..(n - 1) /\ a = n * p + s
  BY DivMod
<1>2. q \in Nat /\ r \in 0..(n - 1) /\ d + s = n * q + r
  <2>1. d + s \in Nat
    BY <1>1
  <2> QED BY <2>1, DivMod
<1> HIDE DEF p, s, q, r
<1>3. n * (p + q) = n * p + n * q
  BY <1>1, <1>2
<1>4. a + d = n * (p + q) + r /\ a + d \in Nat /\ p + q \in Nat
  BY <1>1, <1>2, <1>3
<1>5. \A x \in Nat, y \in Nat : x = n * y + r => x \div n = y
  BY <1>2, DivUnique
<1> QED BY <1>4, <1>5 DEF p, q, s

\* Two numbers less than n apart have different remainders.
LEMMA ModSame ==
  ASSUME NEW a \in Nat, NEW b \in Nat, NEW n \in Nat \ {0}, a <= b, b < a + n, a % n = b % n
  PROVE  a = b
<1> DEFINE p == a \div n
           q == b \div n
           s == a % n
<1>1. p \in Nat /\ q \in Nat /\ s \in 0..(n - 1) /\ a = n * p + s /\ b = n * q + s
  BY DivMod
<1> HIDE DEF p, q, s
<1>2. ~(p < q) /\ ~(q < p)
  BY <1>1, Times
<1>3. p = q
  BY <1>1, <1>2
<1> QED BY <1>1, <1>3

LEMMA DivBetween ==
  ASSUME NEW d \in Nat, NEW n \in Nat \ {0}, NEW r \in 0..(n - 1), NEW m \in Nat
  PROVE  /\ d <= n * m => (d + r) \div n <= m
         /\ d >= n => (d + r) \div n >= 1
<1> DEFINE q == (d + r) \div n
           s == (d + r) % n
<1>1. q \in Nat /\ s \in 0..(n - 1) /\ d + r = n * q + s
  <2>1. d + r \in Nat
    OBVIOUS
  <2> QED BY <2>1, DivMod
<1> HIDE DEF q, s
<1>2. d <= n * m => ~(m < q)
  BY <1>1, Times
<1>3. d >= n => q # 0
  BY <1>1
<1> QED BY <1>1, <1>2, <1>3 DEF q

-----------------------------------------------------------------------------
(* Wheels.                                                                 *)

LEMMA WheelFacts ==
  /\ NumSlots \in Nat \ {0} /\ NumSlots >= 2 /\ MaxLevel \in Level /\ 0 \in Level /\ Level \subseteq Nat
  /\ \A l \in Level : l # 0 => l - 1 \in Level
  /\ \A l \in Level : l < MaxLevel => l + 1 \in Level
  /\ \A l \in Level, k \in Nat : k <= l => k \in Level
  /\ \A l \in Level : l <= MaxLevel
BY WheelAssumption DEF Level

\* Induction upwards,
LEMMA Upwards ==
  ASSUME NEW P, 0 \in P, \A l \in Level : l < MaxLevel /\ l \in P => l + 1 \in P
  PROVE  Level \subseteq P
<1> SUFFICES ASSUME Level \ P # {} PROVE FALSE
  OBVIOUS
<1>1. PICK m \in Level \ P : \A k \in Level \ P : m <= k
  <2>1. Level \ P \subseteq Nat
    BY WheelFacts
  <2> QED BY <2>1, LeastNat
<1>2. m # 0 /\ m - 1 \in Level /\ m - 1 < MaxLevel /\ m \in Nat
  BY <1>1, WheelFacts
<1>3. m - 1 \in P
  BY <1>1, <1>2
<1>4. (m - 1) + 1 \in P
  BY <1>2, <1>3
<1> QED BY <1>1, <1>2, <1>4

\* and downwards from a wheel.
LEMMA Downwards ==
  ASSUME NEW P, NEW l \in Level, l \in P, \A k \in Level : k < l /\ k + 1 \in P => k \in P
  PROVE  0 \in P
<1> DEFINE T == {k \in Level : k <= l /\ k \in P}
<1>1. PICK m \in T : \A k \in T : m <= k
  <2>1. T \subseteq Nat /\ l \in T
    <3>1. l \in Nat /\ l <= l
      BY WheelFacts
    <3> QED BY <3>1, WheelFacts
  <2> HIDE DEF T
  <2> QED BY <2>1, LeastNat
<1>2. CASE m = 0
  BY <1>1, <1>2
<1>3. CASE m # 0
  <2>1. m - 1 \in Level /\ m - 1 < l /\ (m - 1) + 1 = m /\ m \in Nat /\ m - 1 <= l
    BY <1>1, <1>3, WheelFacts
  <2>2. m - 1 \in P
    BY <1>1, <2>1
  <2> QED BY <1>1, <2>1, <2>2
<1> QED BY <1>2, <1>3

\* A recursion over the wheels has a solution.
Solves(f, a, h, m) ==
  /\ f \in [0..m -> Nat] /\ f[0] = a
  /\ \A l \in 0..m : l < m => f[l + 1] = h[<<l, f[l]>>]

LEMMA Recursion ==
  ASSUME NEW a \in Nat, NEW h \in [Level \X Nat -> Nat]
  PROVE  \E f : Solves(f, a, h, MaxLevel)
<1> DEFINE P == {m \in Level : \E f : Solves(f, a, h, m)}
<1>1. 0 \in P
  <2>1. Solves([l \in 0..0 |-> a], a, h, 0)
    BY DEF Solves
  <2> QED BY <2>1, WheelFacts
<1>2. ASSUME NEW m \in Level, m < MaxLevel, m \in P PROVE m + 1 \in P
  <2>1. PICK f : Solves(f, a, h, m)
    BY <1>2
  <2> DEFINE g == [l \in 0..(m + 1) |-> IF l <= m THEN f[l] ELSE h[<<m, f[m]>>]]
  <2>2. m \in Nat /\ m + 1 \in Level /\ f[m] \in Nat /\ h[<<m, f[m]>>] \in Nat
    <3>1. m \in Nat /\ m + 1 \in Level
      BY <1>2, WheelFacts
    <3>2. f[m] \in Nat
      BY <2>1, <3>1 DEF Solves
    <3> QED BY <3>1, <3>2
  <2>3. g \in [0..(m + 1) -> Nat] /\ g[0] = a
    BY <2>1, <2>2 DEF Solves
  <2>4. ASSUME NEW l \in 0..(m + 1), l < m + 1 PROVE g[l + 1] = h[<<l, g[l]>>]
    <3>1. CASE l = m
      BY <2>2, <3>1
    <3>2. CASE l < m
      <4>1. f[l + 1] = h[<<l, f[l]>>]
        BY <2>1, <2>2, <3>2 DEF Solves
      <4>2. l + 1 \in 0..(m + 1) /\ l + 1 <= m /\ l <= m
        BY <2>2, <3>2
      <4>3. g[l + 1] = f[l + 1] /\ g[l] = f[l]
        BY <4>2
      <4> QED BY <4>1, <4>3
    <3> QED BY <2>2, <2>4, <3>1, <3>2
  <2> HIDE DEF g
  <2>5. Solves(g, a, h, m + 1)
    BY <2>2, <2>3, <2>4 DEF Solves
  <2> QED BY <2>2, <2>5
<1> HIDE DEF P
<1>3. MaxLevel \in P
  BY <1>1, <1>2, Upwards, WheelFacts
<1> QED BY <1>3 DEF P

\* Each wheel is read off the one below.
Counts(f) ==
  /\ f \in [Level -> Nat]
  /\ \A l \in Level : l < MaxLevel => f[l + 1] = f[l] \div NumSlots

LEMMA SlotsOfCounts ==
  ASSUME NEW tick \in Nat
  PROVE  Counts(SlotsOf(tick)) /\ SlotsOf(tick)[0] = tick
<1> DEFINE h == [p \in Level \X Nat |-> p[2] \div NumSlots]
           step(f) == [l \in Level |-> IF l = 0 THEN tick ELSE f[l - 1] \div NumSlots]
<1>1. h \in [Level \X Nat -> Nat]
  BY DivMod, WheelFacts
<1>2. PICK f : Solves(f, tick, h, MaxLevel)
  <2> HIDE DEF h
  <2> QED BY <1>1, Recursion
<1>3. f = step(f)
  <2>1. f \in [Level -> Nat] /\ f[0] = tick
    BY <1>2 DEF Solves, Level
  <2>2. ASSUME NEW l \in Level, l # 0 PROVE f[l] = f[l - 1] \div NumSlots
    <3>1. l - 1 \in Level /\ l - 1 < MaxLevel /\ (l - 1) + 1 = l /\ f[l - 1] \in Nat
      BY <2>1, <2>2, WheelFacts
    <3>2. f[l] = h[<<l - 1, f[l - 1]>>]
      BY <1>2, <3>1 DEF Solves, Level
    <3> QED BY <3>1, <3>2
  <2> HIDE DEF h
  <2> QED BY <2>1, <2>2
<1> DEFINE g == SlotsOf(tick)
<1>4. g = step(g)
  <2> HIDE DEF h
  <2> QED BY <1>3, Zenon DEF SlotsOf
<1>5. g \in [Level -> Nat]
  <2> DEFINE P == {l \in Level : g[l] \in Nat}
  <2> HIDE DEF g
  <2>1. 0 \in P
    BY <1>4, WheelFacts
  <2>2. ASSUME NEW l \in Level, l < MaxLevel, l \in P PROVE l + 1 \in P
    <3>1. l + 1 \in Level /\ l + 1 # 0 /\ (l + 1) - 1 = l /\ g[l] \in Nat
      BY <2>2, WheelFacts
    <3>2. g[l + 1] = g[l] \div NumSlots
      BY <1>4, <3>1
    <3> QED BY <3>1, <3>2, DivMod, WheelFacts
  <2>3. \A l \in Level : l \in P
    <3> HIDE DEF P
    <3> QED BY <2>1, <2>2, Upwards
  <2> QED BY <1>4, <2>3
<1>6. ASSUME NEW l \in Level, l < MaxLevel PROVE g[l + 1] = g[l] \div NumSlots
  <2>1. l + 1 \in Level /\ l + 1 # 0 /\ (l + 1) - 1 = l
    BY <1>6, WheelFacts
  <2> HIDE DEF g
  <2> QED BY <1>4, <2>1
<1> QED BY <1>4, <1>5, <1>6, WheelFacts DEF Counts

\* The same for the distances that schedule goes through,
LEMMA DistanceSteps ==
  ASSUME now \in [Level -> Nat], NEW delta \in Nat
  PROVE  /\ Distance(delta) \in [Level -> Nat] /\ Distance(delta)[0] = delta
         /\ \A l \in Level : l < MaxLevel =>
              Distance(delta)[l + 1] = (Distance(delta)[l] + (now[l] % NumSlots)) \div NumSlots
<1> DEFINE h == [p \in Level \X Nat |-> (p[2] + (now[p[1]] % NumSlots)) \div NumSlots]
           step(f) == [l \in Level |-> IF l = 0 THEN delta
                                       ELSE (f[l - 1] + (now[l - 1] % NumSlots)) \div NumSlots]
<1>1. \A l \in Level, d \in Nat : /\ d + (now[l] % NumSlots) \in Nat
                                  /\ (d + (now[l] % NumSlots)) \div NumSlots \in Nat
  <2> SUFFICES ASSUME NEW l \in Level, NEW d \in Nat
               PROVE  d + (now[l] % NumSlots) \in Nat /\ (d + (now[l] % NumSlots)) \div NumSlots \in Nat
    OBVIOUS
  <2>1. now[l] % NumSlots \in Nat
    BY DivMod, WheelFacts
  <2>2. d + (now[l] % NumSlots) \in Nat
    BY <2>1
  <2> QED BY <2>2, DivMod, WheelFacts
<1>2. PICK f : Solves(f, delta, h, MaxLevel)
  <2>1. h \in [Level \X Nat -> Nat]
    BY <1>1
  <2> HIDE DEF h
  <2> QED BY <2>1, Recursion
<1>3. f = step(f)
  <2>1. f \in [Level -> Nat] /\ f[0] = delta
    BY <1>2 DEF Solves, Level
  <2>2. ASSUME NEW l \in Level, l # 0
        PROVE  f[l] = (f[l - 1] + (now[l - 1] % NumSlots)) \div NumSlots
    <3>1. l - 1 \in Level /\ l - 1 < MaxLevel /\ (l - 1) + 1 = l /\ f[l - 1] \in Nat
      BY <2>1, <2>2, WheelFacts
    <3>2. f[l] = h[<<l - 1, f[l - 1]>>]
      BY <1>2, <3>1 DEF Solves, Level
    <3> QED BY <3>1, <3>2
  <2> HIDE DEF h
  <2> QED BY <2>1, <2>2
<1> DEFINE g == Distance(delta)
<1>4. g = step(g)
  <2> HIDE DEF h
  <2> QED BY <1>3, Zenon DEF Distance
<1>5. g \in [Level -> Nat]
  <2> DEFINE P == {l \in Level : g[l] \in Nat}
  <2> HIDE DEF g
  <2>1. 0 \in P
    BY <1>4, WheelFacts
  <2>2. ASSUME NEW l \in Level, l < MaxLevel, l \in P PROVE l + 1 \in P
    <3>1. l + 1 \in Level /\ l + 1 # 0 /\ (l + 1) - 1 = l /\ g[l] \in Nat
      BY <2>2, WheelFacts
    <3>2. g[l + 1] = (g[l] + (now[l] % NumSlots)) \div NumSlots
      BY <1>4, <3>1
    <3> QED BY <1>1, <3>1, <3>2
  <2>3. \A l \in Level : l \in P
    <3> HIDE DEF P
    <3> QED BY <2>1, <2>2, Upwards
  <2> QED BY <1>4, <2>3
<1>6. ASSUME NEW l \in Level, l < MaxLevel
      PROVE  g[l + 1] = (g[l] + (now[l] % NumSlots)) \div NumSlots
  <2>1. l + 1 \in Level /\ l + 1 # 0 /\ (l + 1) - 1 = l
    BY <1>6, WheelFacts
  <2> HIDE DEF g
  <2> QED BY <1>4, <2>1
<1> QED BY <1>4, <1>5, <1>6, WheelFacts

\* and for what the wheels cover.
LEMMA ReachSteps ==
  /\ Reach \in [Level -> Nat] /\ Reach[MaxLevel] = NumSlots - 1
  /\ \A l \in Level : l < MaxLevel => Reach[l] = NumSlots * Reach[l + 1]
<1> DEFINE h == [p \in Level \X Nat |-> NumSlots * p[2]]
           step(f) == [l \in Level |-> IF l = MaxLevel THEN NumSlots - 1 ELSE NumSlots * f[l + 1]]
<1>1. h \in [Level \X Nat -> Nat]
  BY WheelFacts
<1>2. PICK f : Solves(f, NumSlots - 1, h, MaxLevel)
  <2>1. NumSlots - 1 \in Nat
    BY WheelFacts
  <2> HIDE DEF h
  <2> QED BY <1>1, <2>1, Recursion
<1> DEFINE r == [l \in Level |-> f[MaxLevel - l]]
<1>3. r = step(r)
  <2>1. f \in [Level -> Nat] /\ f[0] = NumSlots - 1
    BY <1>2 DEF Solves, Level
  <2>2. r[MaxLevel] = NumSlots - 1
    BY <2>1, WheelFacts
  <2>3. ASSUME NEW l \in Level, l # MaxLevel PROVE r[l] = NumSlots * r[l + 1]
    <3>1. /\ l + 1 \in Level /\ MaxLevel - l \in Level /\ MaxLevel - (l + 1) \in Level
          /\ MaxLevel - (l + 1) < MaxLevel /\ (MaxLevel - (l + 1)) + 1 = MaxLevel - l
      BY <2>3, WheelFacts DEF Level
    <3> DEFINE k == MaxLevel - (l + 1)
    <3>2. k \in Level /\ k < MaxLevel /\ k + 1 = MaxLevel - l /\ f[k] \in Nat
      BY <2>1, <3>1
    <3> HIDE DEF k
    <3>3. f[k + 1] = h[<<k, f[k]>>]
      BY <1>2, <3>2 DEF Solves, Level
    <3>4. f[k + 1] = NumSlots * f[k]
      BY <3>2, <3>3
    <3> QED BY <3>1, <3>2, <3>4 DEF k
  <2> HIDE DEF h
  <2> QED BY <2>2, <2>3
<1>4. Reach = step(Reach)
  <2> HIDE DEF h, r
  <2> QED BY <1>3, Zenon DEF Reach
<1>5. ASSUME NEW l \in Level PROVE Reach[l] \in Nat
  <2> DEFINE P == {k \in Nat : MaxLevel - k \in Level => Reach[MaxLevel - k] \in Nat}
             Q == {k \in Level : k \in P}
  <2>1. 0 \in Q
    BY <1>4, WheelFacts
  <2>2. ASSUME NEW k \in Level, k < MaxLevel, k \in Q PROVE k + 1 \in Q
    <3>1. /\ k + 1 \in Level /\ MaxLevel - k \in Level /\ MaxLevel - (k + 1) \in Level /\ k + 1 \in Nat
          /\ MaxLevel - (k + 1) # MaxLevel /\ (MaxLevel - (k + 1)) + 1 = MaxLevel - k
      BY <2>2, WheelFacts DEF Level
    <3>2. Reach[MaxLevel - k] \in Nat
      BY <2>2, <3>1
    <3>3. Reach[MaxLevel - (k + 1)] = NumSlots * Reach[MaxLevel - k]
      BY <1>4, <3>1
    <3>4. Reach[MaxLevel - (k + 1)] \in Nat
      BY <3>2, <3>3, WheelFacts
    <3> QED BY <3>1, <3>4
  <2>3. \A k \in Level : k \in Q
    <3> HIDE DEF Q
    <3> QED BY <2>1, <2>2, Upwards
  <2>4. MaxLevel - l \in Level /\ MaxLevel - (MaxLevel - l) = l
    BY WheelFacts DEF Level
  <2> QED BY <2>3, <2>4
<1>6. ASSUME NEW l \in Level, l < MaxLevel PROVE Reach[l] = NumSlots * Reach[l + 1]
  <2>1. l # MaxLevel
    BY <1>6, WheelFacts
  <2> QED BY <1>4, <2>1
<1> QED BY <1>4, <1>5, <1>6, WheelFacts

\* A later tick is not in an earlier slot of any wheel.
LEMMA CountsMonotone ==
  ASSUME NEW f, NEW g, Counts(f), Counts(g), f[0] <= g[0]
  PROVE  \A l \in Level : f[l] <= g[l]
<1> DEFINE P == {l \in Level : f[l] <= g[l]}
<1>1. 0 \in P
  BY WheelFacts
<1>2. ASSUME NEW l \in Level, l < MaxLevel, l \in P PROVE l + 1 \in P
  <2>1. f[l] \in Nat /\ g[l] \in Nat /\ f[l] <= g[l] /\ l + 1 \in Level
    BY <1>2, WheelFacts DEF Counts
  <2>2. f[l] \div NumSlots <= g[l] \div NumSlots
    BY <2>1, DivMonotone, WheelFacts
  <2>3. f[l + 1] = f[l] \div NumSlots /\ g[l + 1] = g[l] \div NumSlots
    BY <1>2 DEF Counts
  <2> QED BY <2>1, <2>2, <2>3
<1>3. \A l \in Level : l \in P
  <2> HIDE DEF P
  <2> QED BY <1>1, <1>2, Upwards
<1> QED BY <1>3

\* If the wheels below l have just come round, what is in the slot that wheel l has come
\* to, or in a later one, is not in the past.
LEMMA CountsAligned ==
  ASSUME NEW f, NEW g, Counts(f), Counts(g), NEW l \in Level, f[l] <= g[l],
         \A k \in Level : k < l => f[k] % NumSlots = 0
  PROVE  f[0] <= g[0]
<1> DEFINE P == {k \in Level : f[k] <= g[k]}
<1>1. ASSUME NEW k \in Level, k < l, k + 1 \in P PROVE k \in P
  <2>1. k < MaxLevel /\ f[k + 1] <= g[k + 1] /\ f[k] \in Nat /\ g[k] \in Nat
    BY <1>1, WheelFacts DEF Counts
  <2>2. f[k + 1] = f[k] \div NumSlots /\ g[k + 1] = g[k] \div NumSlots
    BY <2>1 DEF Counts
  <2> DEFINE p == f[k] \div NumSlots
             q == g[k] \div NumSlots
             r == f[k] % NumSlots
             s == g[k] % NumSlots
  <2>3. /\ NumSlots \in Nat \ {0}
        /\ p \in Nat /\ r \in 0..(NumSlots - 1) /\ f[k] = NumSlots * p + r
    BY <2>1, DivMod, WheelFacts
  <2>4. q \in Nat /\ s \in 0..(NumSlots - 1) /\ g[k] = NumSlots * q + s
    BY <2>1, DivMod, WheelFacts
  <2>5. r = 0 /\ p <= q
    BY <1>1, <2>1, <2>2
  <2> HIDE DEF p, q, r, s
  <2>6. CASE p < q
    <3>1. NumSlots * p \in Nat /\ NumSlots * q \in Nat /\ NumSlots * p + NumSlots <= NumSlots * q
      BY <2>3, <2>4, <2>6, Times
    <3>2. f[k] = NumSlots * p + 0 /\ s \in Nat
      BY <2>3, <2>4, <2>5
    <3>3. f[k] <= g[k]
      BY <2>1, <2>3, <2>4, <3>1, <3>2
    <3> QED BY <1>1, <3>3
  <2>7. CASE p = q
    <3>1. NumSlots * q \in Nat
      BY <2>3, <2>4
    <3>2. f[k] = NumSlots * q + 0 /\ s \in Nat
      BY <2>3, <2>4, <2>5, <2>7
    <3>3. f[k] <= g[k]
      BY <2>1, <2>4, <3>1, <3>2
    <3> QED BY <1>1, <3>3
  <2> QED BY <2>3, <2>4, <2>5, <2>6, <2>7
<1>2. 0 \in P
  <2>1. l \in P
    OBVIOUS
  <2> HIDE DEF P
  <2> QED BY <1>1, <2>1, Downwards
<1> QED BY <1>2

-----------------------------------------------------------------------------
(* Where schedule puts a timer.                                            *)

\* What schedule needs to be right: wheels that have turned together.
Turned ==
  /\ now \in [Level -> Nat]
  /\ \A l \in Level : l < MaxLevel => now[l + 1] = now[l] \div NumSlots

\* The loop ends, at a wheel on which the event is ahead, in the slot for its tick.
LEMMA Placement ==
  ASSUME Turned, NEW delta \in 1..Reach[0]
  PROVE  LET d == Distance(delta)
             l == FirstFit(d)
         IN  /\ l \in Level /\ d[l] \in 1..(NumSlots - 1)
             /\ now[l] + d[l] = SlotsOf(now[0] + delta)[l]
<1> DEFINE d == Distance(delta)
           at == SlotsOf(now[0] + delta)
<1>1. /\ now \in [Level -> Nat] /\ now[0] \in Nat /\ delta \in Nat
      /\ \A l \in Level : l < MaxLevel => now[l + 1] = now[l] \div NumSlots
  BY ReachSteps, WheelFacts DEF Turned
<1>2. /\ d \in [Level -> Nat] /\ d[0] = delta
      /\ \A l \in Level : l < MaxLevel => d[l + 1] = (d[l] + (now[l] % NumSlots)) \div NumSlots
  BY <1>1, DistanceSteps
<1>3. /\ at \in [Level -> Nat] /\ at[0] = now[0] + delta
      /\ \A l \in Level : l < MaxLevel => at[l + 1] = at[l] \div NumSlots
  <2>1. now[0] + delta \in Nat
    BY <1>1
  <2> QED BY <2>1, SlotsOfCounts DEF Counts
<1> HIDE DEF d, at
<1>4. \A l \in Level : now[l] + d[l] = at[l]
  <2> DEFINE P == {l \in Level : now[l] + d[l] = at[l]}
  <2>1. 0 \in P
    BY <1>2, <1>3, WheelFacts
  <2>2. ASSUME NEW l \in Level, l < MaxLevel, l \in P PROVE l + 1 \in P
    <3>1. now[l] \in Nat /\ d[l] \in Nat /\ now[l] + d[l] = at[l] /\ l + 1 \in Level
      BY <1>1, <1>2, <2>2, WheelFacts
    <3>2. (now[l] + d[l]) \div NumSlots
            = (now[l] \div NumSlots) + ((d[l] + (now[l] % NumSlots)) \div NumSlots)
      BY <3>1, DivShift, WheelFacts
    <3>3. at[l + 1] = now[l + 1] + d[l + 1]
      BY <1>1, <1>2, <1>3, <2>2, <3>1, <3>2
    <3> QED BY <3>1, <3>3
  <2>3. \A l \in Level : l \in P
    <3> HIDE DEF P
    <3> QED BY <2>1, <2>2, Upwards
  <2> QED BY <2>3
<1>5. ASSUME NEW l \in Level, l < MaxLevel
      PROVE  /\ d[l] <= Reach[l] => d[l + 1] <= Reach[l + 1]
             /\ d[l] >= NumSlots => d[l + 1] >= 1
  <2>1. d[l] \in Nat /\ now[l] % NumSlots \in 0..(NumSlots - 1) /\ l + 1 \in Level
    BY <1>1, <1>2, <1>5, DivMod, WheelFacts
  <2>2. Reach[l + 1] \in Nat /\ Reach[l] = NumSlots * Reach[l + 1]
    BY <1>5, <2>1, ReachSteps
  <2>3. d[l + 1] = (d[l] + (now[l] % NumSlots)) \div NumSlots
    BY <1>2, <1>5
  <2>4. /\ d[l] <= NumSlots * Reach[l + 1] => (d[l] + (now[l] % NumSlots)) \div NumSlots <= Reach[l + 1]
        /\ d[l] >= NumSlots => (d[l] + (now[l] % NumSlots)) \div NumSlots >= 1
    BY <2>1, <2>2, DivBetween, WheelFacts
  <2> QED BY <2>2, <2>3, <2>4
<1>6. d[MaxLevel] < NumSlots
  <2> DEFINE P == {l \in Level : d[l] <= Reach[l]}
  <2>1. 0 \in P
    BY <1>1, <1>2, WheelFacts
  <2>2. ASSUME NEW l \in Level, l < MaxLevel, l \in P PROVE l + 1 \in P
    BY <1>5, <2>2, WheelFacts
  <2>3. \A l \in Level : l \in P
    <3> HIDE DEF P
    <3> QED BY <2>1, <2>2, Upwards
  <2>4. d[MaxLevel] <= NumSlots - 1 /\ d[MaxLevel] \in Nat
    BY <1>2, <2>3, WheelFacts, ReachSteps
  <2> QED BY <2>4, WheelFacts
<1>7. PICK m \in Level : d[m] < NumSlots /\ \A k \in Level : k < m => d[k] >= NumSlots
  <2> DEFINE T == {l \in Level : d[l] < NumSlots}
  <2>1. T \subseteq Nat /\ T # {}
    BY <1>6, WheelFacts
  <2>2. PICK m \in T : \A k \in T : m <= k
    <3> HIDE DEF T
    <3> QED BY <2>1, LeastNat
  <2>3. \A k \in Level : k < m => d[k] >= NumSlots
    BY <1>2, <2>2, WheelFacts
  <2> QED BY <2>2, <2>3
<1> DEFINE l == FirstFit(d)
<1>8. l \in Level /\ d[l] < NumSlots /\ \A k \in Level : k < l => d[k] >= NumSlots
  BY <1>7 DEF FirstFit
<1> HIDE DEF l
<1>9. d[l] >= 1
  <2>1. CASE l = 0
    BY <1>1, <1>2, <2>1
  <2>2. CASE l # 0
    <3>1. l - 1 \in Level /\ l - 1 < l /\ l - 1 < MaxLevel /\ (l - 1) + 1 = l
      BY <1>8, <2>2, WheelFacts
    <3>2. d[l - 1] >= NumSlots
      BY <1>8, <3>1
    <3> QED BY <1>5, <3>1, <3>2
  <2> QED BY <2>1, <2>2
<1>10. l \in Level /\ d[l] \in 1..(NumSlots - 1) /\ now[l] + d[l] = at[l]
  BY <1>2, <1>4, <1>8, <1>9, WheelFacts
<1> QED BY <1>10 DEF d, at, l

-----------------------------------------------------------------------------
(* Timers in slots.                                                        *)

\* Slots that hold every timer at most once.
Tidy(s) ==
  /\ s \in [Level -> [SlotIndex -> Seq(Timer)]]
  /\ \A l \in Level, i \in SlotIndex : NoRepeats(s[l][i])
  /\ \A l, k \in Level : \A i, j \in SlotIndex :
       Elements(s[l][i]) \cap Elements(s[k][j]) # {} => l = k /\ i = j

ActiveIn(s, t) == \E l \in Level : \E i \in SlotIndex : t \in Elements(s[l][i])
Placed(s) == \A l \in Level, i \in SlotIndex : \A t \in Elements(s[l][i]) : InItsSlot(t, l, i)

\* r is s with t in the slots X, and in no others.
Moves(s, r, t, X) ==
  /\ r \in [Level -> [SlotIndex -> Seq(Timer)]]
  /\ \A l \in Level, i \in SlotIndex :
       /\ NoRepeats(r[l][i])
       /\ Elements(r[l][i]) = (Elements(s[l][i]) \ {t}) \cup (IF <<l, i>> \in X THEN {t} ELSE {})

LEMMA MovesTidy ==
  ASSUME NEW s, NEW r, NEW t, NEW X, Tidy(s), Moves(s, r, t, X), \A p, q \in X : p = q
  PROVE  Tidy(r)
<1>1. ASSUME NEW l \in Level, NEW k \in Level, NEW i \in SlotIndex, NEW j \in SlotIndex,
             NEW u \in Elements(r[l][i]), u \in Elements(r[k][j])
      PROVE  l = k /\ i = j
  <2>1. CASE u = t
    <3>1. \A m \in Level, n \in SlotIndex : t \in Elements(r[m][n]) => <<m, n>> \in X
      <4> SUFFICES ASSUME NEW m \in Level, NEW n \in SlotIndex, <<m, n>> \notin X
                   PROVE  t \notin Elements(r[m][n])
        OBVIOUS
      <4>1. Elements(r[m][n]) = (Elements(s[m][n]) \ {t}) \cup {}
        BY DEF Moves
      <4> QED BY <4>1
    <3>2. <<l, i>> \in X /\ <<k, j>> \in X
      BY <1>1, <2>1, <3>1
    <3>3. <<l, i>> = <<k, j>>
      BY <3>2
    <3> QED BY <3>3
  <2>2. CASE u # t
    <3>1. u \in Elements(s[l][i]) /\ u \in Elements(s[k][j])
      BY <1>1, <2>2 DEF Moves
    <3>2. Elements(s[l][i]) \cap Elements(s[k][j]) # {}
      BY <3>1
    <3> QED BY <3>2 DEF Tidy
  <2> QED BY <2>1, <2>2
<1>2. \A l, k \in Level : \A i, j \in SlotIndex :
        Elements(r[l][i]) \cap Elements(r[k][j]) # {} => l = k /\ i = j
  BY <1>1
<1> QED BY <1>2 DEF Tidy, Moves

\* Cancelling takes the timer out.
LEMMA CancelledMoves ==
  ASSUME NEW s, Tidy(s), NEW t
  PROVE  Moves(s, Cancelled(s, t), t, {})
<1> SUFFICES ASSUME NEW l \in Level, NEW i \in SlotIndex
             PROVE  /\ Cancelled(s, t)[l][i] = Without(s[l][i], {t})
                    /\ Without(s[l][i], {t}) \in Seq(Timer) /\ NoRepeats(Without(s[l][i], {t}))
                    /\ Elements(Without(s[l][i], {t})) = Elements(s[l][i]) \ {t}
  BY DEF Moves, Cancelled
<1>1. s[l][i] \in Seq(Timer) /\ NoRepeats(s[l][i])
  BY DEF Tidy
<1>2. Without(s[l][i], {t}) \in Seq(Timer)
  BY <1>1, WithoutType
<1>3. Elements(Without(s[l][i], {t})) = Elements(s[l][i]) \ {t}
  BY <1>1, WithoutElements
<1>4. NoRepeats(Without(s[l][i], {t}))
  BY <1>1, WithoutOnly
<1>5. Cancelled(s, t)[l][i] = Without(s[l][i], {t})
  BY DEF Cancelled
<1> QED BY <1>2, <1>3, <1>4, <1>5

\* Taking the first timer of a slot takes it out.
LEMMA PoppedMoves ==
  ASSUME NEW s, Tidy(s), NEW l \in Level, NEW i \in SlotIndex, s[l][i] # <<>>
  PROVE  /\ Head(s[l][i]) \in Timer /\ Head(s[l][i]) \in Elements(s[l][i])
         /\ Moves(s, [s EXCEPT ![l][i] = Tail(@)], Head(s[l][i]), {})
<1> DEFINE r == [s EXCEPT ![l][i] = Tail(@)]
           t == Head(s[l][i])
<1>1. s[l][i] \in Seq(Timer) /\ NoRepeats(s[l][i])
  BY DEF Tidy
<1>2. /\ t \in Timer /\ t \in Elements(s[l][i]) /\ Tail(s[l][i]) \in Seq(Timer)
      /\ Elements(s[l][i]) = Elements(Tail(s[l][i])) \cup {t}
      /\ NoRepeats(Tail(s[l][i])) /\ t \notin Elements(Tail(s[l][i]))
  BY <1>1, TailElements
<1>3. /\ r \in [Level -> [SlotIndex -> Seq(Timer)]] /\ r[l][i] = Tail(s[l][i])
      /\ \A k \in Level, j \in SlotIndex : ~(k = l /\ j = i) => r[k][j] = s[k][j]
  BY <1>2 DEF Tidy
<1>4. ASSUME NEW k \in Level, NEW j \in SlotIndex
      PROVE  NoRepeats(r[k][j]) /\ Elements(r[k][j]) = Elements(s[k][j]) \ {t}
  <2>1. CASE k = l /\ j = i
    <3>1. Elements(Tail(s[l][i])) = Elements(s[l][i]) \ {t}
      BY <1>2
    <3> QED BY <1>2, <1>3, <2>1, <3>1
  <2>2. CASE ~(k = l /\ j = i)
    <3>1. t \notin Elements(s[k][j])
      <4>1. Elements(s[l][i]) \cap Elements(s[k][j]) = {}
        BY <2>2 DEF Tidy
      <4> HIDE DEF t
      <4> QED BY <1>2, <4>1
    <3>2. NoRepeats(s[k][j])
      BY DEF Tidy
    <3>3. r[k][j] = s[k][j]
      BY <1>3, <2>2
    <3> HIDE DEF r, t
    <3> QED BY <3>1, <3>2, <3>3
  <2> QED BY <2>1, <2>2
<1> HIDE DEF r, t
<1>5. Moves(s, r, t, {})
  BY <1>3, <1>4 DEF Moves
<1> QED BY <1>2, <1>5 DEF r, t

\* relink moves the timer to a slot.
LEMMA RelinkedMoves ==
  ASSUME NEW s, Tidy(s), NEW t \in Timer, NEW l \in Level, NEW i \in SlotIndex
  PROVE  Moves(s, Relinked(s, t, l, i), t, {<<l, i>>})
<1>1. CASE t \in Elements(s[l][i])
  <2>1. ASSUME NEW k \in Level, NEW j \in SlotIndex
        PROVE  /\ NoRepeats(s[k][j])
               /\ Elements(s[k][j])
                    = (Elements(s[k][j]) \ {t}) \cup (IF <<k, j>> \in {<<l, i>>} THEN {t} ELSE {})
    <3>1. CASE k = l /\ j = i
      BY <1>1, <3>1 DEF Tidy
    <3>2. CASE ~(k = l /\ j = i)
      <4>1. t \notin Elements(s[k][j])
        BY <1>1, <3>2 DEF Tidy
      <4>2. <<k, j>> \notin {<<l, i>>}
        BY <3>2
      <4>3. NoRepeats(s[k][j])
        BY DEF Tidy
      <4> QED BY <4>1, <4>2, <4>3
    <3> QED BY <3>1, <3>2
  <2>2. Relinked(s, t, l, i) = s
    BY <1>1 DEF Relinked
  <2>3. s \in [Level -> [SlotIndex -> Seq(Timer)]]
    BY DEF Tidy
  <2> QED BY <2>1, <2>2, <2>3 DEF Moves
<1>2. CASE t \notin Elements(s[l][i])
  <2> DEFINE new(k, j) == (IF k = l /\ j = i THEN <<t>> ELSE <<>>) \o Without(s[k][j], {t})
  <2>1. Relinked(s, t, l, i) = [k \in Level |-> [j \in SlotIndex |-> new(k, j)]]
    BY <1>2 DEF Relinked
  <2>2. ASSUME NEW k \in Level, NEW j \in SlotIndex
        PROVE  /\ new(k, j) \in Seq(Timer) /\ NoRepeats(new(k, j))
               /\ Elements(new(k, j))
                    = (Elements(s[k][j]) \ {t}) \cup (IF <<k, j>> \in {<<l, i>>} THEN {t} ELSE {})
    <3> DEFINE w == Without(s[k][j], {t})
    <3>1. s[k][j] \in Seq(Timer) /\ NoRepeats(s[k][j])
      BY DEF Tidy
    <3>2. w \in Seq(Timer) /\ Elements(w) = Elements(s[k][j]) \ {t} /\ NoRepeats(w)
      BY <3>1, WithoutType, WithoutElements, WithoutOnly
    <3> HIDE DEF w
    <3>3. CASE k = l /\ j = i
      <4> DEFINE v == <<t>>
      <4>1. v \in Seq(Timer) /\ Elements(v) = {t} /\ NoRepeats(v)
        BY DEF Elements, NoRepeats
      <4>2. new(k, j) = v \o w /\ <<k, j>> \in {<<l, i>>}
        BY <3>3 DEF w
      <4> HIDE DEF v
      <4>3. v \o w \in Seq(Timer) /\ Elements(v \o w) = {t} \cup Elements(w)
        BY <3>2, <4>1, ConcatElements
      <4>4. Elements(v) \cap Elements(w) = {}
        BY <3>2, <4>1
      <4>5. NoRepeats(v \o w)
        BY <3>2, <4>1, <4>4, ConcatNoRepeats
      <4> HIDE DEF new
      <4> QED BY <3>2, <4>2, <4>3, <4>5
    <3>4. CASE ~(k = l /\ j = i)
      <4>1. <<>> \o w = w
        BY <3>2
      <4>2. new(k, j) = w /\ <<k, j>> \notin {<<l, i>>}
        BY <3>4, <4>1 DEF w
      <4> HIDE DEF new
      <4> QED BY <3>2, <4>2
    <3> QED BY <3>3, <3>4
  <2> HIDE DEF new
  <2> QED BY <2>1, <2>2 DEF Moves
<1> QED BY <1>1, <1>2

\* With it, a timer is set if it was or is moved to a slot.
LEMMA MovesActive ==
  ASSUME NEW s, NEW r, NEW t, NEW X, Moves(s, r, t, X), X \subseteq Level \X SlotIndex, NEW u
  PROVE  ActiveIn(r, u) <=> (IF u = t THEN X # {} ELSE ActiveIn(s, u))
<1>1. CASE u = t
  <2>1. ASSUME ActiveIn(r, u) PROVE X # {}
    BY <1>1, <2>1 DEF ActiveIn, Moves
  <2>2. ASSUME X # {} PROVE ActiveIn(r, u)
    <3>1. PICK l \in Level, i \in SlotIndex : <<l, i>> \in X
      BY <2>2
    <3>2. u \in Elements(r[l][i])
      BY <1>1, <3>1 DEF Moves
    <3> QED BY <3>2 DEF ActiveIn
  <2> QED BY <1>1, <2>1, <2>2
<1>2. CASE u # t
  <2>1. \A l \in Level, i \in SlotIndex : u \in Elements(r[l][i]) <=> u \in Elements(s[l][i])
    BY <1>2 DEF Moves
  <2> QED BY <1>2, <2>1 DEF ActiveIn
<1> QED BY <1>1, <1>2

\* A timer that is taken out leaves the others in their slots.
LEMMA RemovedPlaced ==
  ASSUME NEW s, Placed(s), NEW t, Moves(s, slots', t, {}), scheduledAt \in [Timer -> Nat],
         s \in [Level -> [SlotIndex -> Seq(Timer)]],
         scheduledAt' = [scheduledAt EXCEPT ![t] = 0], UNCHANGED <<now, level>>
  PROVE  Placed(slots)'
<1> SUFFICES ASSUME NEW l \in Level, NEW i \in SlotIndex, NEW u, u \in Elements(slots[l][i])'
             PROVE  InItsSlot(u, l, i)'
  BY DEF Placed
<1>1. u # t /\ u \in Elements(s[l][i])
  BY DEF Moves
<1>2. u \in Timer
  <2>1. s[l][i] \in Seq(Timer)
    OBVIOUS
  <2> QED BY <1>1, <2>1, ElementsType
<1>3. scheduledAt'[u] = scheduledAt[u]
  BY <1>1, <1>2
<1>4. InItsSlot(u, l, i)
  BY <1>1 DEF Placed
<1> QED BY <1>3, <1>4 DEF InItsSlot

\* A timer that schedule sets is in its slot, and the others stay in theirs.
LEMMA Scheduled ==
  ASSUME NEW s, Tidy(s), Placed(s), Turned, scheduledAt \in [Timer -> Nat],
         NEW t \in Timer, NEW delta \in 1..Reach[0], Schedule(s, t, delta), UNCHANGED <<now, level>>
  PROVE  /\ Tidy(slots)' /\ Placed(slots)'
         /\ scheduledAt' = [scheduledAt EXCEPT ![t] = now[0] + delta]
         /\ scheduledAt' \in [Timer -> Nat]
         /\ \A u : ActiveIn(slots, u)' <=> u = t \/ ActiveIn(s, u)
<1>1. PICK l \in Level : \E e \in 1..(NumSlots - 1) :
        /\ now[l] + e = SlotsOf(now[0] + delta)[l]
        /\ slots' = Relinked(s, t, l, (now[l] + e) % NumSlots)
  <2> DEFINE d == Distance(delta)
             m == FirstFit(d)
  <2>1. /\ m \in Level /\ d[m] \in 1..(NumSlots - 1)
        /\ now[m] + d[m] = SlotsOf(now[0] + delta)[m]
    BY Placement
  <2>2. slots' = Relinked(s, t, m, (now[m] + d[m]) % NumSlots)
    BY DEF Schedule
  <2> HIDE DEF d, m
  <2> QED BY <2>1, <2>2
<1>2. PICK at \in Nat : /\ at = SlotsOf(now[0] + delta)[l] /\ slots' = Relinked(s, t, l, at % NumSlots)
                        /\ now[l] < at /\ at < now[l] + NumSlots
  <2>1. PICK e \in 1..(NumSlots - 1) : /\ now[l] + e = SlotsOf(now[0] + delta)[l]
                                       /\ slots' = Relinked(s, t, l, (now[l] + e) % NumSlots)
    BY <1>1
  <2>2. /\ now[l] \in Nat /\ now[l] + e \in Nat /\ now[l] < now[l] + e
        /\ now[l] + e < now[l] + NumSlots
    BY WheelFacts DEF Turned
  <2> QED BY <2>1, <2>2
<1>3. PICK i \in SlotIndex : i = at % NumSlots
  BY DivMod, WheelFacts DEF SlotIndex
<1>4. /\ now[l] \in Nat /\ now[0] \in Nat /\ delta \in Nat /\ delta <= Reach[0] /\ Reach[0] \in Nat
       /\ scheduledAt' = [scheduledAt EXCEPT ![t] = now[0] + delta]
  BY ReachSteps, WheelFacts DEF Turned, Schedule
<1>5. Moves(s, slots', t, {<<l, i>>})
  BY <1>2, <1>3, RelinkedMoves
<1>6. Tidy(slots)'
  <2>1. \A p, q \in {<<l, i>>} : p = q
    OBVIOUS
  <2>2. Tidy(slots')
    BY <1>5, <2>1, MovesTidy
  <2> QED BY <2>2 DEF Tidy
<1>7. scheduledAt' \in [Timer -> Nat] /\ scheduledAt'[t] = now[0] + delta
  BY <1>4
<1>8. InItsSlot(t, l, i)'
  <2>1. SlotsOf(scheduledAt'[t])[l] = at
    BY <1>2, <1>7
  <2>2. scheduledAt'[t] - now[0] <= Reach[0]
    BY <1>7, <1>4
  <2>3. now[l] <= at /\ at # now[l]
    BY <1>2, <1>4
  <2> QED BY <1>2, <1>3, <2>1, <2>2, <2>3 DEF InItsSlot
<1>9. Placed(slots)'
  <2> SUFFICES ASSUME NEW k \in Level, NEW j \in SlotIndex, NEW u, u \in Elements(slots[k][j])'
               PROVE  InItsSlot(u, k, j)'
    BY DEF Placed
  <2>1. CASE u = t
    <3>1. <<k, j>> \in {<<l, i>>}
      <4> SUFFICES ASSUME <<k, j>> \notin {<<l, i>>} PROVE FALSE
        OBVIOUS
      <4>1. Elements(slots'[k][j]) = (Elements(s[k][j]) \ {t}) \cup {}
        BY <1>5 DEF Moves
      <4> QED BY <2>1, <4>1
    <3>2. k = l /\ j = i
      BY <3>1
    <3> QED BY <1>8, <2>1, <3>2
  <2>2. CASE u # t
    <3>1. u \in Elements(s[k][j])
      BY <1>5, <2>2 DEF Moves
    <3>2. u \in Timer
      <4>1. s[k][j] \in Seq(Timer)
        BY DEF Tidy
      <4> QED BY <3>1, <4>1, ElementsType
    <3>3. scheduledAt'[u] = scheduledAt[u]
      BY <1>4, <2>2, <3>2
    <3>4. InItsSlot(u, k, j)
      BY <3>1 DEF Placed
    <3> QED BY <3>3, <3>4 DEF InItsSlot
  <2> QED BY <2>1, <2>2
<1>10. ASSUME NEW u PROVE ActiveIn(slots, u)' <=> u = t \/ ActiveIn(s, u)
  <2>1. {<<l, i>>} \subseteq Level \X SlotIndex /\ {<<l, i>>} # {}
    OBVIOUS
  <2>2. ActiveIn(slots', u) <=> (IF u = t THEN {<<l, i>>} # {} ELSE ActiveIn(s, u))
    BY <1>5, <2>1, MovesActive
  <2> QED BY <2>1, <2>2 DEF ActiveIn
<1> QED BY <1>6, <1>7, <1>9, <1>10, <1>4

-----------------------------------------------------------------------------
(* The invariant of the wheel.                                             *)

LEMMA WheelParts ==
  ASSUME WheelInvariant
  PROVE  /\ TypeOK /\ WheelsTurn /\ Turned /\ Tidy(slots) /\ Placed(slots) /\ Counts(now)
         /\ now[0] \in Nat /\ scheduledAt \in [Timer -> Nat]
<1>1. TypeOK /\ WheelsTurn /\ OneSlot /\ Placed(slots)
  BY DEF WheelInvariant, Placed
<1>2. now \in [Level -> Nat] /\ slots \in [Level -> [SlotIndex -> Seq(Timer)]]
      /\ scheduledAt \in [Timer -> Nat]
  BY <1>1 DEF TypeOK
<1>3. Turned /\ Counts(now) /\ now[0] \in Nat
  BY <1>1, <1>2, WheelFacts DEF WheelsTurn, Turned, Counts
<1>4. Tidy(slots)
  BY <1>1, <1>2 DEF OneSlot, Tidy
<1> QED BY <1>1, <1>2, <1>3, <1>4

LEMMA DelayFacts ==
  /\ Delay \subseteq 1..Reach[0] /\ 1..Reach[0] \subseteq Nat
  /\ Waits \subseteq Delay /\ Ticks \subseteq Delay /\ DefaultTick \in Delay
  /\ NodeTimer \subseteq Timer /\ AgentTimer \subseteq Timer /\ NodeTimer \cap AgentTimer = {}
  /\ None \notin Timer /\ None \notin Nat /\ None \notin Level
<1>1. Delay \subseteq 1..Reach[0] /\ 1..Reach[0] \subseteq Nat
  <2>1. Reach[0] \in Nat
    BY ReachSteps, WheelFacts
  <2> QED BY <2>1, WheelAssumption
<1>2. Waits \subseteq Delay /\ Ticks \subseteq Delay /\ DefaultTick \in Delay
  BY DEF Delay
<1>3. /\ NodeTimer \subseteq Timer /\ AgentTimer \subseteq Timer /\ NodeTimer \cap AgentTimer = {}
      /\ None \notin Timer /\ None \notin Int
  BY WheelAssumption DEF Timer
<1>4. None \notin Nat /\ None \notin Level
  <2>1. Nat \subseteq Int /\ Level \subseteq Nat
    BY WheelFacts
  <2> QED BY <1>3, <2>1
<1> QED BY <1>1, <1>2, <1>3, <1>4

\* What a timer that is set is due at.
Due == [t \in Timer |-> IF Active(t) THEN scheduledAt[t] ELSE None]

\* Setting a timer, that is in a slot or has been taken out of it, sets it and no other.
LEMMA Setting ==
  ASSUME WheelInvariant, NEW t \in Timer, NEW s, Tidy(s), Placed(s),
         \A u : u # t => (ActiveIn(s, u) <=> Active(u)),
         NEW delta \in 1..Reach[0], Schedule(s, t, delta), UNCHANGED <<now, level>>
  PROVE  /\ Tidy(slots)' /\ Placed(slots)' /\ WheelsTurn' /\ scheduledAt' \in [Timer -> Nat]
         /\ Active(t)' /\ scheduledAt'[t] = now[0] + delta
         /\ \A u \in Timer : u # t => /\ Active(u)' <=> Active(u)
                                      /\ scheduledAt'[u] = scheduledAt[u]
         /\ Due' = [Due EXCEPT ![t] = now[0] + delta]
<1>1. Turned /\ WheelsTurn /\ scheduledAt \in [Timer -> Nat]
  BY WheelParts
<1>2. /\ Tidy(slots)' /\ Placed(slots)' /\ scheduledAt' \in [Timer -> Nat]
      /\ scheduledAt' = [scheduledAt EXCEPT ![t] = now[0] + delta]
      /\ \A u : ActiveIn(slots, u)' <=> u = t \/ ActiveIn(s, u)
  BY <1>1, Scheduled
<1>3. WheelsTurn'
  BY <1>1 DEF WheelsTurn
<1>4. \A u : ActiveIn(slots, u)' <=> Active(u)'
  BY DEF ActiveIn, Active
<1>5. Active(t)' /\ \A u : u # t => (Active(u)' <=> Active(u))
  BY <1>2, <1>4
<1>6. scheduledAt'[t] = now[0] + delta /\ \A u \in Timer : u # t => scheduledAt'[u] = scheduledAt[u]
  BY <1>1, <1>2
<1>7. Due' = [Due EXCEPT ![t] = now[0] + delta]
  <2>1. Due' = [u \in Timer |-> IF Active(u)' THEN scheduledAt'[u] ELSE None]
    BY DEF Due
  <2>2. \A u \in Timer : (IF Active(u)' THEN scheduledAt'[u] ELSE None)
                           = IF u = t THEN now[0] + delta ELSE Due[u]
    BY <1>5, <1>6 DEF Due
  <2> QED BY <2>1, <2>2 DEF Due
<1> QED BY <1>2, <1>3, <1>5, <1>6, <1>7

\* Taking a timer out unsets it and no other.
LEMMA Unsetting ==
  ASSUME WheelInvariant, NEW t \in Timer, Moves(slots, slots', t, {}), Unset(t), UNCHANGED <<now, level>>
  PROVE  /\ Tidy(slots)' /\ Placed(slots)' /\ WheelsTurn' /\ scheduledAt' \in [Timer -> Nat]
         /\ ~Active(t)'
         /\ \A u \in Timer : u # t => /\ Active(u)' <=> Active(u)
                                      /\ scheduledAt'[u] = scheduledAt[u]
         /\ Due' = [Due EXCEPT ![t] = None]
<1>1. WheelsTurn /\ Tidy(slots) /\ Placed(slots) /\ scheduledAt \in [Timer -> Nat]
  BY WheelParts
<1>2. scheduledAt' = [scheduledAt EXCEPT ![t] = 0]
  BY DEF Unset
<1>3. Placed(slots)'
  BY <1>1, <1>2, RemovedPlaced DEF Tidy
<1>4. Tidy(slots)'
  <2>1. Tidy(slots')
    BY <1>1, MovesTidy
  <2> QED BY <2>1 DEF Tidy
<1>5. WheelsTurn' /\ scheduledAt' \in [Timer -> Nat]
  BY <1>1, <1>2 DEF WheelsTurn
<1>6. \A u : Active(u)' <=> u # t /\ Active(u)
  <2> SUFFICES ASSUME NEW u PROVE ActiveIn(slots', u) <=> u # t /\ ActiveIn(slots, u)
    BY DEF ActiveIn, Active
  <2> QED BY MovesActive
<1>7. \A u \in Timer : u # t => scheduledAt'[u] = scheduledAt[u]
  BY <1>1, <1>2
<1>8. Due' = [Due EXCEPT ![t] = None]
  <2>1. Due' = [u \in Timer |-> IF Active(u)' THEN scheduledAt'[u] ELSE None]
    BY DEF Due
  <2>2. \A u \in Timer : (IF Active(u)' THEN scheduledAt'[u] ELSE None)
                           = IF u = t THEN None ELSE Due[u]
    BY <1>6, <1>7 DEF Due
  <2> QED BY <2>1, <2>2 DEF Due
<1> QED BY <1>3, <1>4, <1>5, <1>6, <1>7, <1>8

\* What Cancelled leaves can be scheduled again.
LEMMA CancelledFacts ==
  ASSUME WheelInvariant, NEW t
  PROVE  /\ Moves(slots, Cancelled(slots, t), t, {})
         /\ Tidy(Cancelled(slots, t)) /\ Placed(Cancelled(slots, t))
         /\ \A u : u # t => (ActiveIn(Cancelled(slots, t), u) <=> Active(u))
<1>1. Tidy(slots) /\ Placed(slots)
  BY WheelParts
<1>2. Moves(slots, Cancelled(slots, t), t, {})
  BY <1>1, CancelledMoves
<1> DEFINE r == Cancelled(slots, t)
<1> HIDE DEF r
<1>3. Moves(slots, r, t, {})
  BY <1>2 DEF r
<1>4. Tidy(r)
  BY <1>1, <1>3, MovesTidy
<1>5. Placed(r)
  BY <1>1, <1>3 DEF Placed, Moves
<1>6. \A u : u # t => (ActiveIn(r, u) <=> Active(u))
  <2> SUFFICES ASSUME NEW u, u # t PROVE ActiveIn(r, u) <=> ActiveIn(slots, u)
    BY DEF ActiveIn, Active
  <2> QED BY <1>3, MovesActive
<1> QED BY <1>3, <1>4, <1>5, <1>6 DEF r

-----------------------------------------------------------------------------
(* One step of the wheel.                                                  *)

\* Agents tick, between steps and within.
Ticking == WheelInvariant /\ AgentsTick

\* What a step does to what timers are to do.
Maps == OnTime!Next \/ UNCHANGED <<now[0], Due, executing>>

LEMMA WaitSteps ==
  ASSUME Ticking, NEW t \in NodeTimer, NEW ms \in Waits, Wait(t, ms)
  PROVE  WheelInvariant' /\ AgentsTick' /\ Maps
<1> DEFINE s == Cancelled(slots, t)
<1>1. /\ t \in Timer /\ ms \in 1..Reach[0] /\ ms \in Delay /\ \A a \in AgentTimer : a # t
  BY DelayFacts
<1>2. /\ Tidy(s) /\ Placed(s) /\ \A u : u # t => (ActiveIn(s, u) <=> Active(u))
  BY CancelledFacts DEF Ticking
<1>3. Schedule(s, t, ms) /\ UNCHANGED <<now, left, level, executing, asked, interval>>
  BY DEF Wait
<1> HIDE DEF s
<1>4. /\ Tidy(slots)' /\ Placed(slots)' /\ WheelsTurn' /\ scheduledAt' \in [Timer -> Nat]
      /\ \A u \in Timer : u # t => (Active(u)' <=> Active(u)) /\ scheduledAt'[u] = scheduledAt[u]
      /\ Due' = [Due EXCEPT ![t] = now[0] + ms]
  BY <1>1, <1>2, <1>3, Setting DEF Ticking
<1>5. TypeOK'
  BY <1>3, <1>4, WheelParts DEF Ticking, TypeOK, Tidy
<1>6. WheelInvariant'
  BY <1>4, <1>5 DEF WheelInvariant, Tidy, OneSlot, Placed
<1>7. AgentsTick'
  BY <1>1, <1>3, <1>4, DelayFacts DEF Ticking, AgentsTick
<1>8. OnTime!Set(t, ms)
  BY <1>3, <1>4 DEF OnTime!Set, Due
<1> QED BY <1>1, <1>6, <1>7, <1>8 DEF Maps, OnTime!Next

LEMMA StopSteps ==
  ASSUME Ticking, NEW t \in NodeTimer, StopTimer(t)
  PROVE  WheelInvariant' /\ AgentsTick' /\ Maps
<1>1. t \in Timer /\ \A a \in AgentTimer : a # t
  BY DelayFacts
<1>2. Moves(slots, slots', t, {}) /\ Unset(t) /\ UNCHANGED <<now, left, level, executing, asked, interval>>
  BY CancelledFacts DEF Ticking, StopTimer
<1>3. /\ Tidy(slots)' /\ Placed(slots)' /\ WheelsTurn' /\ scheduledAt' \in [Timer -> Nat]
      /\ \A u \in Timer : u # t => (Active(u)' <=> Active(u)) /\ scheduledAt'[u] = scheduledAt[u]
      /\ Due' = [Due EXCEPT ![t] = None]
  BY <1>1, <1>2, Unsetting DEF Ticking
<1>4. TypeOK'
  BY <1>2, <1>3, WheelParts DEF Ticking, TypeOK, Tidy
<1>5. WheelInvariant'
  BY <1>3, <1>4 DEF WheelInvariant, Tidy, OneSlot, Placed
<1>6. AgentsTick'
  BY <1>1, <1>2, <1>3, DelayFacts DEF Ticking, AgentsTick
<1>7. OnTime!Cancel(t)
  BY <1>2, <1>3 DEF OnTime!Cancel, Due
<1> QED BY <1>1, <1>5, <1>6, <1>7 DEF Maps, OnTime!Next

LEMMA RegisterSteps ==
  ASSUME Ticking, NEW a \in AgentTimer, NEW tick \in Ticks, Register(a, tick)
  PROVE  WheelInvariant' /\ AgentsTick' /\ Maps
<1>1. /\ TypeOK /\ WheelInvariant /\ AgentsTick /\ now[0] \in Nat /\ Tidy(slots) /\ Placed(slots)
  BY WheelParts DEF Ticking
<1>2. PICK delta \in Delay : delta = IF tick # DefaultStep THEN tick ELSE DefaultTick
  BY DelayFacts
<1>3. /\ a \in Timer /\ delta \in 1..Reach[0] /\ delta \in Nat
  BY DelayFacts
<1>4. /\ asked' = [asked EXCEPT ![a] = tick] /\ interval' = [interval EXCEPT ![a] = delta]
      /\ interval'[a] = delta /\ UNCHANGED <<now, left, level, executing>>
  BY <1>1, <1>2 DEF Register, TypeOK
<1>5. Schedule(slots, a, delta)
  BY <1>4 DEF Register
<1>6. /\ Tidy(slots)' /\ Placed(slots)' /\ WheelsTurn' /\ scheduledAt' \in [Timer -> Nat]
      /\ Active(a)' /\ scheduledAt'[a] = now[0] + delta
      /\ \A u \in Timer : u # a => (Active(u)' <=> Active(u)) /\ scheduledAt'[u] = scheduledAt[u]
      /\ Due' = [Due EXCEPT ![a] = now[0] + delta]
  <2>1. \A u : u # a => (ActiveIn(slots, u) <=> Active(u))
    BY DEF ActiveIn, Active
  <2> QED BY <1>1, <1>3, <1>4, <1>5, <2>1, Setting
<1>7. TypeOK'
  BY <1>1, <1>4, <1>6 DEF TypeOK, Tidy
<1>8. WheelInvariant'
  BY <1>6, <1>7 DEF WheelInvariant, Tidy, OneSlot, Placed
<1>9. AgentsTick'
  <2> SUFFICES ASSUME NEW b \in AgentTimer, asked'[b] # None
               PROVE  executing' = b \/ (Active(b)' /\ scheduledAt'[b] - now'[0] <= interval'[b])
    BY DEF AgentsTick
  <2>1. CASE b = a
    BY <1>1, <1>3, <1>4, <1>6, <2>1
  <2>2. CASE b # a
    <3>1. asked'[b] = asked[b] /\ interval'[b] = interval[b] /\ b \in Timer
      BY <1>1, <1>4, <2>2, DelayFacts DEF TypeOK
    <3> QED BY <1>1, <1>4, <1>6, <2>2, <3>1 DEF AgentsTick
  <2> QED BY <2>1, <2>2
<1>10. OnTime!Set(a, delta)
  BY <1>4, <1>6 DEF OnTime!Set, Due
<1> QED BY <1>3, <1>8, <1>9, <1>10 DEF Maps, OnTime!Next

LEMMA DeleteSteps ==
  ASSUME Ticking, NEW a \in AgentTimer, DeleteAgent(a)
  PROVE  WheelInvariant' /\ AgentsTick' /\ Maps
<1>1. /\ TypeOK /\ WheelInvariant /\ AgentsTick /\ a \in Timer
  BY WheelParts, DelayFacts DEF Ticking
<1>2. /\ Moves(slots, slots', a, {}) /\ Unset(a) /\ asked' = [asked EXCEPT ![a] = None]
      /\ UNCHANGED <<now, left, level, executing, interval>>
  BY <1>1, CancelledFacts DEF DeleteAgent
<1>3. /\ Tidy(slots)' /\ Placed(slots)' /\ WheelsTurn' /\ scheduledAt' \in [Timer -> Nat]
      /\ \A u \in Timer : u # a => (Active(u)' <=> Active(u)) /\ scheduledAt'[u] = scheduledAt[u]
      /\ Due' = [Due EXCEPT ![a] = None]
  BY <1>1, <1>2, Unsetting
<1>4. TypeOK'
  BY <1>1, <1>2, <1>3 DEF TypeOK, Tidy
<1>5. WheelInvariant'
  BY <1>3, <1>4 DEF WheelInvariant, Tidy, OneSlot, Placed
<1>6. AgentsTick'
  <2> SUFFICES ASSUME NEW b \in AgentTimer, asked'[b] # None
               PROVE  executing' = b \/ (Active(b)' /\ scheduledAt'[b] - now'[0] <= interval'[b])
    BY DEF AgentsTick
  <2>1. b # a /\ asked'[b] = asked[b] /\ b \in Timer
    BY <1>1, <1>2, DelayFacts DEF TypeOK
  <2> QED BY <1>1, <1>2, <1>3, <2>1 DEF AgentsTick
<1>7. OnTime!Cancel(a)
  BY <1>2, <1>3 DEF OnTime!Cancel, Due
<1> QED BY <1>1, <1>5, <1>6, <1>7 DEF Maps, OnTime!Next

LEMMA BeginSteps ==
  ASSUME Ticking, NEW ms \in StepTimes, BeginStep(ms)
  PROVE  WheelInvariant' /\ AgentsTick' /\ Maps
<1>1. left' \in Nat /\ UNCHANGED <<now, slots, scheduledAt, level, executing, asked, interval>>
  BY WheelAssumption DEF BeginStep
<1>2. TypeOK'
  BY <1>1, WheelParts DEF Ticking, TypeOK
<1>3. WheelInvariant'
  BY <1>1, <1>2 DEF Ticking, WheelInvariant, WheelsTurn, OneSlot, InItsSlot
<1>4. AgentsTick'
  BY <1>1 DEF Ticking, AgentsTick, Active
<1>5. Maps
  BY <1>1 DEF Maps, Due, Active
<1> QED BY <1>3, <1>4, <1>5

LEMMA NextLevelSteps ==
  ASSUME Ticking, NextLevel
  PROVE  WheelInvariant' /\ AgentsTick' /\ Maps
<1>1. /\ TypeOK /\ WheelsTurn /\ WheelInvariant /\ Placed(slots) /\ level \in Level /\ CurrentSlot = <<>>
      /\ UNCHANGED <<now, slots, scheduledAt, left, executing, asked, interval>>
  BY WheelParts DEF Ticking, NextLevel, Emptying, TypeOK
<1>2. /\ level = 0 => level' = None
      /\ level # 0 => level' = level - 1 /\ level' \in Level /\ \A l \in Level : l < level => l <= level'
  BY <1>1, WheelFacts DEF NextLevel
<1>3. TypeOK'
  BY <1>1, <1>2 DEF TypeOK
<1>4. WheelsTurn'
  <2> SUFFICES ASSUME NEW l \in Level, level' # None, l < level' PROVE now[l] % NumSlots = 0
    BY <1>1 DEF WheelsTurn
  <2>1. level # 0 /\ l < level /\ level # None
    BY <1>1, <1>2, WheelFacts, DelayFacts
  <2> QED BY <1>1, <2>1 DEF WheelsTurn
<1>5. ASSUME NEW l \in Level, NEW i \in SlotIndex, NEW t \in Elements(slots[l][i])
      PROVE  InItsSlot(t, l, i)'
  <2> DEFINE at == SlotsOf(scheduledAt[t])[l]
  <2>1. InItsSlot(t, l, i)
    BY <1>1 DEF Placed
  <2>2. at = now[l] => level' # None /\ l <= level'
    <3> SUFFICES ASSUME at = now[l] PROVE level' # None /\ l <= level'
      OBVIOUS
    <3>1. l <= level /\ i = now[l] % NumSlots
      BY <2>1 DEF InItsSlot
    <3>2. l # level
      <4> SUFFICES ASSUME l = level PROVE FALSE
        OBVIOUS
      <4>1. t \in Elements(CurrentSlot)
        BY <3>1 DEF CurrentSlot
      <4>2. Elements(<<>>) = {}
        BY DEF Elements
      <4> QED BY <1>1, <4>1, <4>2
    <3>3. l < level /\ level # 0
      BY <1>1, <3>1, <3>2, WheelFacts
    <3> QED BY <1>2, <3>3, DelayFacts
  <2> QED BY <1>1, <2>1, <2>2 DEF InItsSlot
<1>6. WheelInvariant'
  BY <1>1, <1>3, <1>4, <1>5 DEF WheelInvariant, OneSlot
<1>7. AgentsTick'
  BY <1>1 DEF Ticking, AgentsTick, Active
<1>8. Maps
  BY <1>1 DEF Maps, Due, Active
<1> QED BY <1>6, <1>7, <1>8

\* A set timer is in a slot, for a tick whose slot on every wheel is known.
LEMMA SetTimers ==
  ASSUME WheelInvariant, NEW t, Active(t)
  PROVE  /\ t \in Timer /\ scheduledAt[t] \in Nat
         /\ Counts(SlotsOf(scheduledAt[t])) /\ SlotsOf(scheduledAt[t])[0] = scheduledAt[t]
         /\ \E l \in Level, i \in SlotIndex : t \in Elements(slots[l][i]) /\ InItsSlot(t, l, i)
<1>1. /\ slots \in [Level -> [SlotIndex -> Seq(Timer)]] /\ scheduledAt \in [Timer -> Nat] /\ Placed(slots)
  BY WheelParts DEF Tidy
<1>2. PICK l \in Level, i \in SlotIndex : t \in Elements(slots[l][i])
  BY DEF Active
<1>3. t \in Timer
  <2>1. slots[l][i] \in Seq(Timer)
    BY <1>1
  <2> QED BY <1>2, <2>1, ElementsType
<1>4. InItsSlot(t, l, i)
  BY <1>1, <1>2 DEF Placed
<1> QED BY <1>1, <1>2, <1>3, <1>4, SlotsOfCounts

\* The wheels that turn are the ones up to some level.
LEMMA TurningUpTo ==
  ASSUME now \in [Level -> Nat]
  PROVE  \E m \in Turning : \A l \in Level : l \in Turning <=> l <= m
<1>1. Level \subseteq Nat /\ 0 \in Level /\ MaxLevel \in Level /\ MaxLevel \in Nat
  BY WheelFacts
<1> DEFINE T == {n \in Nat : MaxLevel - n \in Turning}
<1>2. T \subseteq Nat /\ T # {}
  <2>1. 0 \in Turning
    BY <1>1 DEF Turning
  <2>2. MaxLevel - MaxLevel = 0
    BY <1>1
  <2>3. MaxLevel \in T
    BY <1>1, <2>1, <2>2
  <2> QED BY <2>3
<1>3. PICK n \in T : \A k \in T : n <= k
  <2> HIDE DEF T
  <2> QED BY <1>2, LeastNat
<1> DEFINE m == MaxLevel - n
<1>4. m \in Turning /\ m \in Level
  BY <1>3 DEF Turning
<1>5. ASSUME NEW l \in Turning PROVE l <= m
  <2>1. l \in Level /\ l \in Nat /\ l <= MaxLevel
    BY WheelFacts DEF Turning
  <2>2. MaxLevel - l \in T
    BY <1>1, <2>1
  <2> QED BY <1>1, <1>3, <2>1, <2>2
<1>6. ASSUME NEW l \in Level, l <= m PROVE l \in Turning
  BY <1>1, <1>4, <1>6 DEF Turning
<1> HIDE DEF m
<1> QED BY <1>4, <1>5, <1>6

\* Between ticks, every timer that is set is ahead.
LEMMA RestAhead ==
  ASSUME WheelInvariant, level = None
  PROVE  /\ \A l \in Level, i \in SlotIndex : \A t \in Elements(slots[l][i]) :
              now[l] < SlotsOf(scheduledAt[t])[l]
         /\ \A t : Active(t) => now[0] < scheduledAt[t]
<1>1. now \in [Level -> Nat] /\ Placed(slots) /\ Counts(now) /\ now[0] \in Nat
  BY WheelParts DEF Counts
<1>2. ASSUME NEW l \in Level, NEW i \in SlotIndex, NEW t \in Elements(slots[l][i])
      PROVE  now[l] < SlotsOf(scheduledAt[t])[l] /\ now[0] < scheduledAt[t]
  <2> DEFINE at == SlotsOf(scheduledAt[t])
  <2>1. Active(t)
    BY DEF Active
  <2>2. Counts(at) /\ at[0] = scheduledAt[t] /\ scheduledAt[t] \in Nat
    BY <2>1, SetTimers
  <2>3. InItsSlot(t, l, i)
    BY <1>1 DEF Placed
  <2>4. now[l] <= at[l] /\ at[l] # now[l]
    BY <2>3 DEF InItsSlot
  <2> HIDE DEF at
  <2>5. now[l] \in Nat /\ at[l] \in Nat
    BY <1>1, <2>2 DEF Counts
  <2>6. now[l] < at[l]
    BY <2>4, <2>5
  <2>7. ~(at[0] <= now[0])
    <3> SUFFICES ASSUME at[0] <= now[0] PROVE FALSE
      OBVIOUS
    <3>1. at[l] <= now[l]
      BY <1>1, <2>2, CountsMonotone
    <3> QED BY <2>5, <2>6, <3>1
  <2> QED BY <1>1, <2>2, <2>6, <2>7 DEF at
<1> QED BY <1>2 DEF Active

LEMMA AdvanceSteps ==
  ASSUME Ticking, Advance
  PROVE  WheelInvariant' /\ AgentsTick' /\ Maps
<1>1. /\ TypeOK /\ WheelsTurn /\ WheelInvariant /\ AgentsTick /\ Placed(slots) /\ now[0] \in Nat
      /\ now \in [Level -> Nat] /\ scheduledAt \in [Timer -> Nat]
      /\ level = None /\ executing = None /\ left \in Nat /\ left > 0
  BY WheelParts DEF Ticking, Advance, TypeOK
<1>2. /\ left' = left - 1 /\ UNCHANGED <<slots, scheduledAt, executing, asked, interval>>
      /\ now' = [l \in Level |-> IF l \in Turning THEN now[l] + 1 ELSE now[l]]
  BY DEF Advance
<1>3. PICK m \in Turning : \A l \in Level : l \in Turning <=> l <= m
  BY <1>1, TurningUpTo
<1>4. level' = m
  <2>1. m \in Nat /\ \A l \in Turning : l <= m /\ l \in Nat
    BY <1>3, WheelFacts DEF Turning
  <2>2. level' = CHOOSE l \in Turning : \A k \in Turning : k <= l
    BY DEF Advance
  <2>3. level' \in Turning /\ \A k \in Turning : k <= level'
    BY <2>1, <2>2
  <2>4. level' <= m /\ m <= level' /\ level' \in Nat
    BY <2>1, <2>3
  <2> QED BY <2>1, <2>4
<1>5. /\ m \in Level /\ m \in Nat /\ level' \in Level
      /\ \A l \in Level : now'[l] = IF l <= m THEN now[l] + 1 ELSE now[l]
      /\ now'[0] = now[0] + 1
  <2>1. m \in Level /\ m \in Nat /\ 0 <= m
    BY <1>3, WheelFacts DEF Turning
  <2> QED BY <1>2, <1>3, <1>4, <2>1, WheelFacts
<1>6. TypeOK'
  <2>1. now' \in [Level -> Nat]
    BY <1>1, <1>2
  <2> QED BY <1>1, <1>2, <1>5, <2>1 DEF TypeOK
<1>7. ASSUME NEW l \in Level, l < MaxLevel PROVE now'[l + 1] = now'[l] \div NumSlots
  <2>1. l + 1 \in Level /\ l \in Nat /\ now[l] \in Nat /\ now[l + 1] = now[l] \div NumSlots
    BY <1>1, <1>7, WheelFacts DEF WheelsTurn
  <2>2. CASE l <= m
    <3>1. l \in Turning
      BY <1>3, <2>2
    <3>2. l + 1 \in Turning <=> (now[l] + 1) % NumSlots = 0
      <4>1. \A k \in 0..((l + 1) - 1) : k \in 0..(l - 1) \/ k = l
        BY <2>1
      <4>2. l \in 0..((l + 1) - 1) /\ 0..(l - 1) \subseteq 0..((l + 1) - 1)
        BY <2>1
      <4> QED BY <2>1, <3>1, <4>1, <4>2 DEF Turning
    <3>3. (now[l] + 1) \div NumSlots
            = IF (now[l] + 1) % NumSlots = 0 THEN (now[l] \div NumSlots) + 1 ELSE now[l] \div NumSlots
      BY <2>1, DivNext, WheelFacts
    <3>4. now'[l] = now[l] + 1
      BY <1>5, <2>2
    <3>5. now'[l + 1] = IF l + 1 \in Turning THEN now[l + 1] + 1 ELSE now[l + 1]
      BY <1>2, <2>1
    <3> QED BY <2>1, <3>2, <3>3, <3>4, <3>5
  <2>3. CASE ~(l <= m)
    <3>1. ~(l + 1 <= m)
      BY <1>5, <2>1, <2>3
    <3> QED BY <1>5, <2>1, <2>3, <3>1
  <2> QED BY <2>2, <2>3
<1>8. WheelsTurn'
  <2>1. ASSUME NEW l \in Level, l < m PROVE now'[l] % NumSlots = 0
    <3>1. l \in 0..(m - 1) /\ l <= m
      BY <1>5, <2>1, WheelFacts
    <3>2. (now[l] + 1) % NumSlots = 0
      BY <1>3, <3>1 DEF Turning
    <3> QED BY <1>5, <3>1, <3>2
  <2> QED BY <1>4, <1>7, <2>1 DEF WheelsTurn
<1>9. \A l \in Level, i \in SlotIndex : \A t \in Elements(slots[l][i]) :
        now[l] < SlotsOf(scheduledAt[t])[l]
  BY <1>1, RestAhead
<1>10. \A t : Active(t) => now[0] < scheduledAt[t]
  BY <1>1, RestAhead
<1>11. ASSUME NEW l \in Level, NEW i \in SlotIndex, NEW t \in Elements(slots[l][i])
       PROVE  InItsSlot(t, l, i)'
  <2> DEFINE at == SlotsOf(scheduledAt[t])[l]
  <2>1. Active(t)
    BY DEF Active
  <2>2. /\ at \in Nat /\ scheduledAt[t] \in Nat /\ now[l] \in Nat /\ InItsSlot(t, l, i)
        /\ now[l] < at /\ Reach[0] \in Nat
    BY <1>1, <1>9, <2>1, SetTimers, ReachSteps, WheelFacts DEF Counts, Placed
  <2>3. /\ i = at % NumSlots /\ at < now[l] + NumSlots /\ scheduledAt[t] - now[0] <= Reach[0]
    BY <2>2 DEF InItsSlot
  <2> HIDE DEF at
  <2>4. (now'[l] = now[l] + 1 /\ l <= m) \/ now'[l] = now[l]
    BY <1>5
  <2>5. now'[l] <= at /\ at < now'[l] + NumSlots /\ (at = now'[l] => l <= m)
    BY <2>2, <2>3, <2>4, WheelFacts
  <2>6. scheduledAt[t] - now'[0] <= Reach[0]
    BY <1>1, <1>5, <2>2, <2>3
  <2>7. level' # None /\ level' = m
    BY <1>4, <1>5, DelayFacts
  <2> QED BY <1>2, <2>3, <2>5, <2>6, <2>7 DEF InItsSlot, at
<1>12. WheelInvariant'
  BY <1>1, <1>2, <1>6, <1>8, <1>11 DEF WheelInvariant, OneSlot
<1>13. AgentsTick'
  <2> SUFFICES ASSUME NEW a \in AgentTimer, asked[a] # None
               PROVE  Active(a) /\ scheduledAt[a] - now'[0] <= interval[a]
    BY <1>2 DEF AgentsTick, Active
  <2>1. Active(a) /\ scheduledAt[a] - now[0] <= interval[a]
    BY <1>1, DelayFacts DEF AgentsTick
  <2>2. scheduledAt[a] \in Nat /\ interval[a] \in Nat
    BY <1>1, DelayFacts DEF TypeOK
  <2> QED BY <1>1, <1>5, <2>1, <2>2
<1>14. OnTime!Tick
  <2>1. Due' = Due
    BY <1>2 DEF Due, Active
  <2>2. \A t \in Timer : Due[t] # None => Due[t] > now[0]
    BY <1>1, <1>10 DEF Due
  <2> QED BY <1>1, <1>2, <1>5, <2>1, <2>2 DEF OnTime!Tick, Due
<1> QED BY <1>12, <1>13, <1>14 DEF Maps, OnTime!Next

\* The first timer of the slot that is being emptied is not late.
LEMMA HeadOfSlot ==
  ASSUME WheelInvariant, Emptying, CurrentSlot # <<>>
  PROVE  LET t == Head(CurrentSlot)
         IN  /\ t \in Timer /\ Active(t) /\ Moves(slots, Popped, t, {})
             /\ scheduledAt[t] \in Nat /\ now[0] <= scheduledAt[t]
             /\ scheduledAt[t] - now[0] <= Reach[0]
             /\ level = 0 => scheduledAt[t] = now[0]
<1>1. /\ TypeOK /\ WheelsTurn /\ Tidy(slots) /\ Placed(slots) /\ Counts(now)
      /\ now[0] \in Nat /\ level \in Level /\ now[level] \in Nat
  BY WheelParts DEF Emptying, TypeOK
<1>2. PICK l \in Level : l = level
  BY <1>1
<1>3. PICK i \in SlotIndex : i = now[l] % NumSlots
  BY <1>1, <1>2, DivMod, WheelFacts DEF SlotIndex
<1>4. PICK t : t = Head(CurrentSlot)
  OBVIOUS
<1>5. CurrentSlot = slots[l][i] /\ Popped = [slots EXCEPT ![l][i] = Tail(@)]
  BY <1>2, <1>3 DEF CurrentSlot, Popped
<1>6. t \in Timer /\ t \in Elements(slots[l][i]) /\ Moves(slots, Popped, t, {})
  BY <1>1, <1>4, <1>5, PoppedMoves
<1>7. Active(t) /\ InItsSlot(t, l, i)
  BY <1>1, <1>6 DEF Active, Placed
<1> DEFINE at == SlotsOf(scheduledAt[t])
<1>8. Counts(at) /\ at[0] = scheduledAt[t] /\ scheduledAt[t] \in Nat
  BY <1>7, SetTimers
<1>9. /\ i = at[l] % NumSlots /\ now[l] <= at[l] /\ at[l] < now[l] + NumSlots
      /\ scheduledAt[t] - now[0] <= Reach[0]
  BY <1>7 DEF InItsSlot
<1> HIDE DEF at
<1>10. now[0] <= scheduledAt[t]
  <2>1. \A k \in Level : k < l => now[k] % NumSlots = 0
    BY <1>1, <1>2, DelayFacts DEF WheelsTurn
  <2>2. now[0] <= at[0]
    BY <1>1, <1>8, <1>9, <2>1, CountsAligned
  <2> QED BY <1>8, <2>2
<1>11. at[l] = now[l]
  <2>1. at[l] \in Nat /\ now[l] \in Nat
    BY <1>1, <1>2, <1>8 DEF Counts
  <2>2. now[l] % NumSlots = at[l] % NumSlots
    BY <1>3, <1>9
  <2> QED BY <1>9, <2>1, <2>2, ModSame, WheelFacts
<1>12. level = 0 => scheduledAt[t] = now[0]
  BY <1>2, <1>8, <1>11
<1> QED BY <1>4, <1>6, <1>7, <1>8, <1>9, <1>10, <1>12

LEMMA PromoteSteps ==
  ASSUME Ticking, Promote
  PROVE  WheelInvariant' /\ AgentsTick' /\ Maps
<1>1. /\ TypeOK /\ WheelInvariant /\ AgentsTick /\ Tidy(slots) /\ Placed(slots) /\ now[0] \in Nat
      /\ scheduledAt \in [Timer -> Nat] /\ executing = None
      /\ UNCHANGED <<now, left, level, executing, asked, interval>>
  BY WheelParts DEF Ticking, Promote, Emptying
<1>2. PICK t : /\ t = Head(CurrentSlot) /\ now[0] < scheduledAt[t]
               /\ Schedule(Popped, t, scheduledAt[t] - now[0])
  BY DEF Promote
<1>3. /\ t \in Timer /\ Active(t) /\ Moves(slots, Popped, t, {})
      /\ scheduledAt[t] \in Nat /\ scheduledAt[t] - now[0] <= Reach[0]
  BY <1>1, <1>2, HeadOfSlot DEF Promote
<1>4. PICK s : s = Popped
  OBVIOUS
<1>5. PICK delta \in 1..Reach[0] : delta = scheduledAt[t] - now[0] /\ now[0] + delta = scheduledAt[t]
  BY <1>1, <1>2, <1>3, ReachSteps, WheelFacts
<1>6. Tidy(s) /\ Placed(s) /\ \A u : u # t => (ActiveIn(s, u) <=> Active(u))
  <2>1. Moves(slots, s, t, {})
    BY <1>3, <1>4
  <2>2. Tidy(s)
    BY <1>1, <2>1, MovesTidy
  <2>3. Placed(s)
    BY <1>1, <2>1 DEF Placed, Moves
  <2>4. ASSUME NEW u, u # t PROVE ActiveIn(s, u) <=> ActiveIn(slots, u)
    BY <2>1, <2>4, MovesActive
  <2> QED BY <2>2, <2>3, <2>4 DEF ActiveIn, Active
<1>7. Schedule(s, t, delta)
  BY <1>2, <1>4, <1>5
<1>8. /\ Tidy(slots)' /\ Placed(slots)' /\ WheelsTurn' /\ scheduledAt' \in [Timer -> Nat]
      /\ Active(t)' /\ scheduledAt'[t] = now[0] + delta
      /\ \A u \in Timer : u # t => (Active(u)' <=> Active(u)) /\ scheduledAt'[u] = scheduledAt[u]
      /\ Due' = [Due EXCEPT ![t] = now[0] + delta]
  BY <1>1, <1>3, <1>6, <1>7, Setting
<1>9. TypeOK'
  BY <1>1, <1>8 DEF TypeOK, Tidy
<1>10. WheelInvariant'
  BY <1>8, <1>9 DEF WheelInvariant, Tidy, OneSlot, Placed
<1>11. \A u \in Timer : (Active(u)' <=> Active(u)) /\ scheduledAt'[u] = scheduledAt[u]
  BY <1>3, <1>5, <1>8
<1>12. AgentsTick'
  BY <1>1, <1>11, DelayFacts DEF AgentsTick
<1>13. Due' = Due
  BY <1>11 DEF Due
<1> QED BY <1>1, <1>10, <1>12, <1>13 DEF Maps

LEMMA ExecuteSteps ==
  ASSUME Ticking, Execute
  PROVE  WheelInvariant' /\ AgentsTick' /\ Maps
<1>1. /\ TypeOK /\ WheelInvariant /\ AgentsTick /\ now[0] \in Nat /\ executing = None
      /\ UNCHANGED <<now, left, level, asked, interval>>
  BY WheelParts DEF Ticking, Execute, Emptying
<1>2. PICK t : /\ t = Head(CurrentSlot) /\ (level = 0 \/ now[0] >= scheduledAt[t])
               /\ executing' = t /\ slots' = Popped /\ Unset(t)
  BY DEF Execute
<1>3. /\ t \in Timer /\ Active(t) /\ Moves(slots, Popped, t, {}) /\ scheduledAt[t] \in Nat
      /\ now[0] <= scheduledAt[t] /\ (level = 0 => scheduledAt[t] = now[0])
  BY <1>1, <1>2, HeadOfSlot DEF Execute
<1>4. /\ Tidy(slots)' /\ Placed(slots)' /\ WheelsTurn' /\ scheduledAt' \in [Timer -> Nat]
      /\ \A u \in Timer : u # t => (Active(u)' <=> Active(u)) /\ scheduledAt'[u] = scheduledAt[u]
      /\ Due' = [Due EXCEPT ![t] = None]
  <2>1. Moves(slots, slots', t, {})
    BY <1>2, <1>3
  <2> QED BY <1>1, <1>2, <1>3, <2>1, Unsetting
<1>5. TypeOK'
  BY <1>1, <1>2, <1>3, <1>4 DEF TypeOK, Tidy
<1>6. WheelInvariant'
  BY <1>4, <1>5 DEF WheelInvariant, Tidy, OneSlot, Placed
<1>7. AgentsTick'
  <2> SUFFICES ASSUME NEW a \in AgentTimer, asked[a] # None, a # t
               PROVE  Active(a)' /\ scheduledAt'[a] - now[0] <= interval[a]
    BY <1>1, <1>2 DEF AgentsTick
  <2>1. a \in Timer /\ a # executing
    BY <1>1, DelayFacts
  <2>2. Active(a) /\ scheduledAt[a] - now[0] <= interval[a]
    BY <1>1, <2>1 DEF AgentsTick
  <2> QED BY <1>4, <2>1, <2>2
<1>8. OnTime!Execute(t)
  <2>1. scheduledAt[t] = now[0]
    BY <1>1, <1>2, <1>3
  <2>2. Due[t] = now[0]
    BY <1>3, <2>1 DEF Due
  <2> QED BY <1>1, <1>2, <1>4, <2>2 DEF OnTime!Execute, Due
<1> QED BY <1>3, <1>6, <1>7, <1>8 DEF Maps, OnTime!Next

LEMMA ReturnSteps ==
  ASSUME Ticking, ExecuteReturns
  PROVE  WheelInvariant' /\ AgentsTick' /\ Maps
<1>1. /\ TypeOK /\ WheelInvariant /\ AgentsTick /\ now[0] \in Nat /\ Tidy(slots) /\ Placed(slots)
      /\ executing \in Timer /\ executing # None /\ executing' = None
      /\ UNCHANGED <<now, left, level, asked, interval>>
  BY WheelParts DEF Ticking, ExecuteReturns, TypeOK
<1>2. CASE executing \in AgentTimer
  <2>1. PICK t \in AgentTimer : t = executing
    BY <1>2
  <2>2. PICK delta \in Delay : delta = interval[t]
    BY <1>1 DEF TypeOK
  <2>3. t \in Timer /\ delta \in 1..Reach[0] /\ Schedule(slots, t, delta)
    BY <1>2, <2>1, <2>2, DelayFacts DEF ExecuteReturns
  <2>4. /\ Tidy(slots)' /\ Placed(slots)' /\ WheelsTurn' /\ scheduledAt' \in [Timer -> Nat]
        /\ Active(t)' /\ scheduledAt'[t] = now[0] + delta
        /\ \A u \in Timer : u # t => (Active(u)' <=> Active(u)) /\ scheduledAt'[u] = scheduledAt[u]
        /\ Due' = [Due EXCEPT ![t] = now[0] + delta]
    <3>1. \A u : u # t => (ActiveIn(slots, u) <=> Active(u))
      BY DEF ActiveIn, Active
    <3> QED BY <1>1, <2>3, <3>1, Setting
  <2>5. TypeOK'
    BY <1>1, <2>4 DEF TypeOK, Tidy
  <2>6. WheelInvariant'
    BY <2>4, <2>5 DEF WheelInvariant, Tidy, OneSlot, Placed
  <2>7. AgentsTick'
    <3> SUFFICES ASSUME NEW a \in AgentTimer, asked[a] # None
                 PROVE  Active(a)' /\ scheduledAt'[a] - now[0] <= interval[a]
      BY <1>1 DEF AgentsTick
    <3>1. CASE a = t
      BY <1>1, <2>2, <2>3, <2>4, <3>1, DelayFacts
    <3>2. CASE a # t
      <4>1. Active(a) /\ scheduledAt[a] - now[0] <= interval[a] /\ a \in Timer
        BY <1>1, <2>1, <3>2, DelayFacts DEF AgentsTick
      <4> QED BY <2>4, <3>2, <4>1
    <3> QED BY <3>1, <3>2
  <2>8. OnTime!Return
    BY <1>1, <2>1, <2>4 DEF OnTime!Return, Due
  <2> QED BY <2>6, <2>7, <2>8 DEF Maps, OnTime!Next
<1>3. CASE executing \notin AgentTimer
  <2>1. UNCHANGED <<slots, scheduledAt>>
    BY <1>3 DEF ExecuteReturns
  <2>2. TypeOK'
    BY <1>1, <2>1 DEF TypeOK
  <2>3. WheelInvariant'
    BY <1>1, <2>1, <2>2 DEF WheelInvariant, WheelsTurn, OneSlot, InItsSlot
  <2>4. AgentsTick'
    BY <1>1, <1>3, <2>1 DEF AgentsTick, Active
  <2>5. Due' = Due
    BY <2>1 DEF Due, Active
  <2>6. OnTime!Return
    BY <1>1, <2>5 DEF OnTime!Return, Due
  <2> QED BY <2>3, <2>4, <2>6 DEF Maps, OnTime!Next
<1> QED BY <1>2, <1>3

-----------------------------------------------------------------------------
(* The theorems.                                                           *)

LEMMA WheelStarts ==
  ASSUME Init
  PROVE  Ticking
<1>1. TypeOK
  <2>1. 0 \in Nat /\ <<>> \in Seq(Timer) /\ DefaultTick \in Delay
    BY DelayFacts
  <2> QED BY <2>1 DEF Init, TypeOK
<1>2. WheelsTurn
  <2>1. 0 \div NumSlots = 0 /\ 0 \in Nat
    BY WheelFacts, DivUnique
  <2> QED BY <2>1, WheelFacts DEF Init, WheelsTurn
<1>3. \A l \in Level, i \in SlotIndex : NoRepeats(slots[l][i]) /\ Elements(slots[l][i]) = {}
  BY DEF Init, NoRepeats, Elements
<1>4. WheelInvariant
  BY <1>1, <1>2, <1>3 DEF WheelInvariant, OneSlot
<1>5. AgentsTick
  BY DEF Init, AgentsTick
<1> QED BY <1>4, <1>5 DEF Ticking

LEMMA WheelSteps ==
  ASSUME Ticking, [Next]_vars
  PROVE  Ticking' /\ Maps
<1>1. CASE Next
  BY <1>1, WaitSteps, StopSteps, RegisterSteps, DeleteSteps, BeginSteps, AdvanceSteps, PromoteSteps,
     ExecuteSteps, NextLevelSteps, ReturnSteps DEF Next, Game, StepOn, Ticking
<1>2. CASE UNCHANGED vars
  <2>1. UNCHANGED <<now, slots, scheduledAt, level, executing, asked, interval, left>>
    BY <1>2 DEF vars
  <2>2. WheelInvariant'
    <3>1. TypeOK'
      BY <2>1 DEF Ticking, WheelInvariant, TypeOK
    <3> QED BY <2>1, <3>1 DEF Ticking, WheelInvariant, WheelsTurn, OneSlot, InItsSlot
  <2>3. AgentsTick'
    BY <2>1 DEF Ticking, AgentsTick, Active
  <2>4. Maps
    BY <2>1 DEF Maps, Due, Active
  <2> QED BY <2>2, <2>3, <2>4 DEF Ticking
<1> QED BY <1>1, <1>2

LEMMA WheelInductive ==
  Spec => []Ticking
<1>1. Init => Ticking
  BY WheelStarts
<1>2. Ticking /\ [Next]_vars => Ticking'
  BY WheelSteps
<1> QED BY <1>1, <1>2, PTL DEF Spec

\* Every timer that is set is in the one slot, of one wheel, for its tick, which that wheel
\* comes to in time (TimerWheel::schedule and process_current_slot, ratas.h).
THEOREM WheelInvariantHolds ==
  Spec => []WheelInvariant
<1>1. Ticking => WheelInvariant
  BY DEF Ticking
<1> QED BY <1>1, WheelInductive, PTL

\* A registered agent's timer is always set, for no later than its interval from now, or its
\* callback is under way: AgentTimer::execute sets it again (timer_manager.cpp:23-32).
THEOREM AgentsKeepTicking ==
  Spec => []AgentsTick
<1>1. Ticking => AgentsTick
  BY DEF Ticking
<1> QED BY <1>1, WheelInductive, PTL

\* The wheel does what a set of due times would: no timer executes before its tick, and time
\* does not go past the tick of one that is set (ratas.h:231-241).
THEOREM TimersRunOnTime ==
  Spec => RunsOnTime
<1>1. Init => OnTime!Init
  <2> SUFFICES ASSUME Init PROVE OnTime!Init
    OBVIOUS
  <2>1. \A t \in Timer : ~Active(t)
    BY DEF Init, Active, Elements
  <2> QED BY <2>1, WheelFacts DEF Init, OnTime!Init
<1>2. Ticking /\ [Next]_vars => [OnTime!Next]_(OnTime!vars)
  BY WheelSteps DEF Maps, Due, OnTime!vars
<1> QED BY <1>1, <1>2, WheelInductive, PTL DEF Spec, RunsOnTime, OnTime!Spec
=============================================================================
