-------------------------- MODULE TimerWheelProofs --------------------------
(***************************************************************************)
(* Theorems about TimerWheel, for any number of wheels, of slots and of      *)
(* timers: timers stand where the hands will find them, and the wheel        *)
(* implements TimerService.                                                 *)
(*                                                                         *)
(* What moves a hand is what the wheels below have left of the interval.     *)
(* The proofs never speak of a position as one number: that the hands may be *)
(* moved in two steps (MoveTwice) holds wheel by wheel, and says all that    *)
(* Step needs (Cascade, SlotOfLater, StepIsExact).                           *)
(***************************************************************************)
EXTENDS TimerWheel, FiniteSetTheorems, TLAPS

-----------------------------------------------------------------------------
(* Division and the natural numbers *)

\* A positive multiple of r is at least r.
LEMMA MultAtLeast ==
    ASSUME NEW r \in Nat \ {0}, NEW z \in Int, z >= 1
    PROVE  r * z >= r
  OBVIOUS

\* Every number is a multiple of r and a remainder in 0 .. r - 1.
LEMMA DivMod ==
    ASSUME NEW r \in Nat \ {0}, NEW a \in Nat
    PROVE  /\ a \div r \in Nat
           /\ a % r \in 0 .. r - 1
           /\ a = r * (a \div r) + (a % r)
  OBVIOUS

\* There is only one such multiple.
LEMMA QuotientIsUnique ==
    ASSUME NEW r \in Nat \ {0}, NEW a \in Nat, NEW q \in Nat, NEW m \in 0 .. r - 1,
           a = r * q + m
    PROVE  a \div r = q /\ a % r = m
<1> DEFINE k == a \div r
           b == a % r
<1>1. k \in Nat /\ b \in 0 .. r - 1 /\ a = r * k + b
  BY DivMod
<1> HIDE DEF k, b
<1>2. r * (q - k) = r * q - r * k /\ r * (k - q) = r * k - r * q
  BY <1>1
<1>3. ~(q - k >= 1)
  <2> SUFFICES ASSUME q - k >= 1 PROVE FALSE
    OBVIOUS
  <2>1. r * (q - k) >= r
    BY <1>1, MultAtLeast
  <2> QED
    BY <1>1, <1>2, <2>1
<1>4. ~(k - q >= 1)
  <2> SUFFICES ASSUME k - q >= 1 PROVE FALSE
    OBVIOUS
  <2>1. r * (k - q) >= r
    BY <1>1, MultAtLeast
  <2> QED
    BY <1>1, <1>2, <2>1
<1>5. k = q
  BY <1>1, <1>3, <1>4
<1>6. b = m
  BY <1>1, <1>5
<1> QED
  BY <1>5, <1>6 DEF k, b

\* Two numbers may be divided one after the other, the second one with the
\* remainder of the first.
LEMMA DivideInParts ==
    ASSUME NEW r \in Nat \ {0}, NEW a \in Nat, NEW b \in Nat
    PROVE  /\ (a + b) \div r = (a \div r) + (b + (a % r)) \div r
           /\ (a + b) % r = (b + (a % r)) % r
<1> DEFINE q == a \div r
           m == a % r
           k == (b + m) \div r
           n == (b + m) % r
<1>1. q \in Nat /\ m \in 0 .. r - 1 /\ a = r * q + m
  BY DivMod
<1>2. b + m \in Nat
  BY <1>1
<1>3. k \in Nat /\ n \in 0 .. r - 1 /\ b + m = r * k + n
  BY <1>2, DivMod
<1> HIDE DEF q, m, k, n
<1>4. a + b = r * (q + k) + n /\ q + k \in Nat /\ a + b \in Nat
  BY <1>1, <1>3
<1>5. (a + b) \div r = q + k /\ (a + b) % r = n
  BY <1>3, <1>4, QuotientIsUnique
<1>6. m = a % r /\ q = a \div r /\ k = (b + m) \div r /\ n = (b + m) % r
  BY DEF q, m, k, n
<1> HIDE DEF q, m, k, n
<1> QED
  BY <1>5, <1>6

\* To divide by the product is to divide twice.
LEMMA DivideTwice ==
    ASSUME NEW r \in Nat \ {0}, NEW s \in Nat \ {0}, NEW a \in Nat
    PROVE  (a \div r) \div s = a \div (r * s) /\ r * s \in Nat \ {0}
<1> DEFINE q == a \div r
           m == a % r
           k == q \div s
           n == q % s
<1>1. q \in Nat /\ m \in 0 .. r - 1 /\ a = r * q + m
  BY DivMod
<1>2. k \in Nat /\ n \in 0 .. s - 1 /\ q = s * k + n
  BY <1>1, DivMod
<1> HIDE DEF q, m, k, n
<1>3. r * s \in Nat \ {0}
  OBVIOUS
<1>4. r * n + m \in 0 .. r * s - 1
  <2>1. r * n + m \in Nat
    BY <1>1, <1>2
  <2>2. r * (s - n) >= r
    BY <1>2, MultAtLeast
  <2>3. r * (s - n) = r * s - r * n
    BY <1>2
  <2> QED
    BY <1>1, <1>2, <1>3, <2>1, <2>2, <2>3
<1>5. a = (r * s) * k + (r * n + m)
  <2>1. r * (s * k + n) = (r * s) * k + r * n
    BY <1>2
  <2> QED
    BY <1>1, <1>2, <2>1
<1>6. a \div (r * s) = k
  BY <1>2, <1>3, <1>4, <1>5, QuotientIsUnique
<1> QED
  BY <1>3, <1>6 DEF k, q

\* A set of numbers has a least one.
Less == OpToRel(<, Nat)

LEMMA LeastNat ==
    ASSUME NEW T \in SUBSET Nat, T # {}
    PROVE  \E x \in T : \A y \in T : x <= y
<1>1. IsWellFoundedOn(Less, Nat)
  BY NatLessThanWellFounded DEF Less
<1>2. \A x \in Nat, y \in Nat : y < x => <<y, x>> \in Less
  BY DEF OpToRel, Less
<1>3. PICK x \in T : \A y \in T : ~ (<<y, x>> \in Less)
  BY <1>1, WFMin
<1>4. \A y \in T : x <= y
  <2> TAKE y \in T
  <2>1. ~(y < x)
    BY <1>2, <1>3
  <2> QED
    BY <2>1
<1> QED
  BY <1>4

\* Induction: a set that holds 0 and with each number the next one holds all.
LEMMA Induct ==
    ASSUME NEW T \in SUBSET Nat, 0 \in T, \A n \in T : n + 1 \in T
    PROVE  T = Nat
<1> SUFFICES ASSUME Nat \ T # {}
             PROVE  FALSE
  OBVIOUS
<1>1. PICK x \in Nat \ T : \A y \in Nat \ T : x <= y
  BY LeastNat
<1>2. x # 0
  OBVIOUS
<1>3. x - 1 \in T
  BY <1>1, <1>2
<1> QED
  BY <1>1, <1>3

\* The least and the greatest of a set, once one is known to be.
LEMMA MinIs ==
    ASSUME NEW T \in SUBSET Nat, T # {}
    PROVE  Min(T) \in T /\ \A y \in T : Min(T) <= y
  BY LeastNat DEF Min

LEMMA MaxWithZero ==
    ASSUME NEW x \in Int
    PROVE  Max({0, x}) = IF x < 0 THEN 0 ELSE x
<1> DEFINE T == {0, x}
           m == IF x < 0 THEN 0 ELSE x
<1>1. m \in T /\ \A y \in T : m >= y
  OBVIOUS
<1>2. \A z \in T : (\A y \in T : z >= y) => z = m
  OBVIOUS
<1> HIDE DEF T, m
<1>3. Max(T) = m
  BY <1>1, <1>2 DEF Max
<1> QED
  BY <1>3 DEF T, m

-----------------------------------------------------------------------------
(* The wheels *)

\* The positions the hands can take.
Hands == {h \in [Wheels -> Nat] : \A w \in Wheels : h[w] < Slots[w]}

\* What the definition of Rests says.
LEMMA RestsIs ==
    ASSUME NEW h \in Hands, NEW d \in Nat
    PROVE  /\ Rests(h, d) \in [1 .. Len(Slots) + 1 -> Nat]
           /\ Rests(h, d)[1] = d
           /\ \A w \in Wheels : Rests(h, d)[w + 1] = Rest(h, w, Rests(h, d)[w])
<1> DEFINE N == Len(Slots)
           Part(n) == {g \in [1 .. n + 1 -> Nat] :
                          g[1] = d /\ \A w \in 1 .. n : g[w + 1] = Rest(h, w, g[w])}
           T == {n \in Nat : n <= N => Part(n) # {}}
<1>1. N \in Nat /\ \A w \in 1 .. N : Slots[w] \in Nat \ {0}
  BY SlotsAssumption
<1>2. 0 \in T
  <2>1. [w \in 1 .. 1 |-> d] \in Part(0)
    OBVIOUS
  <2>2. Part(0) # {}
    BY <2>1
  <2> QED
    BY <2>2
<1>3. ASSUME NEW n \in T PROVE n + 1 \in T
  <2> SUFFICES ASSUME n + 1 <= N PROVE Part(n + 1) # {}
    OBVIOUS
  <2>1. PICK g \in Part(n) : TRUE
    BY <1>1, <1>3, SMTT(30)
  <2>2. g[n + 1] \in Nat /\ h[n + 1] \in Nat /\ Slots[n + 1] \in Nat \ {0}
    BY <1>1, <2>1 DEF Hands, Wheels
  <2>3. Rest(h, n + 1, g[n + 1]) \in Nat
    <3>1. g[n + 1] + h[n + 1] \in Nat
      BY <2>2
    <3> QED
      BY <2>2, <3>1, DivMod DEF Rest
  <2> DEFINE f == [w \in 1 .. n + 2 |-> IF w = n + 2 THEN Rest(h, n + 1, g[n + 1]) ELSE g[w]]
  <2>4. f \in [1 .. n + 1 + 1 -> Nat]
    BY <2>1, <2>3
  <2>5. f[1] = d
    BY <2>1
  <2>6. \A w \in 1 .. n + 1 : f[w + 1] = Rest(h, w, f[w])
    <3> TAKE w \in 1 .. n + 1
    <3>1. CASE w = n + 1
      BY <3>1
    <3>2. CASE w \in 1 .. n
      BY <2>1, <3>2
    <3> QED
      BY <3>1, <3>2
  <2> QED
    BY <2>4, <2>5, <2>6
<1>4. PICK g \in Part(N) : TRUE
  <2> HIDE DEF T
  <2>1. T \in SUBSET Nat
    BY DEF T
  <2>2. T = Nat
    BY <1>2, <1>3, <2>1, Induct
  <2> QED
    BY <1>1, <2>2 DEF T
<1> DEFINE Equation(f) == f = [w \in 1 .. N + 1 |-> IF w = 1 THEN d ELSE Rest(h, w - 1, f[w - 1])]
<1>5. Equation(g)
  <2>1. \A w \in 1 .. N + 1 : w # 1 => g[w] = Rest(h, w - 1, g[w - 1])
    <3> TAKE w \in 1 .. N + 1
    <3> HAVE w # 1
    <3>1. w - 1 \in 1 .. N /\ w - 1 + 1 = w
      BY <1>1
    <3> QED
      BY <1>4, <3>1
  <2> QED
    BY <1>4, <2>1
<1>6. Rests(h, d) = CHOOSE f : Equation(f)
  BY DEF Rests
<1> DEFINE r == Rests(h, d)
<1>7. Equation(r)
  BY <1>5, <1>6
<1> HIDE DEF r
<1>8. r[1] = d /\ \A w \in 1 .. N : r[w + 1] = Rest(h, w, r[w])
  BY <1>1, <1>7
<1>9. \A w \in 1 .. N + 1 : r[w] = g[w]
  <2> DEFINE U == {n \in Nat : n + 1 \in 1 .. N + 1 => r[n + 1] = g[n + 1]}
  <2>1. 0 \in U
    BY <1>4, <1>8
  <2>2. ASSUME NEW n \in U PROVE n + 1 \in U
    <3> SUFFICES ASSUME n + 1 + 1 \in 1 .. N + 1 PROVE r[n + 1 + 1] = g[n + 1 + 1]
      OBVIOUS
    <3>1. n + 1 \in 1 .. N /\ n + 1 \in 1 .. N + 1
      BY <1>1
    <3>2. r[n + 1] = g[n + 1]
      BY <2>2, <3>1
    <3> QED
      BY <1>4, <1>8, <3>1, <3>2
  <2> HIDE DEF U
  <2>3. U \in SUBSET Nat
    BY DEF U
  <2>4. U = Nat
    BY <2>1, <2>2, <2>3, Induct
  <2>5. \A n \in Nat : n + 1 \in 1 .. N + 1 => r[n + 1] = g[n + 1]
    BY <2>4 DEF U
  <2>6. \A w \in 1 .. N + 1 : w - 1 \in Nat /\ w - 1 + 1 = w
    BY <1>1
  <2> QED
    BY <2>5, <2>6
<1>10. r \in [1 .. N + 1 -> Nat]
  BY <1>4, <1>7, <1>9
<1> QED
  BY <1>8, <1>10 DEF r, Wheels

\* Where an interval moves the hands, and the wheels that leave no rest of it.
Moved(h, d) == [w \in Wheels |-> NewHand(h, w, Rests(h, d)[w])]
StopWheels(h, d) == {w \in Wheels : Rests(h, d)[w + 1] = 0}

\* The first of these wheels, on which the slot is.
StopsAt(h, d, w) ==
    /\ w \in Wheels /\ Rests(h, d)[w + 1] = 0
    /\ \A v \in Wheels : v < w => Rests(h, d)[v + 1] # 0

\* The interval ends before the last wheel wraps.
Fits(h, d) == Rests(h, d)[Len(Slots) + 1] = 0

LEMMA WheelsAre ==
    /\ Len(Slots) \in Nat \ {0} /\ Wheels = 1 .. Len(Slots)
    /\ \A w \in Wheels : /\ w \in Nat \ {0} /\ w + 1 \in 1 .. Len(Slots) + 1
                         /\ w \in 1 .. Len(Slots) + 1 /\ Slots[w] \in Nat \ {0}
  BY SlotsAssumption DEF Wheels

\* One wheel.
LEMMA OneWheel ==
    ASSUME NEW h \in Hands, NEW w \in Wheels, NEW rest \in Nat
    PROVE  /\ NewHand(h, w, rest) \in 0 .. Slots[w] - 1
           /\ Rest(h, w, rest) \in Nat
           /\ Rest(h, w, rest) = 0 <=> rest + h[w] < Slots[w]
           /\ rest + h[w] < Slots[w] => NewHand(h, w, rest) = rest + h[w]
<1> DEFINE x == rest + h[w]
           r == Slots[w]
<1>1. r \in Nat \ {0} /\ x \in Nat
  BY WheelsAre DEF Hands
<1> HIDE DEF x, r
<1>2. x \div r \in Nat /\ x % r \in 0 .. r - 1 /\ x = r * (x \div r) + (x % r)
  BY <1>1, DivMod
<1>3. x < r => x \div r = 0 /\ x % r = x
  <2> HAVE x < r
  <2>1. x \in 0 .. r - 1 /\ x = r * 0 + x
    BY <1>1
  <2> QED
    BY <1>1, <2>1, QuotientIsUnique
<1>4. x \div r = 0 => x < r
  BY <1>1, <1>2
<1> QED
  BY <1>2, <1>3, <1>4 DEF x, r, NewHand, Rest

\* Once there is no rest, there is none on any higher wheel.
LEMMA NoRestAbove ==
    ASSUME NEW h \in Hands, NEW d \in Nat, NEW v \in 1 .. Len(Slots) + 1,
           NEW w \in 1 .. Len(Slots) + 1, v <= w, Rests(h, d)[v] = 0
    PROVE  Rests(h, d)[w] = 0
<1> DEFINE R == Rests(h, d)
           T == {n \in Nat : v + n \in 1 .. Len(Slots) + 1 => R[v + n] = 0}
<1>1. \A u \in Wheels : R[u + 1] = Rest(h, u, R[u])
  BY RestsIs
<1>2. 0 \in T
  OBVIOUS
<1>3. ASSUME NEW n \in T PROVE n + 1 \in T
  <2> SUFFICES ASSUME v + (n + 1) \in 1 .. Len(Slots) + 1 PROVE R[v + (n + 1)] = 0
    OBVIOUS
  <2>1. v + n \in Wheels /\ v + n \in 1 .. Len(Slots) + 1 /\ v + n + 1 = v + (n + 1)
    BY WheelsAre
  <2>2. R[v + n] = 0
    BY <1>3, <2>1
  <2>3. 0 + h[v + n] < Slots[v + n]
    BY <2>1 DEF Hands
  <2> HIDE DEF R
  <2>4. R[v + n + 1] = Rest(h, v + n, 0)
    BY <1>1, <2>1, <2>2
  <2>5. Rest(h, v + n, 0) = 0
    BY <2>1, <2>3, OneWheel
  <2> QED
    BY <2>1, <2>4, <2>5
<1> HIDE DEF R, T
<1>4. T \in SUBSET Nat
  BY DEF T
<1>5. T = Nat
  BY <1>2, <1>3, <1>4, Induct
<1>6. PICK n \in Nat : v + n = w
  <2>1. w - v \in Nat /\ v + (w - v) = w
    BY WheelsAre
  <2> QED
    BY <2>1
<1>7. R[w] = 0
  BY <1>5, <1>6 DEF T
<1> QED
  BY <1>7 DEF R

\* An interval that fits stops at a wheel, and at one only; the hand of that
\* wheel moves by what the wheel is handed.
LEMMA Stops ==
    ASSUME NEW h \in Hands, NEW d \in Nat
    PROVE  /\ Fits(h, d) <=> StopWheels(h, d) # {}
           /\ Fits(h, d) => StopsAt(h, d, Min(StopWheels(h, d)))
           /\ \A w \in Wheels : StopsAt(h, d, w) =>
                 /\ w = Min(StopWheels(h, d))
                 /\ Moved(h, d)[w] = Rests(h, d)[w] + h[w]
<1> DEFINE R == Rests(h, d)
           W == StopWheels(h, d)
<1>1. W \in SUBSET Nat
  BY WheelsAre DEF StopWheels
<1>2. Fits(h, d) => W # {}
  <2>1. Len(Slots) \in Wheels
    BY WheelsAre
  <2> QED
    BY <2>1 DEF Fits, StopWheels
<1>3. W # {} => Fits(h, d)
  <2> SUFFICES ASSUME NEW w \in W PROVE Fits(h, d)
    OBVIOUS
  <2>1. /\ w + 1 \in 1 .. Len(Slots) + 1 /\ Len(Slots) + 1 \in 1 .. Len(Slots) + 1
        /\ w + 1 <= Len(Slots) + 1 /\ R[w + 1] = 0
    BY WheelsAre DEF StopWheels
  <2> QED
    BY <2>1, NoRestAbove DEF Fits
<1>4. ASSUME W # {} PROVE StopsAt(h, d, Min(W))
  <2>1. Min(W) \in W /\ \A v \in W : Min(W) <= v
    BY <1>1, <1>4, MinIs
  <2>2. \A v \in Wheels : v < Min(W) => v \notin W
    BY <1>1, <2>1, WheelsAre
  <2> QED
    BY <2>1, <2>2 DEF StopsAt, StopWheels
<1>5. ASSUME NEW w \in Wheels, StopsAt(h, d, w)
      PROVE  w = Min(W) /\ Moved(h, d)[w] = R[w] + h[w]
  <2>1. w \in W
    BY <1>5 DEF StopsAt, StopWheels
  <2>2. Min(W) \in W /\ Min(W) <= w
    BY <1>1, <2>1, MinIs
  <2>3. ~(Min(W) < w)
    BY <1>5, <2>2 DEF StopsAt, StopWheels
  <2>4. w = Min(W)
    BY <1>1, <2>1, <2>2, <2>3
  <2>5. R[w] \in Nat /\ R[w + 1] = Rest(h, w, R[w]) /\ R[w + 1] = 0
    <3>1. R \in [1 .. Len(Slots) + 1 -> Nat] /\ R[w + 1] = Rest(h, w, R[w])
      BY RestsIs
    <3>2. w \in 1 .. Len(Slots) + 1
      BY WheelsAre
    <3>3. R[w + 1] = 0
      BY <1>5 DEF StopsAt
    <3> QED
      BY <3>1, <3>2, <3>3
  <2> HIDE DEF R
  <2>6. NewHand(h, w, R[w]) = R[w] + h[w]
    BY <2>5, OneWheel, ZenonT(60)
  <2> QED
    BY <2>4, <2>6 DEF Moved, R
<1> QED
  BY <1>2, <1>3, <1>4, <1>5

\* The hands may be moved in two steps: each wheel is handed the same in all.
LEMMA MoveTwice ==
    ASSUME NEW h \in Hands, NEW a \in Nat, NEW b \in Nat
    PROVE  /\ Moved(h, a) \in Hands
           /\ \A w \in 1 .. Len(Slots) + 1 :
                 Rests(h, a + b)[w] = Rests(h, a)[w] + Rests(Moved(h, a), b)[w]
           /\ Moved(h, a + b) = Moved(Moved(h, a), b)
<1> DEFINE g == Moved(h, a)
           A == Rests(h, a)
           B == Rests(g, b)
           C == Rests(h, a + b)
           T == {n \in Nat : n + 1 \in 1 .. Len(Slots) + 1 => C[n + 1] = A[n + 1] + B[n + 1]}
<1>1. /\ A \in [1 .. Len(Slots) + 1 -> Nat] /\ A[1] = a
      /\ \A w \in Wheels : A[w + 1] = Rest(h, w, A[w])
  BY RestsIs
<1>2. g \in Hands
  <2>1. \A w \in Wheels : NewHand(h, w, A[w]) \in 0 .. Slots[w] - 1
    BY <1>1, WheelsAre, OneWheel
  <2>2. g \in [Wheels -> Nat] /\ \A w \in Wheels : g[w] < Slots[w]
    BY <2>1, WheelsAre DEF Moved
  <2> QED
    BY <2>2 DEF Hands
<1>3. /\ B \in [1 .. Len(Slots) + 1 -> Nat] /\ B[1] = b
      /\ \A w \in Wheels : B[w + 1] = Rest(g, w, B[w])
  BY <1>2, RestsIs
<1>4. /\ C \in [1 .. Len(Slots) + 1 -> Nat] /\ C[1] = a + b
      /\ \A w \in Wheels : C[w + 1] = Rest(h, w, C[w])
  BY RestsIs
<1>5. \A w \in Wheels : g[w] = (A[w] + h[w]) % Slots[w]
  BY DEF Moved, NewHand
<1> HIDE DEF A, B, C, g
<1>6. ASSUME NEW w \in Wheels, C[w] = A[w] + B[w]
      PROVE  /\ C[w + 1] = A[w + 1] + B[w + 1]
             /\ NewHand(h, w, C[w]) = NewHand(g, w, B[w])
  <2> DEFINE x == A[w] + h[w]
             y == B[w]
             r == Slots[w]
  <2>1. x \in Nat /\ y \in Nat /\ r \in Nat \ {0} /\ C[w] + h[w] = x + y
    <3>1. /\ A[w] \in Nat /\ B[w] \in Nat /\ h[w] \in Nat /\ r \in Nat \ {0}
      BY <1>1, <1>3, WheelsAre DEF Hands
    <3> QED
      BY <1>6, <3>1
  <2>2. /\ C[w + 1] = (C[w] + h[w]) \div r /\ A[w + 1] = x \div r
        /\ B[w + 1] = (y + g[w]) \div r /\ g[w] = x % r
    BY <1>1, <1>3, <1>4, <1>5 DEF Rest
  <2>3. NewHand(h, w, C[w]) = (C[w] + h[w]) % r /\ NewHand(g, w, B[w]) = (y + g[w]) % r
    BY DEF NewHand
  <2> HIDE DEF x, y, r
  <2>4. /\ (x + y) \div r = (x \div r) + (y + (x % r)) \div r
        /\ (x + y) % r = (y + (x % r)) % r
    BY <2>1, DivideInParts
  <2> QED
    BY <2>1, <2>2, <2>3, <2>4
<1>7. 0 \in T
  BY <1>1, <1>3, <1>4
<1>8. ASSUME NEW n \in T PROVE n + 1 \in T
  <2> SUFFICES ASSUME n + 1 + 1 \in 1 .. Len(Slots) + 1
               PROVE  C[n + 1 + 1] = A[n + 1 + 1] + B[n + 1 + 1]
    OBVIOUS
  <2>1. n + 1 \in Wheels /\ n + 1 \in 1 .. Len(Slots) + 1
    BY WheelsAre
  <2>2. C[n + 1] = A[n + 1] + B[n + 1]
    BY <1>8, <2>1
  <2> QED
    BY <1>6, <2>1, <2>2
<1>9. \A w \in 1 .. Len(Slots) + 1 : C[w] = A[w] + B[w]
  <2> HIDE DEF T
  <2>1. T \in SUBSET Nat
    BY DEF T
  <2>2. T = Nat
    BY <1>7, <1>8, <2>1, Induct
  <2>3. \A n \in Nat : n + 1 \in 1 .. Len(Slots) + 1 => C[n + 1] = A[n + 1] + B[n + 1]
    BY <2>2 DEF T
  <2>4. \A w \in 1 .. Len(Slots) + 1 : w - 1 \in Nat /\ w - 1 + 1 = w
    BY WheelsAre
  <2> QED
    BY <2>3, <2>4
<1>10. Moved(h, a + b) = Moved(g, b)
  <2>1. \A w \in Wheels : NewHand(h, w, C[w]) = NewHand(g, w, B[w])
    BY <1>6, <1>9, WheelsAre
  <2> QED
    BY <2>1 DEF Moved, B, C
<1> QED
  BY <1>2, <1>9, <1>10 DEF A, B, C, g

\* What the definition of Ticks says.
LEMMA TicksAre ==
    /\ Ticks \in [0 .. Len(Slots) -> Nat \ {0}] /\ Ticks[0] = 1
    /\ \A w \in Wheels : Ticks[w] = Ticks[w - 1] * Slots[w]
<1> DEFINE N == Len(Slots)
           Part(n) == {g \in [0 .. n -> Nat \ {0}] :
                          g[0] = 1 /\ \A w \in 1 .. n : g[w] = g[w - 1] * Slots[w]}
           T == {n \in Nat : n <= N => Part(n) # {}}
<1>1. N \in Nat /\ \A w \in 1 .. N : Slots[w] \in Nat \ {0}
  BY SlotsAssumption
<1>2. 0 \in T
  <2> DEFINE f == [w \in 0 .. 0 |-> 1]
  <2>1. f \in [0 .. 0 -> Nat \ {0}]
    <3>1. 1 \in Nat \ {0}
      OBVIOUS
    <3> QED
      BY <3>1
  <2>2. f[0] = 1 /\ \A w \in 1 .. 0 : f[w] = f[w - 1] * Slots[w]
    <3>1. 0 \in 0 .. 0
      OBVIOUS
    <3>2. f[0] = 1
      BY <3>1
    <3>3. \A w \in 1 .. 0 : FALSE
      OBVIOUS
    <3> QED
      BY <3>2, <3>3
  <2>3. Part(0) # {}
    BY <2>1, <2>2
  <2> QED
    BY <2>3
<1>3. ASSUME NEW n \in T PROVE n + 1 \in T
  <2> SUFFICES ASSUME n + 1 <= N PROVE Part(n + 1) # {}
    <3> HIDE DEF Part
    <3> QED
      OBVIOUS
  <2>1. PICK g \in Part(n) : TRUE
    <3>1. n <= N
      BY <1>1
    <3> HIDE DEF Part
    <3> QED
      BY <1>3, <3>1
  <2>2. g[n] \in Nat \ {0} /\ Slots[n + 1] \in Nat \ {0}
    BY <1>1, <2>1
  <2>3. g[n] * Slots[n + 1] \in Nat \ {0}
    BY <2>2, DivideTwice
  <2> DEFINE f == [w \in 0 .. n + 1 |-> IF w = n + 1 THEN g[n] * Slots[n + 1] ELSE g[w]]
  <2>4. f \in [0 .. n + 1 -> Nat \ {0}] /\ f[0] = 1
    BY <2>1, <2>3
  <2>5. \A w \in 1 .. n + 1 : f[w] = f[w - 1] * Slots[w]
    <3> TAKE w \in 1 .. n + 1
    <3>1. CASE w = n + 1
      BY <3>1
    <3>2. CASE w \in 1 .. n
      BY <2>1, <3>2
    <3> QED
      BY <3>1, <3>2
  <2> QED
    BY <2>4, <2>5
<1>4. PICK g \in Part(N) : TRUE
  <2> HIDE DEF T
  <2>1. T \in SUBSET Nat
    BY DEF T
  <2>2. T = Nat
    BY <1>2, <1>3, <2>1, Induct
  <2> QED
    BY <1>1, <2>2 DEF T
<1> DEFINE Equation(f) == f = [w \in 0 .. N |-> IF w = 0 THEN 1 ELSE f[w - 1] * Slots[w]]
<1>5. Equation(g)
  <2>1. \A w \in 0 .. N : w # 0 => g[w] = g[w - 1] * Slots[w]
    BY <1>1, <1>4
  <2> QED
    BY <1>4, <2>1
<1>6. Ticks = CHOOSE f : Equation(f)
  BY DEF Ticks
<1> DEFINE r == Ticks
<1>7. Equation(r)
  BY <1>5, <1>6
<1> HIDE DEF r
<1>8. r[0] = 1 /\ \A w \in 1 .. N : r[w] = r[w - 1] * Slots[w]
  BY <1>1, <1>7
<1>9. \A w \in 0 .. N : r[w] = g[w]
  <2> DEFINE U == {n \in Nat : n \in 0 .. N => r[n] = g[n]}
  <2>1. 0 \in U
    BY <1>4, <1>8
  <2>2. ASSUME NEW n \in U PROVE n + 1 \in U
    <3> SUFFICES ASSUME n + 1 \in 0 .. N PROVE r[n + 1] = g[n + 1]
      OBVIOUS
    <3>1. n \in 0 .. N /\ n + 1 \in 1 .. N /\ n + 1 - 1 = n
      BY <1>1
    <3>2. r[n] = g[n]
      BY <2>2, <3>1
    <3>3. r[n + 1] = r[n] * Slots[n + 1] /\ g[n + 1] = g[n] * Slots[n + 1]
      BY <1>4, <1>8, <3>1
    <3> QED
      BY <3>2, <3>3
  <2> HIDE DEF U
  <2>3. U \in SUBSET Nat
    BY DEF U
  <2>4. U = Nat
    BY <2>1, <2>2, <2>3, Induct
  <2> QED
    BY <1>1, <2>4 DEF U
<1>10. r \in [0 .. N -> Nat \ {0}]
  BY <1>4, <1>7, <1>9
<1> QED
  BY <1>8, <1>10 DEF r, Wheels

\* The hands of a new wheel.
Origin == [w \in Wheels |-> 0]

\* From the origin each wheel is handed what the wheels below it do not hold,
\* so that an interval fits if it is below the capacity.
LEMMA FitsIs ==
    /\ Origin \in Hands
    /\ \A d \in Nat : Fits(Origin, d) <=> d < Capacity
    /\ Capacity \in Nat \ {0}
<1>1. Origin \in Hands
  BY WheelsAre DEF Origin, Hands
<1>2. Capacity \in Nat \ {0}
  BY TicksAre, WheelsAre DEF Capacity
<1>3. ASSUME NEW d \in Nat
      PROVE  Fits(Origin, d) <=> d < Capacity
  <2> DEFINE R == Rests(Origin, d)
             T == {n \in Nat : n \in 0 .. Len(Slots) => R[n + 1] = d \div Ticks[n]}
  <2>1. R[1] = d /\ \A w \in Wheels : R[w + 1] = Rest(Origin, w, R[w])
    BY <1>1, RestsIs
  <2> HIDE DEF R
  <2>2. 0 \in T
    BY <2>1, TicksAre, WheelsAre
  <2>3. ASSUME NEW n \in T PROVE n + 1 \in T
    <3> SUFFICES ASSUME n + 1 \in 0 .. Len(Slots)
                 PROVE  R[n + 1 + 1] = d \div Ticks[n + 1]
      OBVIOUS
    <3>1. n + 1 \in Wheels /\ n \in 0 .. Len(Slots) /\ n + 1 - 1 = n
      BY WheelsAre
    <3>2. Ticks[n] \in Nat \ {0} /\ Slots[n + 1] \in Nat \ {0}
      BY <3>1, TicksAre, WheelsAre
    <3>3. R[n + 1] = d \div Ticks[n]
      BY <2>3, <3>1
    <3>4. R[n + 1 + 1] = (d \div Ticks[n] + 0) \div Slots[n + 1]
      BY <2>1, <3>1, <3>3 DEF Rest, Origin
    <3>5. d \div Ticks[n] \in Nat
      BY <3>2, DivMod
    <3>6. R[n + 1 + 1] = (d \div Ticks[n]) \div Slots[n + 1]
      BY <3>4, <3>5
    <3>7. Ticks[n + 1] = Ticks[n] * Slots[n + 1]
      BY <3>1, TicksAre
    <3> QED
      BY <3>2, <3>6, <3>7, DivideTwice
  <2> HIDE DEF T
  <2>4. T \in SUBSET Nat
    BY DEF T
  <2>5. T = Nat
    BY <2>2, <2>3, <2>4, Induct
  <2>6. R[Len(Slots) + 1] = d \div Capacity
    <3>1. Len(Slots) \in T /\ Len(Slots) \in 0 .. Len(Slots)
      BY <2>5, WheelsAre
    <3> QED
      BY <3>1 DEF T, Capacity
  <2>7. d \div Capacity = 0 <=> d < Capacity
    <3>1. d \div Capacity \in Nat /\ d % Capacity \in 0 .. Capacity - 1
          /\ d = Capacity * (d \div Capacity) + (d % Capacity)
      BY <1>2, DivMod
    <3>2. d \div Capacity = 0 => d < Capacity
      BY <1>2, <3>1
    <3>3. ASSUME d < Capacity PROVE d \div Capacity = 0
      <4>1. d \in 0 .. Capacity - 1 /\ d = Capacity * 0 + d
        BY <1>2, <3>3
      <4> QED
        BY <1>2, <4>1, QuotientIsUnique
    <3> QED
      BY <3>2, <3>3
  <2> QED
    BY <2>6, <2>7 DEF Fits, R
<1> QED
  BY <1>1, <1>2, <1>3

\* An interval that fits begins and ends with intervals that fit.
LEMMA FitsInParts ==
    ASSUME NEW h \in Hands, NEW a \in Nat, NEW b \in Nat, Fits(h, a + b)
    PROVE  Fits(h, a) /\ Fits(Moved(h, a), b)
<1> DEFINE n == Len(Slots) + 1
<1>1. n \in 1 .. Len(Slots) + 1
  BY WheelsAre
<1>2. Moved(h, a) \in Hands /\ Rests(h, a + b)[n] = Rests(h, a)[n] + Rests(Moved(h, a), b)[n]
  BY <1>1, MoveTwice
<1>3. Rests(h, a)[n] \in Nat /\ Rests(Moved(h, a), b)[n] \in Nat
  BY <1>1, <1>2, RestsIs
<1> QED
  BY <1>2, <1>3 DEF Fits

\* Where the hands stop on the way to a later instant, at that instant, and
\* when they go on from the one to the other.
LEMMA Cascade ==
    ASSUME NEW h \in Hands, NEW a \in Nat, NEW b \in Nat,
           NEW w \in Wheels, StopsAt(h, a, w),
           NEW v \in Wheels, StopsAt(h, a + b, v),
           NEW u \in Wheels, StopsAt(Moved(h, a), b, u)
    PROVE  /\ w <= v /\ h[w] <= Moved(h, a)[w]
           /\ w = v => Moved(h, a)[w] <= Moved(h, a + b)[w]
           /\ w # v \/ Moved(h, a)[w] # Moved(h, a + b)[v] => u = v
<1> DEFINE g == Moved(h, a)
           A == Rests(h, a)
           B == Rests(g, b)
           C == Rests(h, a + b)
<1>1. g \in Hands /\ \A x \in 1 .. Len(Slots) + 1 : C[x] = A[x] + B[x]
  BY MoveTwice
<1>2. /\ \A x \in 1 .. Len(Slots) + 1 : A[x] \in Nat /\ B[x] \in Nat
      /\ h[w] \in Nat
  <2>1. A \in [1 .. Len(Slots) + 1 -> Nat]
    BY RestsIs
  <2>2. B \in [1 .. Len(Slots) + 1 -> Nat]
    BY <1>1, RestsIs
  <2>3. h[w] \in Nat
    BY DEF Hands
  <2> HIDE DEF A, B
  <2> QED
    BY <2>1, <2>2, <2>3
<1>3. /\ A[w + 1] = 0 /\ C[v + 1] = 0 /\ B[u + 1] = 0
      /\ \A x \in Wheels : x < w => A[x + 1] # 0
      /\ \A x \in Wheels : x < v => C[x + 1] # 0
      /\ \A x \in Wheels : x < u => B[x + 1] # 0
  BY DEF StopsAt
<1>4. \A x \in Wheels : x \in Nat \ {0} /\ x + 1 \in 1 .. Len(Slots) + 1
  BY WheelsAre
<1>5. g[w] = A[w] + h[w] /\ Moved(h, a + b)[v] = C[v] + h[v]
  BY Stops
<1>6. Moved(h, a + b) = Moved(g, b)
  BY MoveTwice
<1>7. u > 1 => B[u] # 0
  <2> HAVE u > 1
  <2>1. u - 1 \in Wheels /\ u - 1 < u /\ u - 1 + 1 = u
    BY WheelsAre
  <2> QED
    BY <1>3, <2>1
<1> HIDE DEF g, A, B, C
<1>8. \A x \in Wheels : C[x + 1] = 0 <=> A[x + 1] = 0 /\ B[x + 1] = 0
  <2> TAKE x \in Wheels
  <2>1. x + 1 \in 1 .. Len(Slots) + 1
    BY <1>4
  <2>2. C[x + 1] = A[x + 1] + B[x + 1] /\ A[x + 1] \in Nat /\ B[x + 1] \in Nat
    BY <1>1, <1>2, <2>1
  <2> QED
    BY <2>2
<1>9. w <= v /\ u <= v
  <2>1. A[v + 1] = 0 /\ B[v + 1] = 0
    BY <1>3, <1>8
  <2> QED
    BY <1>3, <1>4, <2>1
<1>10. v = w \/ v = u
  <2> SUFFICES ASSUME v # w, v # u PROVE FALSE
    OBVIOUS
  <2>1. w < v /\ u < v
    BY <1>4, <1>9
  <2>2. CASE w <= u
    <3>1. A[u + 1] = 0
      BY <1>3, <1>4, <2>2, NoRestAbove DEF A
    <3> QED
      BY <1>3, <1>8, <2>1, <3>1
  <2>3. CASE u <= w
    <3>1. B[w + 1] = 0
      BY <1>1, <1>3, <1>4, <2>3, NoRestAbove DEF B
    <3> QED
      BY <1>3, <1>8, <2>1, <3>1
  <2> QED
    BY <1>4, <2>2, <2>3
<1>11. h[w] <= g[w] /\ g[w] \in Nat
  BY <1>2, <1>4, <1>5, WheelsAre
<1>12. ASSUME w = v
       PROVE  Moved(h, a + b)[w] = g[w] + B[w] /\ B[w] \in Nat
  <2>1. w \in 1 .. Len(Slots) + 1
    BY WheelsAre
  <2>2. /\ Moved(h, a + b)[w] = C[w] + h[w] /\ C[w] = A[w] + B[w]
        /\ A[w] \in Nat /\ B[w] \in Nat
    BY <1>1, <1>2, <1>5, <1>12, <2>1
  <2> QED
    BY <1>2, <1>5, <2>2
<1>13. ASSUME w = v, Moved(h, a + b)[w] # g[w]
       PROVE  u = v
  <2>1. B[w] # 0
    BY <1>11, <1>12, <1>13
  <2>2. ~(u < w)
    <3> SUFFICES ASSUME u < w PROVE FALSE
      OBVIOUS
    <3>1. /\ u + 1 \in 1 .. Len(Slots) + 1 /\ w \in 1 .. Len(Slots) + 1 /\ u + 1 <= w
      BY WheelsAre
    <3>2. B[w] = 0
      BY <1>1, <1>3, <3>1, NoRestAbove DEF B
    <3> QED
      BY <2>1, <3>2
  <2> QED
    BY <1>4, <1>9, <1>13, <2>2
<1> QED
  BY <1>4, <1>9, <1>10, <1>11, <1>12, <1>13 DEF g

\* What FindPos returns.
LEMMA FindPosIs ==
    ASSUME NEW h \in Hands, NEW d \in Nat
    PROVE  /\ FindPos(h, d).hands = Moved(h, d)
           /\ FindPos(h, d).overflow <=> ~Fits(h, d)
           /\ \A w \in Wheels : StopsAt(h, d, w) /\ d < Capacity =>
                 FindPos(h, d).pos = <<w, Moved(h, d)[w]>>
<1>1. FindPos(h, d).hands = Moved(h, d)
  BY DEF FindPos, Moved
<1>2. FindPos(h, d).overflow = (StopWheels(h, d) = {})
  BY DEF FindPos, StopWheels
<1>3. ASSUME NEW w \in Wheels, StopsAt(h, d, w), d < Capacity
      PROVE  FindPos(h, d).pos = <<w, Moved(h, d)[w]>>
  <2>1. w = Min(StopWheels(h, d)) /\ StopWheels(h, d) # {}
    BY <1>3, Stops DEF StopsAt, StopWheels
  <2>2. w # NoWheel
    BY WheelsAre DEF NoWheel
  <2> QED
    BY <1>3, <2>1, <2>2 DEF FindPos, StopWheels, Moved
<1> QED
  BY <1>1, <1>2, <1>3, Stops

\* An interval that fits has a slot.
LEMMA SlotIs ==
    ASSUME NEW h \in Hands, NEW d \in Nat, Fits(h, d), d < Capacity
    PROVE  FindPos(h, d).pos \in Wheels \X Nat
<1>1. PICK w \in Wheels : StopsAt(h, d, w)
  BY Stops DEF StopsAt
<1>2. FindPos(h, d).pos = <<w, Moved(h, d)[w]>>
  BY <1>1, FindPosIs
<1>3. Moved(h, d)[w] \in Nat
  BY MoveTwice DEF Hands
<1> QED
  BY <1>2, <1>3

\* The slots of an instant, of a later one, and of the later one as seen from
\* the first.
LEMMA SlotOfLater ==
    ASSUME NEW h \in Hands, NEW a \in Nat, NEW b \in Nat,
           Fits(h, a + b), a + b < Capacity,
           NEW p, p = FindPos(h, a).pos,
           NEW q, q = FindPos(h, a + b).pos,
           NEW r, r = FindPos(Moved(h, a), b).pos
    PROVE  /\ p \in Wheels \X Nat /\ q \in Wheels \X Nat
           /\ p[1] <= q[1] /\ h[p[1]] <= p[2]
           /\ p[1] = q[1] => p[2] <= q[2]
           /\ p # q => r = q
<1> DEFINE g == Moved(h, a)
<1>1. Capacity \in Nat \ {0} /\ a < Capacity /\ b < Capacity /\ a + b \in Nat
  <2>1. Capacity \in Nat \ {0}
    BY FitsIs
  <2> HIDE DEF Capacity
  <2> QED
    BY <2>1
<1>2. g \in Hands /\ Moved(h, a + b) \in Hands /\ Moved(g, b) = Moved(h, a + b)
  BY <1>1, MoveTwice
<1>3. Fits(h, a) /\ Fits(g, b)
  BY FitsInParts
<1> HIDE DEF g
<1>4. PICK w \in Wheels : StopsAt(h, a, w)
  BY <1>3, Stops DEF StopsAt
<1>5. PICK v \in Wheels : StopsAt(h, a + b, v)
  BY <1>1, Stops DEF StopsAt
<1>6. PICK u \in Wheels : StopsAt(g, b, u)
  BY <1>2, <1>3, Stops DEF StopsAt
<1>7. /\ p = <<w, g[w]>> /\ q = <<v, Moved(h, a + b)[v]>>
      /\ r = <<u, Moved(h, a + b)[u]>>
  <2>1. p = <<w, g[w]>>
    BY <1>1, <1>4, FindPosIs DEF g
  <2>2. q = <<v, Moved(h, a + b)[v]>>
    BY <1>1, <1>5, FindPosIs
  <2>3. r = <<u, Moved(g, b)[u]>>
    BY <1>1, <1>2, <1>6, FindPosIs DEF g
  <2> QED
    BY <1>2, <2>1, <2>2, <2>3
<1>8. /\ w <= v /\ h[w] <= g[w]
      /\ w = v => g[w] <= Moved(h, a + b)[w]
      /\ w # v \/ g[w] # Moved(h, a + b)[v] => u = v
  BY <1>4, <1>5, <1>6, Cascade DEF g
<1>9. g[w] \in Nat /\ Moved(h, a + b)[v] \in Nat
  BY <1>2 DEF Hands
<1> QED
  BY <1>7, <1>8, <1>9

-----------------------------------------------------------------------------
(* The inductive invariant *)

\* The instants the loop knows are in order, nothing is due outside of the
\* callbacks, and the hands are where last_expire_time_ has moved them.
ClockOK ==
    /\ clock \in 0 .. MaxTime /\ pollNow \in 0 .. clock
    /\ last_expire_time_ \in 0 .. clock
    /\ phase = "setup" => clock = 0
    /\ phase = "events" => last_expire_time_ <= pollNow
    /\ phase \in {"setup", "poll", "events"} => pending = {}
    /\ hands_ = Moved(Origin, last_expire_time_)

\* No timer of the wheel is overdue.
TimersOK ==
    /\ IsFiniteSet(Active)
    /\ \A t \in Active : timers_[t].expire \in last_expire_time_ .. MaxTime + MaxInterval
    /\ expire_time_queue_ \in [Instants -> Nat]

IInv == ClockOK /\ TimersOK /\ SlotsFollowHands /\ QueueMatchesTimers

\* The wheels hold every instant of the run, and Run is called at the instant
\* the loop is built.
InRange == MaxTime + MaxInterval < Capacity /\ ~SetupTakesTime

\* The interval to an instant that is not before the last Step, and whether it
\* fits.
LEMMA IntervalFits ==
    ASSUME InRange, ClockOK, NEW i \in Nat, last_expire_time_ <= i, i <= MaxTime + MaxInterval
    PROVE  /\ Interval(i) = i - last_expire_time_ /\ Interval(i) \in Nat
           /\ Interval(i) < Capacity
           /\ hands_ \in Hands /\ Fits(hands_, Interval(i))
<1> DEFINE l == last_expire_time_
<1>1. Capacity \in Nat /\ MaxTime \in Nat /\ MaxInterval \in Nat /\ l \in Nat
  BY FitsIs, TimeAssumption DEF ClockOK
<1>2. Interval(i) = i - l /\ i - l \in Nat
  BY <1>1, MaxWithZero DEF Interval
<1>3. i < Capacity /\ i - l < Capacity /\ l + (i - l) = i
  <2>1. MaxTime + MaxInterval < Capacity
    BY DEF InRange
  <2> QED
    BY <1>1, <1>2, <2>1
<1>4. Fits(Origin, i) /\ Origin \in Hands
  BY <1>3, FitsIs
<1>5. Moved(Origin, l) \in Hands
  BY <1>1, <1>4, MoveTwice
<1>6. Fits(Moved(Origin, l), i - l)
  BY <1>1, <1>2, <1>3, <1>4, FitsInParts
<1> QED
  BY <1>2, <1>3, <1>5, <1>6 DEF ClockOK

\* The hands move to the slot of pollNow: exactly the timers that are due are
\* unlinked, and each other timer gets the slot FindPos gives it from there.
LEMMA StepIsExact ==
    ASSUME InRange, IInv, phase = "events",
           NEW target, target = FindPos(hands_, Interval(pollNow))
    PROVE  /\ target.pos[1] \in Wheels /\ target.overflow = FALSE
           /\ target.hands = Moved(Origin, pollNow)
           /\ Expired(target, pollNow) = {t \in Active : timers_[t].expire <= pollNow}
           /\ \A t \in Active : timers_[t].expire > pollNow =>
                 Place(t, target, pollNow)
                    = FindPos(target.hands, timers_[t].expire - pollNow).pos
<1> DEFINE l == last_expire_time_
           a == pollNow - l
           p == target.pos
<1>1. /\ ClockOK /\ TimersOK /\ SlotsFollowHands
      /\ l \in Nat /\ pollNow \in Nat /\ l <= pollNow /\ MaxTime \in Nat /\ MaxInterval \in Nat
      /\ pollNow <= MaxTime + MaxInterval
  BY TimeAssumption DEF IInv, ClockOK
<1>2. /\ Interval(pollNow) = a /\ a \in Nat /\ a < Capacity
      /\ hands_ \in Hands /\ Fits(hands_, a)
  BY <1>1, IntervalFits
<1>3. target.hands = Moved(hands_, a) /\ target.overflow = FALSE
  <2>1. target.overflow \in BOOLEAN
    BY DEF FindPos
  <2> QED
    BY <1>2, <2>1, FindPosIs
<1>4. Moved(hands_, a) = Moved(Origin, pollNow)
  <2>1. Moved(Origin, l + a) = Moved(Moved(Origin, l), a)
    BY <1>1, <1>2, FitsIs, MoveTwice
  <2>2. l + a = pollNow
    BY <1>1
  <2> QED
    BY <1>1, <2>1, <2>2 DEF ClockOK
<1> HIDE DEF a, p
<1>5. p \in Wheels \X Nat /\ hands_[p[1]] <= p[2] /\ hands_[p[1]] \in Nat
  <2> PICK b \in Nat : b = 0
    OBVIOUS
  <2>1. a + b = a
    BY <1>2
  <2>2. /\ Fits(hands_, a + b) /\ a + b < Capacity
        /\ p = FindPos(hands_, a).pos /\ p = FindPos(hands_, a + b).pos
    BY <1>2, <2>1 DEF p
  <2>3. p \in Wheels \X Nat /\ hands_[p[1]] <= p[2]
    BY <1>2, <2>2, SlotOfLater
  <2> QED
    BY <1>2, <2>3 DEF Hands
<1>6. ASSUME NEW t \in Active
      PROVE  /\ t \in Expired(target, pollNow) <=> timers_[t].expire <= pollNow
             /\ timers_[t].expire > pollNow =>
                   Place(t, target, pollNow)
                      = FindPos(target.hands, timers_[t].expire - pollNow).pos
  <2> DEFINE e == timers_[t].expire
             q == timers_[t].pos
  <2>1. /\ e \in Nat /\ l <= e /\ e <= MaxTime + MaxInterval
        /\ q = FindPos(hands_, e - l).pos
    BY <1>1 DEF TimersOK, SlotsFollowHands
  <2>2. /\ e - l \in Nat /\ e - l < Capacity /\ Fits(hands_, e - l)
    BY <1>1, <2>1, IntervalFits
  <2>3. t \in Expired(target, pollNow) <=>
           \/ q[1] < p[1]
           \/ q[1] = p[1] /\ q[2] \in hands_[q[1]] .. p[2] - 1
           \/ q = p /\ e <= pollNow
    BY <1>3 DEF Expired, IsDue, p
  <2> HIDE DEF e, q
  <2>4. CASE e <= pollNow
    <3> DEFINE b == pollNow - e
               r == FindPos(Moved(hands_, e - l), b).pos
    <3>1. b \in Nat /\ (e - l) + b = a
      BY <1>1, <2>1, <2>4 DEF a
    <3>2. p = FindPos(hands_, a).pos
      BY <1>2 DEF p
    <3> HIDE DEF b
    <3>3. /\ q \in Wheels \X Nat /\ q[1] <= p[1] /\ hands_[q[1]] <= q[2]
          /\ q[1] = p[1] => q[2] <= p[2]
      BY <1>2, <2>1, <2>2, <3>1, <3>2, SlotOfLater
    <3>4. \/ q[1] < p[1]
          \/ q[1] = p[1] /\ q[2] < p[2]
          \/ q = p
      BY <1>5, <3>3, WheelsAre
    <3>5. t \in Expired(target, pollNow)
      <4>1. q[1] = p[1] /\ q[2] < p[2] => q[2] \in hands_[q[1]] .. p[2] - 1
        BY <1>5, <3>3
      <4> QED
        BY <2>3, <2>4, <3>4, <4>1
    <3> QED
      BY <1>1, <2>1, <2>4, <3>5 DEF e
  <2>5. CASE e > pollNow
    <3> DEFINE b == e - pollNow
               r == FindPos(Moved(hands_, a), b).pos
    <3>1. b \in Nat /\ a + b = e - l
      BY <1>1, <2>1, <2>5 DEF a
    <3>2. p = FindPos(hands_, a).pos
      BY <1>2 DEF p
    <3> HIDE DEF b
    <3>3. /\ q \in Wheels \X Nat /\ p[1] <= q[1]
          /\ p[1] = q[1] => p[2] <= q[2]
          /\ p # q => r = q
      BY <1>2, <2>1, <2>2, <3>1, <3>2, SlotOfLater
    <3>4. t \notin Expired(target, pollNow)
      <4>1. ~(q[1] < p[1]) /\ ~(q[1] = p[1] /\ q[2] \in hands_[q[1]] .. p[2] - 1)
        BY <1>5, <3>3, WheelsAre
      <4>2. ~(e <= pollNow)
        BY <1>1, <2>1, <2>5
      <4> QED
        BY <2>3, <4>1, <4>2
    <3>5. Place(t, target, pollNow) = r
      <4>1. q = p => Place(t, target, pollNow) = FindPos(target.hands, e - pollNow).pos
        BY DEF Place, p, q, e
      <4>2. q # p => Place(t, target, pollNow) = q
        BY DEF Place, p, q
      <4> QED
        BY <1>3, <3>3, <4>1, <4>2 DEF b
    <3>6. ~(e <= pollNow)
      BY <1>1, <2>1, <2>5
    <3> QED
      BY <1>3, <3>4, <3>5, <3>6 DEF e, b
  <2> QED
    BY <1>1, <2>1, <2>4, <2>5
<1>7. Expired(target, pollNow) \subseteq Active
  BY DEF Expired
<1>8. Expired(target, pollNow) = {t \in Active : timers_[t].expire <= pollNow}
  BY <1>6, <1>7
<1> QED
  BY <1>3, <1>4, <1>5, <1>6, <1>8 DEF p

-----------------------------------------------------------------------------
(* The steps *)

\* What RunAfter does: the slot is on a wheel, so no assertion fails.
LEMMA RunAfterIs ==
    ASSUME InRange, IInv, NEW interval \in 0 .. MaxInterval, RunAfter(interval)
    PROVE  /\ phase' = phase
           /\ UNCHANGED <<clock, pollNow, wakeAt, hands_, last_expire_time_, pending, gone>>
           /\ clock + interval \in last_expire_time_ .. MaxTime + MaxInterval
           /\ clock + interval \in Instants
           /\ expire_time_queue_' = [expire_time_queue_ EXCEPT ![clock + interval] = @ + 1]
           /\ \E t \in Timers \ Used :
                 timers_' = [u \in Active \cup {t} |->
                    IF u = t
                    THEN [expire |-> clock + interval,
                          pos |-> FindPos(hands_, (clock + interval) - last_expire_time_).pos]
                    ELSE timers_[u]]
<1> DEFINE t == Min(Timers \ Used)
           ticks == Interval(clock + interval)
           target == FindPos(hands_, ticks)
           expire == ticks + last_expire_time_
<1>1. t \in Timers \ Used
  <2>1. Timers \ Used # {} /\ Timers \ Used \in SUBSET Nat
    BY TimersAssumption DEF RunAfter
  <2> QED
    BY <2>1, MinIs
<1>2. /\ clock \in Nat /\ last_expire_time_ \in Nat /\ interval \in Nat /\ clock + interval \in Nat
      /\ last_expire_time_ <= clock + interval /\ clock + interval <= MaxTime + MaxInterval
      /\ MaxTime \in Nat /\ MaxInterval \in Nat
  BY TimeAssumption DEF IInv, ClockOK
<1>3. /\ ticks = (clock + interval) - last_expire_time_ /\ ticks \in Nat
      /\ ticks < Capacity /\ hands_ \in Hands /\ Fits(hands_, ticks)
  BY <1>2, IntervalFits DEF IInv
<1>4. expire = clock + interval
  BY <1>2, <1>3
<1>5. target.pos[1] # NoWheel
  <2>1. target.pos \in Wheels \X Nat
    BY <1>3, SlotIs
  <2> HIDE DEF target
  <2> QED
    BY <2>1, WheelsAre DEF NoWheel
<1>6. /\ timers_' = [u \in Active \cup {t} |->
                        IF u = t THEN [expire |-> expire, pos |-> target.pos] ELSE timers_[u]]
      /\ expire_time_queue_' = [expire_time_queue_ EXCEPT ![expire] = @ + 1]
      /\ phase' = IF target.pos[1] = NoWheel THEN "aborted" ELSE phase
      /\ UNCHANGED <<clock, pollNow, wakeAt, hands_, last_expire_time_, pending, gone>>
  BY DEF RunAfter
<1> HIDE DEF t
<1>7. timers_' = [u \in Active \cup {t} |->
                    IF u = t
                    THEN [expire |-> clock + interval,
                          pos |-> FindPos(hands_, (clock + interval) - last_expire_time_).pos]
                    ELSE timers_[u]]
  BY <1>3, <1>4, <1>6
<1> HIDE DEF ticks, target, expire
<1> QED
  BY <1>1, <1>2, <1>4, <1>5, <1>6, <1>7 DEF Instants

\* The timers of one instant.
TimersOf(i) == {t \in Active : timers_[t].expire = i}

\* A timer more, in the slot of its instant.
LEMMA RunAfterKeeps ==
    ASSUME InRange, IInv, NEW interval \in 0 .. MaxInterval, RunAfter(interval)
    PROVE  IInv'
<1>1. /\ phase' = phase
      /\ UNCHANGED <<clock, pollNow, wakeAt, hands_, last_expire_time_, pending, gone>>
      /\ clock + interval \in last_expire_time_ .. MaxTime + MaxInterval
      /\ clock + interval \in Instants
      /\ expire_time_queue_' = [expire_time_queue_ EXCEPT ![clock + interval] = @ + 1]
  BY RunAfterIs
<1>2. PICK t \in Timers \ Used :
         timers_' = [u \in Active \cup {t} |->
            IF u = t
            THEN [expire |-> clock + interval,
                  pos |-> FindPos(hands_, (clock + interval) - last_expire_time_).pos]
            ELSE timers_[u]]
  BY RunAfterIs
<1> DEFINE e == clock + interval
<1>3. /\ Active' = Active \cup {t} /\ t \notin Active
      /\ timers_'[t].expire = e
      /\ timers_'[t].pos = FindPos(hands_, e - last_expire_time_).pos
      /\ \A u \in Active : timers_'[u] = timers_[u]
  <2> DEFINE new == [expire |-> e, pos |-> FindPos(hands_, e - last_expire_time_).pos]
  <2>1. timers_' = [u \in Active \cup {t} |-> IF u = t THEN new ELSE timers_[u]]
    BY <1>2
  <2>2. t \notin Active
    BY DEF Used
  <2>3. new.expire = e /\ new.pos = FindPos(hands_, e - last_expire_time_).pos
    OBVIOUS
  <2> HIDE DEF new, e
  <2>4. Active' = Active \cup {t}
    BY <2>1 DEF Active
  <2>5. timers_'[t] = new /\ \A u \in Active : timers_'[u] = timers_[u]
    BY <2>1, <2>2
  <2> QED
    BY <2>2, <2>3, <2>4, <2>5
<1> HIDE DEF e
<1>4. ClockOK'
  BY <1>1 DEF IInv, ClockOK
<1>5. TimersOK'
  <2>1. IsFiniteSet(Active')
    BY <1>3, FS_AddElement DEF IInv, TimersOK
  <2>2. \A u \in Active' : timers_'[u].expire \in last_expire_time_ .. MaxTime + MaxInterval
    BY <1>1, <1>3 DEF IInv, TimersOK, e
  <2>3. expire_time_queue_' \in [Instants -> Nat]
    BY <1>1 DEF IInv, TimersOK
  <2> QED
    BY <1>1, <2>1, <2>2, <2>3 DEF TimersOK
<1>6. SlotsFollowHands'
  <2>1. \A u \in Active' :
           timers_'[u].pos = FindPos(hands_, timers_'[u].expire - last_expire_time_).pos
    BY <1>3 DEF IInv, SlotsFollowHands
  <2>2. hands_' = hands_ /\ last_expire_time_' = last_expire_time_
    BY <1>1
  <2> QED
    BY <2>1, <2>2 DEF SlotsFollowHands
<1>7. QueueMatchesTimers'
  <2> SUFFICES ASSUME NEW i \in Instants
               PROVE  expire_time_queue_'[i] = Cardinality(TimersOf(i)')
    BY DEF QueueMatchesTimers, TimersOf
  <2>1. expire_time_queue_[i] = Cardinality(TimersOf(i)) /\ IsFiniteSet(TimersOf(i))
    BY FS_Subset DEF IInv, QueueMatchesTimers, TimersOK, TimersOf
  <2>2. TimersOf(i)' = IF i = e THEN TimersOf(i) \cup {t} ELSE TimersOf(i)
    BY <1>3 DEF TimersOf
  <2>3. t \notin TimersOf(i)
    BY <1>3 DEF TimersOf
  <2>4. expire_time_queue_'[i] = IF i = e THEN expire_time_queue_[i] + 1
                                 ELSE expire_time_queue_[i]
    BY <1>1 DEF IInv, TimersOK, e
  <2> QED
    BY <2>1, <2>2, <2>3, <2>4, FS_AddElement, ZenonT(60)
<1> QED
  BY <1>4, <1>5, <1>6, <1>7 DEF IInv

\* A timer less; one of those that are due ends the process.
LEMMA RemoveTimerKeeps ==
    ASSUME IInv, NEW t, RemoveTimer(t)
    PROVE  IInv'
<1>1. UNCHANGED <<clock, pollNow, wakeAt, hands_, last_expire_time_, pending>>
  BY DEF RemoveTimer
<1>2. ClockOK'
  <2>1. phase' = phase \/ phase' = "aborted"
    BY DEF RemoveTimer
  <2> QED
    BY <1>1, <2>1 DEF IInv, ClockOK
<1>3. CASE t \notin Active
  <2>1. UNCHANGED <<timers_, expire_time_queue_>>
    BY <1>3 DEF RemoveTimer
  <2> QED
    BY <1>1, <1>2, <2>1 DEF IInv, TimersOK, SlotsFollowHands, QueueMatchesTimers, Active
<1>4. CASE t \in Active
  <2> DEFINE e == timers_[t].expire
  <2>1. /\ timers_' = [u \in Active \ {t} |-> timers_[u]]
        /\ expire_time_queue_' = Without(expire_time_queue_, e)
    BY <1>4 DEF RemoveTimer
  <2>2. Active' = Active \ {t} /\ \A u \in Active' : timers_'[u] = timers_[u]
    BY <2>1 DEF Active
  <2>3. /\ expire_time_queue_ \in [Instants -> Nat] /\ e \in Instants
        /\ IsFiniteSet(Active)
    BY <1>4, TimeAssumption DEF IInv, TimersOK, ClockOK, Instants
  <2>4. /\ expire_time_queue_' \in [Instants -> Nat]
        /\ \A i \in Instants : expire_time_queue_'[i] =
              IF i # e THEN expire_time_queue_[i]
              ELSE IF expire_time_queue_[i] = 0 THEN 0 ELSE expire_time_queue_[i] - 1
    <3> DEFINE n == expire_time_queue_[e]
    <3>1. n \in Nat /\ n - 1 \in Int
      BY <2>3
    <3>2. Max({0, n - 1}) = IF n = 0 THEN 0 ELSE n - 1
      BY <3>1, MaxWithZero
    <3>3. expire_time_queue_' = [expire_time_queue_ EXCEPT ![e] = Max({0, n - 1})]
      BY <2>1 DEF Without
    <3> HIDE DEF e
    <3> QED
      BY <2>3, <3>1, <3>2, <3>3
  <2> HIDE DEF e
  <2>5. TimersOK'
    <3>1. IsFiniteSet(Active')
      BY <2>2, <2>3, FS_RemoveElement
    <3>2. \A u \in Active' : timers_'[u].expire \in last_expire_time_ .. MaxTime + MaxInterval
      BY <2>2 DEF IInv, TimersOK
    <3> QED
      BY <1>1, <2>4, <3>1, <3>2 DEF TimersOK
  <2>6. SlotsFollowHands'
    <3>1. \A u \in Active' :
             timers_'[u].pos = FindPos(hands_, timers_'[u].expire - last_expire_time_).pos
      BY <2>2 DEF IInv, SlotsFollowHands
    <3>2. hands_' = hands_ /\ last_expire_time_' = last_expire_time_
      BY <1>1
    <3> QED
      BY <3>1, <3>2 DEF SlotsFollowHands
  <2>7. QueueMatchesTimers'
    <3> SUFFICES ASSUME NEW i \in Instants
                 PROVE  expire_time_queue_'[i] = Cardinality(TimersOf(i)')
      BY DEF QueueMatchesTimers, TimersOf
    <3>1. expire_time_queue_[i] = Cardinality(TimersOf(i)) /\ IsFiniteSet(TimersOf(i))
      BY FS_Subset DEF IInv, QueueMatchesTimers, TimersOK, TimersOf
    <3>2. TimersOf(i)' = TimersOf(i) \ {t} /\ (t \in TimersOf(i) <=> i = e)
      BY <1>4, <2>2 DEF TimersOf, e
    <3>3. /\ Cardinality(TimersOf(i)') = IF i = e THEN Cardinality(TimersOf(i)) - 1
                                         ELSE Cardinality(TimersOf(i))
          /\ i = e => Cardinality(TimersOf(i)) # 0
      <4>1. t \in TimersOf(i) => TimersOf(i) # {}
        OBVIOUS
      <4> QED
        BY <3>1, <3>2, <4>1, FS_RemoveElement, FS_EmptySet
    <3> QED
      BY <2>4, <3>1, <3>3
  <2> QED
    BY <1>2, <2>5, <2>6, <2>7 DEF IInv
<1> QED
  BY <1>3, <1>4

\* What Step does: it does not overflow, and hands out what is due.
LEMMA StepIs ==
    ASSUME InRange, IInv, Step
    PROVE  /\ phase = "events" /\ phase' = "callbacks"
           /\ UNCHANGED <<clock, pollNow, wakeAt, gone>>
           /\ hands_' = Moved(Origin, pollNow) /\ last_expire_time_' = pollNow
           /\ pending' = {t \in Active : timers_[t].expire <= pollNow}
           /\ Active' = Active \ pending'
           /\ \A t \in Active' : /\ timers_'[t].expire = timers_[t].expire
                                 /\ timers_[t].expire > pollNow
                                 /\ timers_'[t].pos
                                       = FindPos(hands_', timers_[t].expire - pollNow).pos
           /\ expire_time_queue_' =
                 [i \in Instants |-> IF i <= pollNow THEN 0 ELSE expire_time_queue_[i]]
<1>1. /\ phase = "events" /\ last_expire_time_' = pollNow
      /\ UNCHANGED <<clock, pollNow, wakeAt, gone>>
      /\ expire_time_queue_' =
            [i \in Instants |-> IF i <= pollNow THEN 0 ELSE expire_time_queue_[i]]
  BY DEF Step
<1>2. PICK target : target = FindPos(hands_, Interval(pollNow))
  OBVIOUS
<1>3. PICK expired : expired = Expired(target, pollNow)
  OBVIOUS
<1>4. /\ hands_' = target.hands
      /\ timers_' = [t \in Active \ expired |-> [expire |-> timers_[t].expire,
                                                  pos |-> Place(t, target, pollNow)]]
      /\ pending' = expired
      /\ phase' \in IF \/ target.pos[1] = NoWheel
                       \/ \E t \in DOMAIN timers_' : timers_'[t].pos[1] = NoWheel
                    THEN {"aborted"}
                    ELSE IF target.overflow THEN {"aborted", "callbacks"}
                    ELSE {"callbacks"}
  BY <1>2, <1>3 DEF Step
<1>5. /\ target.pos[1] # NoWheel /\ target.overflow = FALSE
      /\ target.hands = Moved(Origin, pollNow)
      /\ expired = {t \in Active : timers_[t].expire <= pollNow}
      /\ \A t \in Active : timers_[t].expire > pollNow =>
            Place(t, target, pollNow) = FindPos(target.hands, timers_[t].expire - pollNow).pos
  BY <1>1, <1>2, <1>3, StepIsExact, WheelsAre DEF NoWheel
<1>6. Active' = Active \ expired
  BY <1>4 DEF Active
<1>7. ASSUME NEW t \in Active'
      PROVE  /\ timers_'[t].expire = timers_[t].expire
             /\ timers_[t].expire > pollNow
             /\ timers_'[t].pos = FindPos(hands_', timers_[t].expire - pollNow).pos
  <2>1. t \in Active \ expired
    BY <1>6
  <2>2. timers_'[t].expire = timers_[t].expire /\ timers_'[t].pos = Place(t, target, pollNow)
    BY <1>4, <2>1
  <2>3. timers_[t].expire > pollNow
    <3>1. timers_[t].expire \in Int /\ pollNow \in Int
      BY <2>1, TimeAssumption DEF IInv, TimersOK, ClockOK
    <3>2. ~(timers_[t].expire <= pollNow)
      BY <1>5, <2>1
    <3> QED
      BY <3>1, <3>2
  <2> QED
    BY <1>4, <1>5, <2>1, <2>2, <2>3
<1>8. phase' = "callbacks"
  <2>1. \A t \in DOMAIN timers_' : timers_'[t].pos[1] # NoWheel
    <3> TAKE t \in DOMAIN timers_'
    <3> DEFINE e == timers_[t].expire
    <3>1. t \in Active /\ t \in Active' /\ e > pollNow
      BY <1>6, <1>7 DEF Active
    <3>2. /\ e \in Nat /\ e < Capacity /\ pollNow \in Nat
          /\ Capacity \in Nat
      BY <3>1, FitsIs, TimeAssumption DEF IInv, TimersOK, ClockOK, InRange
    <3> HIDE DEF e
    <3>3. e - pollNow \in Nat /\ e - pollNow < Capacity /\ pollNow + (e - pollNow) = e
          /\ pollNow < Capacity
      BY <3>1, <3>2
    <3>4. Fits(Origin, e) /\ Fits(Origin, pollNow) /\ Origin \in Hands
      BY <3>2, <3>3, FitsIs
    <3>5. hands_' \in Hands /\ Fits(hands_', e - pollNow)
      <4>1. Moved(Origin, pollNow) \in Hands
        BY <3>2, <3>4, MoveTwice
      <4>2. Fits(Moved(Origin, pollNow), e - pollNow)
        BY <3>2, <3>3, <3>4, FitsInParts
      <4> QED
        BY <1>4, <1>5, <4>1, <4>2
    <3>6. FindPos(hands_', e - pollNow).pos \in Wheels \X Nat
      BY <3>3, <3>5, SlotIs
    <3>7. timers_'[t].pos \in Wheels \X Nat
      BY <1>7, <3>1, <3>6 DEF e
    <3> QED
      BY <3>7, WheelsAre DEF NoWheel
  <2> QED
    BY <1>4, <1>5, <2>1
<1> QED
  BY <1>1, <1>4, <1>5, <1>6, <1>7, <1>8

\* The hands move, and with them the timers that are not due yet.
LEMMA StepKeeps ==
    ASSUME InRange, IInv, Step
    PROVE  IInv'
<1>1. /\ phase' = "callbacks" /\ UNCHANGED <<clock, pollNow>>
      /\ hands_' = Moved(Origin, pollNow) /\ last_expire_time_' = pollNow
      /\ Active' = Active \ {t \in Active : timers_[t].expire <= pollNow}
      /\ \A t \in Active' : /\ timers_'[t].expire = timers_[t].expire
                            /\ timers_[t].expire > pollNow
                            /\ timers_'[t].pos
                                  = FindPos(hands_', timers_[t].expire - pollNow).pos
      /\ expire_time_queue_' =
            [i \in Instants |-> IF i <= pollNow THEN 0 ELSE expire_time_queue_[i]]
  BY StepIs
<1>2. ClockOK'
  BY <1>1, TimeAssumption DEF IInv, ClockOK
<1>3. TimersOK'
  <2>1. IsFiniteSet(Active')
    BY <1>1, FS_Subset DEF IInv, TimersOK
  <2>2. \A t \in Active' : timers_'[t].expire \in pollNow .. MaxTime + MaxInterval
    <3> TAKE t \in Active'
    <3>1. /\ timers_[t].expire \in last_expire_time_ .. MaxTime + MaxInterval
          /\ timers_'[t].expire = timers_[t].expire /\ timers_[t].expire > pollNow
      BY <1>1 DEF IInv, TimersOK
    <3> QED
      BY <3>1, TimeAssumption DEF IInv, ClockOK
  <2>3. expire_time_queue_' \in [Instants -> Nat]
    BY <1>1 DEF IInv, TimersOK
  <2> QED
    BY <1>1, <2>1, <2>2, <2>3 DEF TimersOK
<1>4. SlotsFollowHands'
  <2>1. \A t \in Active' :
           timers_'[t].pos = FindPos(hands_', timers_'[t].expire - last_expire_time_').pos
    BY <1>1
  <2> QED
    BY <2>1 DEF SlotsFollowHands
<1>5. QueueMatchesTimers'
  <2> SUFFICES ASSUME NEW i \in Instants
               PROVE  expire_time_queue_'[i] = Cardinality(TimersOf(i)')
    BY DEF QueueMatchesTimers, TimersOf
  <2>1. expire_time_queue_[i] = Cardinality(TimersOf(i))
    BY DEF IInv, QueueMatchesTimers, TimersOf
  <2>2. i \in Int /\ pollNow \in Int
    BY TimeAssumption DEF IInv, ClockOK, Instants
  <2>3. CASE i <= pollNow
    <3>1. TimersOf(i)' = {}
      <4> SUFFICES ASSUME NEW t \in Active', timers_'[t].expire = i PROVE FALSE
        BY DEF TimersOf
      <4>1. i > pollNow
        BY <1>1
      <4> QED
        BY <2>2, <2>3, <4>1
    <3> QED
      BY <1>1, <2>3, <3>1, FS_EmptySet
  <2>4. CASE ~(i <= pollNow)
    <3>1. TimersOf(i)' = TimersOf(i)
      BY <1>1, <2>4 DEF TimersOf
    <3> QED
      BY <1>1, <2>1, <2>4, <3>1
  <2> QED
    BY <2>3, <2>4
<1> QED
  BY <1>2, <1>3, <1>4, <1>5 DEF IInv

\* The other steps move no timer and no hand.
LEMMA OthersKeep ==
    ASSUME InRange, IInv,
           \/ Tick \/ Run \/ PollReturns \/ CallbackReturns \/ EndIteration
           \/ (\E t \in Timers : Call(t)) \/ UNCHANGED vars
    PROVE  IInv'
<1>1. UNCHANGED <<hands_, last_expire_time_, timers_, expire_time_queue_>>
  BY DEF Tick, Run, PollReturns, CallbackReturns, EndIteration, Call, vars, wheelVars,
         InRange, IInv, ClockOK
<1>2. TimersOK' /\ SlotsFollowHands' /\ QueueMatchesTimers'
  BY <1>1 DEF IInv, TimersOK, SlotsFollowHands, QueueMatchesTimers, Active
<1>3. ClockOK'
  <2>1. CASE Tick
    BY <1>1, <2>1, TimeAssumption DEF Tick, IInv, ClockOK, InRange
  <2>2. CASE Run
    BY <1>1, <2>2 DEF Run, IInv, ClockOK
  <2>3. CASE PollReturns
    BY <1>1, <2>3 DEF PollReturns, IInv, ClockOK
  <2>4. CASE CallbackReturns \/ \E t \in Timers : Call(t)
    BY <1>1, <2>4 DEF CallbackReturns, Call, IInv, ClockOK
  <2>5. CASE EndIteration
    BY <1>1, <2>5 DEF EndIteration, IInv, ClockOK
  <2>6. CASE UNCHANGED vars
    BY <1>1, <2>6 DEF vars, IInv, ClockOK
  <2> QED
    BY <2>1, <2>2, <2>3, <2>4, <2>5, <2>6
<1> QED
  BY <1>2, <1>3 DEF IInv

\* No timers at first, and the hands at the origin.
LEMMA InitIInv == Init => IInv
<1> SUFFICES ASSUME Init PROVE IInv
  OBVIOUS
<1>1. Active = {}
  BY DEF Init, Active
<1>2. hands_ = Moved(Origin, 0)
  <2>1. Origin \in Hands /\ 0 < Capacity /\ 0 \in Nat
    BY FitsIs
  <2>2. \A w \in Wheels : Rests(Origin, 0)[w] = 0
    <3> TAKE w \in Wheels
    <3>1. /\ 1 \in 1 .. Len(Slots) + 1 /\ w \in 1 .. Len(Slots) + 1 /\ 1 <= w
          /\ Rests(Origin, 0)[1] = 0
      BY <2>1, RestsIs, WheelsAre
    <3> QED
      BY <2>1, <3>1, NoRestAbove
  <2>3. \A w \in Wheels : NewHand(Origin, w, Rests(Origin, 0)[w]) = 0
    <3> TAKE w \in Wheels
    <3>1. Origin[w] = 0 /\ 0 + Origin[w] < Slots[w]
      BY WheelsAre DEF Origin
    <3>2. NewHand(Origin, w, 0) = 0 + Origin[w]
      BY <2>1, <3>1, OneWheel
    <3> QED
      BY <2>2, <3>1, <3>2
  <2> QED
    BY <2>3 DEF Init, Moved
<1>3. ClockOK
  BY <1>2, TimeAssumption DEF Init, ClockOK
<1>4. TimersOK /\ SlotsFollowHands
  BY <1>1, FS_EmptySet DEF Init, TimersOK, SlotsFollowHands
<1>5. QueueMatchesTimers
  BY <1>1, FS_EmptySet DEF Init, QueueMatchesTimers
<1> QED
  BY <1>3, <1>4, <1>5 DEF IInv

\* Every step.
LEMMA NextIInv == InRange /\ IInv /\ [Next]_vars => IInv'
<1> SUFFICES ASSUME InRange, IInv, [Next]_vars PROVE IInv'
  OBVIOUS
<1>1. CASE UserCode
  BY <1>1, RunAfterKeeps, RemoveTimerKeeps DEF UserCode
<1>2. CASE Step
  BY <1>2, StepKeeps
<1>3. CASE ~UserCode /\ ~Step
  BY <1>3, OthersKeep DEF Next, LoopStep, PollEvent, PollTimeout
<1> QED
  BY <1>1, <1>2, <1>3

-----------------------------------------------------------------------------
(* Theorems *)

LEMMA Safety == ASSUME InRange PROVE Spec => []IInv
  BY InitIInv, NextIInv, PTL DEF Spec

\* Step moves the hands and places the timers of one slot anew, and no timer is
\* ever in another slot than the one FindPos would give it.
THEOREM TimersInTheirSlots == ASSUME InRange PROVE Spec => []SlotsFollowHands
<1>1. IInv => SlotsFollowHands
  BY DEF IInv
<1> QED
  BY <1>1, Safety, PTL

\* RunAt, RemoveTimer and Step change timers_ and the queue of expire times, each
\* in code of its own, and the two never differ.
THEOREM QueueIsRight == ASSUME InRange PROVE Spec => []QueueMatchesTimers
<1>1. IInv => QueueMatchesTimers
  BY DEF IInv
<1> QED
  BY <1>1, Safety, PTL

\* Step hands out the callbacks of all the timers that have expired, and of no
\* other.
THEOREM ExpiredAreHandedOut == ASSUME InRange PROVE Spec => StepHandsOutExpired
<1>1. ASSUME IInv, [Next]_vars, phase = "events", phase' = "callbacks"
      PROVE  \A t \in Active' : timers_'[t].expire > pollNow
  <2>1. Step
    BY <1>1, RunAfterIs DEF Next, Tick, UserCode, LoopStep, PollEvent, PollTimeout, PollReturns,
       RunAfter, RemoveTimer, Run, CallbackReturns, EndIteration, Call, vars, UserPhases
  <2>2. \A t \in Active' : timers_'[t].expire = timers_[t].expire /\ timers_[t].expire > pollNow
    BY <1>1, <2>1, StepIs
  <2> QED
    BY <2>2
<1>2. IInv /\ [Next]_vars =>
         (phase = "events" /\ phase' = "callbacks"
             => \A t \in Active' : timers_'[t].expire > pollNow)
  BY <1>1
<1> QED
  BY <1>2, Safety, PTL DEF Spec, StepHandsOutExpired

\* No assertion of RunAt, Step or FindPos fails, and Step never overflows: what
\* ends the process is the removal of a timer that is due already.
THEOREM OnlyRemovalAborts == ASSUME InRange PROVE Spec => AssertionsHold
<1>1. ASSUME IInv, [Next]_vars, phase # "aborted", phase' = "aborted"
      PROVE  \E t \in pending : RemoveTimer(t)
  <2>1. ~Step
    BY <1>1, StepIs
  <2>2. \A interval \in 0 .. MaxInterval : ~RunAfter(interval)
    BY <1>1, RunAfterIs
  <2>3. PICK t \in Timers : RemoveTimer(t)
    BY <1>1, <2>1, <2>2 DEF Next, Tick, UserCode, LoopStep, PollEvent, PollTimeout, PollReturns,
       Run, CallbackReturns, EndIteration, Call, vars
  <2>4. t \in pending
    BY <1>1, <2>3 DEF RemoveTimer
  <2> QED
    BY <2>3, <2>4
<1>2. IInv /\ [Next]_vars =>
         (phase # "aborted" /\ phase' = "aborted" => \E t \in pending : RemoveTimer(t))
  BY <1>1
<1> QED
  BY <1>2, Safety, PTL DEF Spec, AssertionsHold

\* The wheel keeps the promises of TimerService: no timer is early, none is
\* left behind, none is called twice.
THEOREM WheelImplementsService == ASSUME InRange PROVE Spec => ImplementsTimerService
<1> DEFINE armed == [t \in Active |-> timers_[t].expire]
<1>1. Init => Service!Init
  <2> SUFFICES ASSUME Init PROVE Service!Init
    OBVIOUS
  <2>1. Active = {}
    BY DEF Init, Active
  <2> QED
    BY <2>1 DEF Init, Service!Init
<1>2. ASSUME UNCHANGED timers_
      PROVE  UNCHANGED Service!Armed /\ armed' = armed
  BY <1>2 DEF Service!Armed, Active
<1>3. ASSUME Tick
      PROVE  Service!Tick
  BY <1>2, <1>3 DEF Tick, wheelVars, Service!Tick
<1>4. ASSUME NEW t \in Timers, Call(t)
      PROVE  Service!Call(t)
  BY <1>2, <1>4 DEF Call, wheelVars, Service!Call
<1>5. ASSUME InRange, IInv, NEW interval \in 0 .. MaxInterval, RunAfter(interval)
      PROVE  \E t \in Timers : Service!Arm(t)
  <2>1. UNCHANGED <<clock, pending, gone>>
    BY <1>5, RunAfterIs
  <2>2. PICK t \in Timers \ Used :
           timers_' = [u \in Active \cup {t} |->
              IF u = t
              THEN [expire |-> clock + interval,
                    pos |-> FindPos(hands_, (clock + interval) - last_expire_time_).pos]
              ELSE timers_[u]]
    BY <1>5, RunAfterIs
  <2>3. t \notin Active \cup pending \cup gone
    BY DEF Used
  <2> DEFINE new == [expire |-> clock + interval,
                     pos |-> FindPos(hands_, (clock + interval) - last_expire_time_).pos]
  <2>4. new.expire = clock + interval
    OBVIOUS
  <2>5. timers_' = [u \in Active \cup {t} |-> IF u = t THEN new ELSE timers_[u]]
    BY <2>2
  <2> HIDE DEF new
  <2>6. /\ Active' = Active \cup {t} /\ timers_'[t].expire = clock + interval
        /\ \A u \in Active : timers_'[u].expire = timers_[u].expire
    BY <2>3, <2>4, <2>5 DEF Active
  <2>7. Service!Armed = Active
    BY DEF Service!Armed
  <2>8. armed' = [u \in Active \cup {t} |-> IF u = t THEN clock + interval ELSE armed[u]]
    <3>1. \A u \in Active \cup {t} :
             timers_'[u].expire = IF u = t THEN clock + interval ELSE armed[u]
      BY <2>3, <2>6
    <3> QED
      BY <2>6, <3>1
  <2>9. clock + interval \in clock .. clock + MaxInterval
    BY <1>5, TimeAssumption DEF IInv, ClockOK
  <2>10. Service!Arm(t)
    BY <2>1, <2>3, <2>7, <2>8, <2>9 DEF Service!Arm
  <2> QED
    BY <2>10
<1>6. ASSUME NEW t \in Timers, RemoveTimer(t), t \in Active
      PROVE  Service!Cancel(t)
  <2>1. /\ UNCHANGED <<clock, pending>> /\ gone' = gone \cup {t}
        /\ timers_' = [u \in Active \ {t} |-> timers_[u]]
    BY <1>6 DEF RemoveTimer
  <2>2. Active' = Active \ {t} /\ \A u \in Active \ {t} : timers_'[u] = timers_[u]
    BY <2>1 DEF Active
  <2>3. Service!Armed = Active
    BY DEF Service!Armed
  <2>4. armed' = [u \in Active \ {t} |-> armed[u]]
    BY <2>2
  <2> QED
    BY <1>6, <2>1, <2>3, <2>4 DEF Service!Cancel
<1>7. ASSUME InRange, IInv, Step
      PROVE  \E now \in 0 .. MaxTime : Service!Expire(now)
  <2>1. /\ pending = {} /\ UNCHANGED <<clock, gone>>
        /\ pending' = {t \in Active : timers_[t].expire <= pollNow}
        /\ Active' = Active \ pending'
        /\ \A t \in Active' : timers_'[t].expire = timers_[t].expire
    BY <1>7, StepIs DEF IInv, ClockOK
  <2>2. PICK now \in 0 .. MaxTime : now = pollNow /\ now <= clock
    BY <1>7, TimeAssumption DEF IInv, ClockOK
  <2>3. Service!Armed = Active
    BY DEF Service!Armed
  <2>4. armed' = [t \in Active \ pending' |-> armed[t]]
    BY <2>1
  <2>5. pending' = {t \in Active : armed[t] <= now}
    BY <2>1, <2>2
  <2> QED
    BY <2>1, <2>2, <2>3, <2>4, <2>5 DEF Service!Expire
<1>8. ASSUME UNCHANGED <<clock, timers_, pending, gone>>
      PROVE  UNCHANGED Service!vars
  BY <1>2, <1>8 DEF Service!vars
<1>9. ASSUME NEW t \in Timers, RemoveTimer(t), t \notin Active
      PROVE  UNCHANGED Service!vars
  BY <1>8, <1>9 DEF RemoveTimer
<1>10. ASSUME Run \/ PollReturns \/ CallbackReturns \/ EndIteration \/ UNCHANGED vars
       PROVE  UNCHANGED Service!vars
  BY <1>8, <1>10 DEF Run, PollReturns, CallbackReturns, EndIteration, vars, wheelVars
<1>11. IInv /\ [Next]_vars => [Service!Next]_(Service!vars)
  <2> SUFFICES ASSUME IInv, [Next]_vars PROVE Service!Next \/ UNCHANGED Service!vars
    OBVIOUS
  <2>1. CASE UserCode
    BY <1>5, <1>6, <1>9, <2>1 DEF UserCode, Service!Next
  <2>2. CASE Tick \/ Step \/ \E t \in Timers : Call(t)
    BY <1>3, <1>4, <1>7, <2>2 DEF Service!Next
  <2> QED
    BY <1>10, <2>1, <2>2 DEF Next, LoopStep, PollEvent, PollTimeout
<1> QED
  BY <1>1, <1>11, Safety, PTL DEF Spec, ImplementsTimerService, Service!Spec
=============================================================================
